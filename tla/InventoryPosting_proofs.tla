----------------------- MODULE InventoryPosting_proofs -----------------------
(***************************************************************************)
(* Proofs about InventoryPosting for any balances, keys, commands, number  *)
(* of handlers and number of attempts.                                     *)
(***************************************************************************)
EXTENDS InventoryPosting, InventoryBook, SequenceTheorems, FiniteSetTheorems, TLAPS

\* What a fold of postings, one after the other, computes.
Fold == INSTANCE FoldTheorems WITH Op <- OneMore

----------------------------------------------------------------------------
(* What the operators return.                                              *)

\* Quantities and deltas give quantities: the after* snapshot of post.
LEMMA AfterType ==
    ASSUME NEW q \in Quantities, NEW d \in Deltas
    PROVE  After(q, d) \in Quantities
  BY DEF After, Quantities, Deltas

\* The postings the services build are postings.
LEMMA PostingType ==
    ASSUME NEW b \in Balances, NEW key \in Keys, NEW type \in MovementTypes, NEW quantity \in Int,
           NEW delta \in Deltas, NEW reversed \in Keys \cup {NoKey}
    PROVE  /\ Posting(b, key, type, quantity, delta, reversed) \in Postings
           /\ Posting(b, key, type, quantity, delta, reversed).reversalOf = reversed
           /\ Posting(b, key, type, quantity, delta, reversed).balance = b
  BY DEF Posting, Postings

\* Keys the services build are keys.
LEMMA KeyType ==
    ASSUME NEW kind \in KeyKinds, NEW client \in ClientKeys, NEW n \in Nat
    PROVE  Key(kind, client, n) \in Keys
  BY DEF Key, Keys

\* Deltas the services build, and their opposites, are deltas.
LEMMA DeltaType ==
    /\ \A n \in Int : OnHand(n) \in Deltas
    /\ \A d \in Deltas : Negated(d) \in Deltas
  BY DEF OnHand, Negated, Deltas

\* A command is one of its kind: op tells which.
LEMMA CommandKinds ==
    ASSUME NEW c \in Commands
    PROVE  /\ c.op = "ADJUST" => c \in AdjustCommands
           /\ c.op = "REVERSE" => c \in ReverseCommands
           /\ c.op = "TRANSFER" => c \in TransferCommands
           /\ c.op = "DOCUMENT" => c \in DocumentCommands
  BY CommandsAssumption
     DEF AdjustCommands, ReverseCommands, TransferCommands, DocumentCommands

\* What adjust posts is a posting that reverses nothing.
LEMMA AdjustPostingType ==
    ASSUME NEW c \in AdjustCommands
    PROVE  AdjustPosting(c) \in Postings /\ AdjustPosting(c).reversalOf = NoKey
  <1>1. c.balance \in Balances /\ c.client \in ClientKeys /\ c.change \in Int
    BY DEF AdjustCommands
  <1>2. Abs(c.change) \in Int
    BY <1>1 DEF Abs
  <1>3. AdjustKey(c) \in Keys
    BY <1>1, KeyType DEF AdjustKey, KeyKinds
  <1> QED
    BY <1>1, <1>2, <1>3, PostingType, DeltaType DEF AdjustPosting, MovementTypes

\* What reverse posts names the original and stands on the original's balance.
LEMMA ReversalPostingType ==
    ASSUME NEW c \in ReverseCommands, NEW original \in Movements
    PROVE  /\ ReversalPosting(c, original) \in Postings
           /\ ReversalPosting(c, original).reversalOf = original.posting.key
           /\ ReversalPosting(c, original).balance = original.posting.balance
  <1>1. original.posting \in Postings
    BY DEF Movements
  <1>2. /\ original.posting.balance \in Balances
        /\ original.posting.key \in Keys
        /\ original.posting.quantity \in Int
        /\ original.posting.delta \in Deltas
    BY <1>1 DEF Postings
  <1>3. Key("REVERSAL", c.client, 0) \in Keys
    BY KeyType DEF ReverseCommands, KeyKinds
  <1>4. Negated(original.posting.delta) \in Deltas
    BY <1>2, DeltaType
  <1>5. "REVERSAL" \in MovementTypes
    BY DEF MovementTypes
  <1> QED
    BY <1>2, <1>3, <1>4, <1>5, PostingType DEF ReversalPosting, Reversal

\* Both postings of a round of the transfer loop are postings that reverse nothing.
LEMMA TransferPostingTypes ==
    ASSUME NEW c \in TransferCommands, NEW b \in Balances, NEW q \in Int, NEW n \in Nat
    PROVE  /\ TransferOut(c, b, q, n) \in Postings
           /\ TransferOut(c, b, q, n).reversalOf = NoKey
           /\ TransferIn(c, q, n) \in Postings
           /\ TransferIn(c, q, n).reversalOf = NoKey
  <1>1. c.client \in ClientKeys /\ c.to \in Balances
    BY DEF TransferCommands
  <1>2. -q \in Int
    OBVIOUS
  <1>3. OnHand(q) \in Deltas /\ OnHand(-q) \in Deltas
    BY <1>2, DeltaType
  <1>4. /\ Key("TRANSFER_OUT", c.client, n) \in Keys
        /\ Key("TRANSFER_IN", c.client, n) \in Keys
    BY <1>1, KeyType DEF KeyKinds
  <1>5. "TRANSFER_OUT" \in MovementTypes /\ "TRANSFER_IN" \in MovementTypes
    BY DEF MovementTypes
  <1>6. TransferOut(c, b, q, n) \in Postings /\ TransferOut(c, b, q, n).reversalOf = NoKey
    BY <1>3, <1>4, <1>5 DEF TransferOut, Posting, Postings
  <1>7. TransferIn(c, q, n) \in Postings /\ TransferIn(c, q, n).reversalOf = NoKey
    BY <1>1, <1>3, <1>4, <1>5, PostingType DEF TransferIn
  <1> QED
    BY <1>6, <1>7

\* The inventory starts well formed.
LEMMA EmptyInventoryType == EmptyInventory \in Inventories
  BY DEF EmptyInventory, Inventories, Rows, Quantities, ZERO

----------------------------------------------------------------------------
(* One posting.                                                            *)

\* The movement a posting appends.
NewMovement(inv, p) ==
    [posting |-> p, before |-> inv.rows[p.balance].quantities, after |-> AfterPosting(inv, p)]

\* A posting moves one row, by one version, appends one movement and leaves the other balances alone.
LEMMA PostedShape ==
    ASSUME NEW inv \in Inventories, NEW p \in Postings
    PROVE  /\ Posted(inv, p) \in Inventories
           /\ NewMovement(inv, p) \in Movements
           /\ p.balance \in Balances
           /\ Posted(inv, p).rows[p.balance] =
                [quantities |-> AfterPosting(inv, p), version |-> inv.rows[p.balance].version + 1]
           /\ Posted(inv, p).moves[p.balance] = Append(inv.moves[p.balance], NewMovement(inv, p))
           /\ \A b \in Balances : b # p.balance =>
                /\ Posted(inv, p).rows[b] = inv.rows[b]
                /\ Posted(inv, p).moves[b] = inv.moves[b]
  <1>1. p.balance \in Balances /\ p.delta \in Deltas
    BY DEF Postings
  <1>2. /\ inv.rows \in [Balances -> Rows]
        /\ inv.moves \in [Balances -> Seq(Movements)]
    BY DEF Inventories
  <1>3. /\ inv.rows[p.balance].quantities \in Quantities
        /\ inv.rows[p.balance].version \in Nat
    BY <1>1, <1>2 DEF Rows
  <1>4. AfterPosting(inv, p) \in Quantities
    BY <1>1, <1>3, AfterType DEF AfterPosting
  <1>5. NewMovement(inv, p) \in Movements
    BY <1>3, <1>4 DEF NewMovement, Movements
  <1>6. Append(inv.moves[p.balance], NewMovement(inv, p)) \in Seq(Movements)
    BY <1>1, <1>2, <1>5
  <1>7. [quantities |-> AfterPosting(inv, p), version |-> inv.rows[p.balance].version + 1] \in Rows
    BY <1>3, <1>4 DEF Rows
  <1> QED
    BY <1>1, <1>2, <1>5, <1>6, <1>7 DEF Posted, NewMovement, Inventories

\* A ledger that goes on from another: nothing of it is changed, removed or put before it.
Extended(old, new) ==
    \A b \in Balances : /\ Len(old[b]) <= Len(new[b])
                        /\ \A i \in 1..Len(old[b]) : new[b][i] = old[b][i]

\* Every movement after a posting is an old one in its place, or the new one at the end.
LEMMA PostedMoves ==
    ASSUME NEW inv \in Inventories, NEW p \in Postings, NEW b \in Balances
    PROVE  /\ Len(inv.moves[b]) \in Nat
           /\ DOMAIN inv.moves[b] = 1..Len(inv.moves[b])
           /\ DOMAIN Posted(inv, p).moves[b] = 1..Len(Posted(inv, p).moves[b])
           /\ Len(Posted(inv, p).moves[b]) =
                IF b = p.balance THEN Len(inv.moves[b]) + 1 ELSE Len(inv.moves[b])
           /\ \A i \in 1..Len(inv.moves[b]) : Posted(inv, p).moves[b][i] = inv.moves[b][i]
           /\ b = p.balance => Posted(inv, p).moves[b][Len(inv.moves[b]) + 1] = NewMovement(inv, p)
  <1>1. inv.moves[b] \in Seq(Movements) /\ Posted(inv, p).moves[b] \in Seq(Movements)
    BY PostedShape DEF Inventories
  <1>2. CASE b = p.balance
    <2>1. Posted(inv, p).moves[b] = Append(inv.moves[b], NewMovement(inv, p))
      BY <1>2, PostedShape
    <2>2. NewMovement(inv, p) \in Movements
      BY PostedShape
    <2> QED
      BY <1>1, <1>2, <2>1, <2>2, AppendProperties
  <1>3. CASE b # p.balance
    <2>1. Posted(inv, p).moves[b] = inv.moves[b]
      BY <1>3, PostedShape
    <2> QED
      BY <1>1, <1>3, <2>1
  <1> QED
    BY <1>2, <1>3

\* A movement after a posting is an old one or the one just posted.
LEMMA PostedMovement ==
    ASSUME NEW inv \in Inventories, NEW p \in Postings, NEW b \in Balances,
           NEW i \in DOMAIN Posted(inv, p).moves[b]
    PROVE  \/ i \in DOMAIN inv.moves[b] /\ Posted(inv, p).moves[b][i] = inv.moves[b][i]
           \/ b = p.balance /\ i = Len(inv.moves[b]) + 1 /\ Posted(inv, p).moves[b][i].posting = p
  <1>1. i \in 1..(Len(inv.moves[b]) + 1) /\ Len(inv.moves[b]) \in Nat
    BY PostedMoves
  <1>2. CASE i \in 1..Len(inv.moves[b])
    BY <1>2, PostedMoves
  <1>3. CASE i = Len(inv.moves[b]) + 1
    <2>1. b = p.balance
      BY <1>1, <1>3, PostedMoves
    <2>2. Posted(inv, p).moves[b][i] = NewMovement(inv, p)
      BY <1>3, <2>1, PostedMoves
    <2> QED
      BY <1>3, <2>1, <2>2 DEF NewMovement
  <1> QED
    BY <1>1, <1>2, <1>3

\* A posting prolongs the ledger.
LEMMA PostedExtends ==
    ASSUME NEW inv \in Inventories, NEW p \in Postings
    PROVE  Extended(inv.moves, Posted(inv, p).moves)
  BY PostedMoves DEF Extended

\* A posting whose key is free leaves the keys of the ledger distinct.
LEMMA PostedKeysDistinct ==
    ASSUME NEW inv \in Inventories, NEW p \in Postings, KeysDistinct(inv.moves), ~KeyUsed(inv, p.key)
    PROVE  KeysDistinct(Posted(inv, p).moves)
  <1> DEFINE new == Posted(inv, p).moves
  <1> SUFFICES ASSUME NEW b1 \in Balances, NEW b2 \in Balances,
                      NEW i \in DOMAIN new[b1], NEW j \in DOMAIN new[b2],
                      new[b1][i].posting.key = new[b2][j].posting.key
               PROVE  b1 = b2 /\ i = j
    BY DEF KeysDistinct
  <1>1. \/ i \in DOMAIN inv.moves[b1] /\ new[b1][i] = inv.moves[b1][i]
        \/ b1 = p.balance /\ i = Len(inv.moves[b1]) + 1 /\ new[b1][i].posting = p
    BY PostedMovement
  <1>2. \/ j \in DOMAIN inv.moves[b2] /\ new[b2][j] = inv.moves[b2][j]
        \/ b2 = p.balance /\ j = Len(inv.moves[b2]) + 1 /\ new[b2][j].posting = p
    BY PostedMovement
  <1> HIDE DEF new
  <1>3. \A b \in Balances : \A k \in DOMAIN inv.moves[b] : inv.moves[b][k].posting.key # p.key
    BY DEF KeyUsed
  <1> QED
    BY <1>1, <1>2, <1>3 DEF KeysDistinct

\* What makes a posting's reversalOf right: its original is on the same balance and was not
\* reversed before.
ReversalAllowed(inv, p) ==
    p.reversalOf # NoKey =>
        /\ ~Reversed(inv, p.reversalOf)
        /\ \E j \in DOMAIN inv.moves[p.balance] : inv.moves[p.balance][j].posting.key = p.reversalOf

\* A posting that may be made keeps reversals distinct and beside their originals.
LEMMA PostedReversals ==
    ASSUME NEW inv \in Inventories, NEW p \in Postings, ReversalAllowed(inv, p),
           ReversalsDistinct(inv.moves), ReversalsBesideOriginals(inv.moves)
    PROVE  /\ ReversalsDistinct(Posted(inv, p).moves)
           /\ ReversalsBesideOriginals(Posted(inv, p).moves)
  <1> DEFINE new == Posted(inv, p).moves
  <1>1. \A b \in Balances : \A i \in DOMAIN new[b] :
           \/ i \in DOMAIN inv.moves[b] /\ new[b][i] = inv.moves[b][i]
           \/ b = p.balance /\ i = Len(inv.moves[b]) + 1 /\ new[b][i].posting = p
    BY PostedMovement
  <1>2. \A b \in Balances : \A i \in DOMAIN inv.moves[b] :
           i \in DOMAIN new[b] /\ new[b][i] = inv.moves[b][i]
    <2> TAKE b \in Balances
    <2>1. Len(inv.moves[b]) \in Nat /\ Len(new[b]) >= Len(inv.moves[b])
      BY PostedMoves
    <2> QED
      BY <2>1, PostedMoves
  <1> HIDE DEF new
  <1>3. ReversalsDistinct(new)
    <2>1. p.reversalOf # NoKey =>
            \A b \in Balances : \A i \in DOMAIN inv.moves[b] :
              inv.moves[b][i].posting.reversalOf # p.reversalOf
      BY DEF ReversalAllowed, Reversed
    <2> QED
      BY <1>1, <2>1 DEF ReversalsDistinct
  <1>4. ReversalsBesideOriginals(new)
    <2> SUFFICES ASSUME NEW b \in Balances, NEW i \in DOMAIN new[b],
                        new[b][i].posting.reversalOf # NoKey
                 PROVE  \E j \in DOMAIN new[b] :
                          new[b][j].posting.key = new[b][i].posting.reversalOf
      BY DEF ReversalsBesideOriginals
    <2>1. \E j \in DOMAIN inv.moves[b] : inv.moves[b][j].posting.key = new[b][i].posting.reversalOf
      BY <1>1 DEF ReversalsBesideOriginals, ReversalAllowed
    <2> QED
      BY <1>2, <2>1
  <1> QED
    BY <1>3, <1>4 DEF new

\* The row and the movement a posting writes prolong the chain.
LEMMA PostedChained ==
    ASSUME NEW inv \in Inventories, NEW p \in Postings, NEW b \in Balances,
           Chained(inv.rows[b], inv.moves[b])
    PROVE  Chained(Posted(inv, p).rows[b], Posted(inv, p).moves[b])
  <1>1. CASE b # p.balance
    <2>1. Posted(inv, p).rows[b] = inv.rows[b] /\ Posted(inv, p).moves[b] = inv.moves[b]
      BY <1>1, PostedShape
    <2> QED
      BY <2>1
  <1>2. CASE b = p.balance
    <2> DEFINE n   == Len(inv.moves[b])
               old == inv.moves[b]
               new == Posted(inv, p).moves[b]
    <2>1. /\ n \in Nat
          /\ Len(new) = n + 1
          /\ \A i \in 1..n : new[i] = old[i]
          /\ new[n + 1] = NewMovement(inv, p)
      BY <1>2, PostedMoves
    <2>2. Posted(inv, p).rows[b] =
            [quantities |-> AfterPosting(inv, p), version |-> inv.rows[b].version + 1]
      BY <1>2, PostedShape
    <2>3. new[n + 1].before = IF n = 0 THEN ZERO ELSE old[n].after
      BY <1>2, <2>1 DEF NewMovement, Chained
    <2>4. new[n + 1].after = After(new[n + 1].before, new[n + 1].posting.delta)
      BY <1>2, <2>1 DEF NewMovement, AfterPosting
    <2>5. new[n + 1].after = AfterPosting(inv, p)
      BY <2>1 DEF NewMovement
    <2>6. inv.rows[b].version = n
      BY DEF Chained
    <2>7. \A i \in 1..n : /\ old[i].before = IF i = 1 THEN ZERO ELSE old[i - 1].after
                          /\ old[i].after = After(old[i].before, old[i].posting.delta)
      BY DEF Chained
    <2> HIDE DEF n, old, new
    <2>8. \A i \in 1..Len(new) :
             /\ new[i].before = IF i = 1 THEN ZERO ELSE new[i - 1].after
             /\ new[i].after = After(new[i].before, new[i].posting.delta)
      <3> SUFFICES ASSUME NEW i \in 1..Len(new)
                   PROVE  /\ new[i].before = IF i = 1 THEN ZERO ELSE new[i - 1].after
                          /\ new[i].after = After(new[i].before, new[i].posting.delta)
        OBVIOUS
      <3>1. CASE i = n + 1
        <4>1. n = 0 \/ (n \in 1..n /\ new[n] = old[n])
          BY <2>1
        <4>2. i = 1 <=> n = 0
          BY <2>1, <3>1
        <4>3. i - 1 = n
          BY <2>1, <3>1
        <4> QED
          BY <2>3, <2>4, <3>1, <4>1, <4>2, <4>3
      <3>2. CASE i # n + 1
        <4>1. i \in 1..n /\ (i = 1 \/ i - 1 \in 1..n)
          BY <2>1, <3>2
        <4> QED
          BY <2>1, <2>7, <4>1
      <3> QED
        BY <3>1, <3>2
    <2> QED
      BY <2>1, <2>2, <2>5, <2>6, <2>8 DEF Chained, new
  <1> QED
    BY <1>1, <1>2

\* post keeps an inventory sound: the step every service is made of.
LEMMA PostSound ==
    ASSUME NEW inv \in Inventories, NEW p \in Postings, Sound(inv), CanPost(inv, p),
           ReversalAllowed(inv, p)
    PROVE  /\ Post(inv, p) \in Inventories
           /\ Sound(Post(inv, p))
           /\ Extended(inv.moves, Post(inv, p).moves)
  <1>1. CASE KeyUsed(inv, p.key)
    <2>1. Post(inv, p) = inv
      BY <1>1 DEF Post
    <2>2. Extended(inv.moves, inv.moves)
      <3>1. \A b \in Balances : Len(inv.moves[b]) \in Nat
        BY DEF Inventories
      <3>2. \A b \in Balances : Len(inv.moves[b]) <= Len(inv.moves[b])
        <4> TAKE b \in Balances
        <4> DEFINE n == Len(inv.moves[b])
        <4>1. n \in Nat
          BY <3>1
        <4> HIDE DEF n
        <4>2. n <= n
          BY <4>1
        <4> QED
          BY <4>2 DEF n
      <3> QED
        BY <3>2, Zenon DEF Extended
    <2> QED
      BY <2>1, <2>2
  <1>2. CASE ~KeyUsed(inv, p.key)
    <2>1. Post(inv, p) = Posted(inv, p)
      BY <1>2 DEF Post
    <2>2. \A b \in Balances : Chained(Posted(inv, p).rows[b], Posted(inv, p).moves[b])
      BY PostedChained DEF Sound
    <2>3. \A b \in Balances : NonNegative(Posted(inv, p).rows[b].quantities)
      <3> TAKE b \in Balances
      <3>1. CASE b = p.balance
        <4>1. Posted(inv, p).rows[p.balance] =
                [quantities |-> AfterPosting(inv, p), version |-> inv.rows[p.balance].version + 1]
          BY PostedShape
        <4>2. Posted(inv, p).rows[p.balance].quantities = AfterPosting(inv, p)
          BY <4>1
        <4> QED
          BY <1>2, <3>1, <4>2 DEF CanPost
      <3>2. CASE b # p.balance
        BY <3>2, PostedShape DEF Sound
      <3> QED
        BY <3>1, <3>2
    <2>4. KeysDistinct(Posted(inv, p).moves)
      BY <1>2, PostedKeysDistinct DEF Sound
    <2>5. ReversalsDistinct(Posted(inv, p).moves) /\ ReversalsBesideOriginals(Posted(inv, p).moves)
      BY PostedReversals DEF Sound
    <2>6. \A b \in Balances : \A i \in DOMAIN Posted(inv, p).moves[b] :
             Posted(inv, p).moves[b][i].posting.balance = b
      BY PostedMovement DEF Sound
    <2>7. Sound(Posted(inv, p))
      BY <2>2, <2>3, <2>4, <2>5, <2>6 DEF Sound
    <2> QED
      BY <2>1, <2>7, PostedShape, PostedExtends
  <1> QED
    BY <1>1, <1>2

----------------------------------------------------------------------------
(* Ledgers that agree on a snapshot.                                       *)

\* A ledger that is prolonged keeps its agreement on what the snapshot counted.
LEMMA AgreeExtendedLeft ==
    ASSUME NEW rows \in [Balances -> Rows], NEW old \in [Balances -> Seq(Movements)],
           NEW new \in [Balances -> Seq(Movements)], NEW other \in [Balances -> Seq(Movements)],
           Agree(rows, old, other), Extended(old, new)
    PROVE  Agree(rows, new, other)
  <1> SUFFICES ASSUME NEW b \in Balances
               PROVE  /\ rows[b].version <= Len(new[b])
                      /\ rows[b].version <= Len(other[b])
                      /\ \A i \in 1..rows[b].version : new[b][i] = other[b][i]
    BY DEF Agree
  <1>1. rows[b].version \in Nat /\ Len(old[b]) \in Nat /\ Len(new[b]) \in Nat
    BY DEF Rows
  <1>2. rows[b].version <= Len(old[b]) /\ rows[b].version <= Len(other[b])
    BY DEF Agree
  <1>3. Len(old[b]) <= Len(new[b])
    BY DEF Extended
  <1>4. \A i \in 1..rows[b].version : i \in 1..Len(old[b])
    BY <1>1, <1>2
  <1>5. \A i \in 1..rows[b].version : new[b][i] = other[b][i]
    BY <1>4 DEF Agree, Extended
  <1> QED
    BY <1>1, <1>2, <1>3, <1>5

\* Agreement is mutual.
LEMMA AgreeSymmetric ==
    ASSUME NEW rows, NEW one, NEW other, Agree(rows, one, other)
    PROVE  Agree(rows, other, one)
  BY DEF Agree

\* A sound inventory agrees with itself on all its movements.
LEMMA AgreeWithItself ==
    ASSUME NEW inv \in Inventories, Sound(inv)
    PROVE  Agree(inv.rows, inv.moves, inv.moves)
  <1> SUFFICES ASSUME NEW b \in Balances
               PROVE  inv.rows[b].version <= Len(inv.moves[b])
    BY DEF Agree
  <1>1. inv.rows[b].version = Len(inv.moves[b])
    BY DEF Sound, Chained
  <1>2. inv.rows[b].version \in Nat
    BY DEF Inventories, Rows
  <1> QED
    BY <1>1, <1>2

----------------------------------------------------------------------------
(* The inductive invariant holds at first.                                 *)

\* The inventory starts sound.
LEMMA EmptySound == Sound(EmptyInventory)
  <1>1. \A b \in Balances : /\ EmptyInventory.moves[b] = <<>>
                            /\ EmptyInventory.rows[b] = [quantities |-> ZERO, version |-> 0]
    BY DEF EmptyInventory
  <1>2. Chained([quantities |-> ZERO, version |-> 0], <<>>)
    BY DEF Chained
  <1>3. NonNegative(ZERO)
    BY DEF NonNegative, ZERO
  <1>4. \A b \in Balances : DOMAIN EmptyInventory.moves[b] = {}
    <2> DEFINE none == <<>>
    <2>1. none \in Seq({}) /\ Len(none) = 0
      OBVIOUS
    <2>2. DOMAIN none = {}
      BY <2>1
    <2> QED
      BY <1>1, <2>2
  <1>5. \A b \in Balances : /\ Chained(EmptyInventory.rows[b], EmptyInventory.moves[b])
                            /\ NonNegative(EmptyInventory.rows[b].quantities)
    <2> TAKE b \in Balances
    <2>1. EmptyInventory.rows[b].quantities = ZERO
      BY <1>1
    <2> QED
      BY <1>1, <1>2, <1>3, <2>1
  <1> QED
    BY <1>4, <1>5 DEF Sound, KeysDistinct, ReversalsDistinct, ReversalsBesideOriginals

\* An idle handler is sound.
LEMMA NoTransactionSound ==
    ASSUME TypeOK
    PROVE  NoTransaction \in Transactions /\ HandlerSound(NoTransaction)
  <1>1. EmptyInventory.rows \in [Balances -> Rows]
    BY EmptyInventoryType DEF Inventories
  <1>2. 0 \in 0..MaxAttempts
    BY AttemptsAssumption
  <1>3. NoTransaction \in Transactions
    BY <1>1, <1>2, EmptyInventoryType DEF NoTransaction, Transactions
  <1>4. Agree(EmptyInventory.rows, EmptyInventory.moves, db.moves)
    <2>1. \A b \in Balances : EmptyInventory.rows[b].version = 0 /\ Len(EmptyInventory.moves[b]) = 0
      BY DEF EmptyInventory
    <2>2. \A b \in Balances : Len(db.moves[b]) \in Nat
      BY DEF TypeOK, Inventories
    <2>3. \A n \in Nat : 0 <= n
      OBVIOUS
    <2>4. 1..0 = {}
      OBVIOUS
    <2>5. \A b \in Balances : 0 <= Len(EmptyInventory.moves[b]) /\ 0 <= Len(db.moves[b])
      BY <2>1, <2>2, <2>3, Zenon
    <2> QED
      BY <2>1, <2>4, <2>5 DEF Agree
  <1>5. HandlerSound(NoTransaction)
    BY <1>4, EmptySound DEF HandlerSound, NoTransaction
  <1> QED
    BY <1>3, <1>5

\* The database starts sound and every handler idle.
LEMMA InitSound == Init => InventoryInv
  <1> SUFFICES ASSUME Init PROVE InventoryInv
    OBVIOUS
  <1>1. db \in Inventories /\ Sound(db)
    BY EmptyInventoryType, EmptySound DEF Init
  <1>2. NoTransaction \in Transactions
    <2>1. EmptyInventory.rows \in [Balances -> Rows]
      BY EmptyInventoryType DEF Inventories
    <2>2. 0 \in 0..MaxAttempts
      BY AttemptsAssumption
    <2> QED
      BY <2>1, <2>2, EmptyInventoryType DEF NoTransaction, Transactions
  <1>3. TypeOK
    BY <1>1, <1>2 DEF TypeOK, Init
  <1>4. \A p \in Procs : HandlerSound(tx[p])
    BY <1>3, NoTransactionSound DEF Init
  <1> QED
    BY <1>1, <1>3, <1>4 DEF InventoryInv

----------------------------------------------------------------------------
(* Steps that leave the database alone.                                    *)

\* A handler's step that leaves the database alone and its own transaction sound keeps the invariant.
LEMMA ContinueSound ==
    ASSUME InventoryInv, NEW p \in Procs, NEW t \in Transactions, HandlerSound(t), Continue(p, t)
    PROVE  InventoryInv'
  <1>1. tx' = [tx EXCEPT ![p] = t] /\ db' = db
    BY DEF Continue
  <1>2. TypeOK'
    BY <1>1 DEF InventoryInv, TypeOK
  <1>3. Sound(db)'
    BY <1>1 DEF InventoryInv
  <1>4. ASSUME NEW q \in Procs
        PROVE  HandlerSound(tx[q])'
    <2>1. tx'[q] = IF q = p THEN t ELSE tx[q]
      BY <1>1 DEF InventoryInv, TypeOK
    <2>2. HandlerSound(tx'[q])
      BY <2>1 DEF InventoryInv
    <2> QED
      BY <1>1, <2>2 DEF HandlerSound
  <1> QED
    BY <1>2, <1>3, <1>4 DEF InventoryInv

\* Rolling back keeps the invariant.
LEMMA RollBackSound ==
    ASSUME InventoryInv, NEW p \in Procs, RollBack(p)
    PROVE  InventoryInv'
  BY ContinueSound, NoTransactionSound DEF RollBack, InventoryInv

\* A transaction that opens sees the database as it is.
LEMMA SnapshotSound ==
    ASSUME InventoryInv, NEW c \in Commands, NEW n \in 0..MaxAttempts
    PROVE  Snapshot(c, n) \in Transactions /\ HandlerSound(Snapshot(c, n))
  <1> DEFINE todo == IF c.op = "DOCUMENT" THEN c.postings ELSE <<>>
  <1>1. todo \in Seq(DocumentPostings)
    BY CommandKinds DEF DocumentCommands
  <1>2. db \in Inventories /\ db.rows \in [Balances -> Rows]
    BY DEF InventoryInv, TypeOK, Inventories
  <1>3. NoTransaction \in Transactions
    BY NoTransactionSound DEF InventoryInv
  <1>4. Snapshot(c, n) \in Transactions
    BY <1>1, <1>2, <1>3 DEF Snapshot, Transactions
  <1>6. /\ Snapshot(c, n).pc = "open"
        /\ Snapshot(c, n).command = c
        /\ Snapshot(c, n).base = db.rows
        /\ Snapshot(c, n).view = db
    BY <1>3 DEF Snapshot, Transactions
  <1>5. HandlerSound(Snapshot(c, n))
    BY <1>2, <1>6, AgreeWithItself DEF HandlerSound, InventoryInv
  <1> QED
    BY <1>4, <1>5

\* A handler that goes on without posting.
LEMMA SameWorkSound ==
    ASSUME NEW t \in Transactions, HandlerSound(t), t.pc # "idle", NEW u \in Transactions,
           u.command = t.command, u.base = t.base, u.view = t.view,
           u.pc = "transferring" => t.command.op = "TRANSFER"
    PROVE  HandlerSound(u)
  BY DEF HandlerSound

\* A transaction that is ready to commit is as sound as before.
LEMMA DoneSound ==
    ASSUME NEW t \in Transactions, HandlerSound(t), t.pc # "idle"
    PROVE  /\ Done(t) \in Transactions
           /\ HandlerSound(Done(t))
           /\ Done(t).view = t.view
           /\ Done(t).pc = "posted"
  <1>1. Done(t) \in Transactions
    BY DEF Done, Transactions
  <1>2. Done(t).pc = "posted" /\ Done(t).command = t.command /\ Done(t).base = t.base /\ Done(t).view = t.view
    BY DEF Done, Transactions
  <1> QED
    BY <1>1, <1>2, SameWorkSound

\* A handler that made one posting with the reversal rule kept.
LEMMA OnePostingSound ==
    ASSUME InventoryInv, NEW t \in Transactions, HandlerSound(t), t.pc # "idle",
           NEW x \in Postings, ReversalAllowed(t.view, x), CanPost(t.view, x),
           NEW u \in Transactions,
           u.command = t.command, u.base = t.base, u.view = Post(t.view, x),
           u.pc = "transferring" => t.command.op = "TRANSFER"
    PROVE  HandlerSound(u)
  <1>1. /\ t.view \in Inventories
        /\ t.base \in [Balances -> Rows]
        /\ t.view.moves \in [Balances -> Seq(Movements)]
        /\ db.moves \in [Balances -> Seq(Movements)]
    BY DEF Transactions, Inventories, InventoryInv, TypeOK
  <1>2. /\ Post(t.view, x) \in Inventories
        /\ Sound(Post(t.view, x))
        /\ Extended(t.view.moves, Post(t.view, x).moves)
    BY <1>1, PostSound DEF HandlerSound
  <1>3. Post(t.view, x).moves \in [Balances -> Seq(Movements)]
    BY <1>2 DEF Inventories
  <1>4. Agree(t.base, t.view.moves, db.moves)
    BY DEF HandlerSound
  <1>5. Agree(t.base, Post(t.view, x).moves, db.moves)
    BY <1>1, <1>2, <1>3, <1>4, AgreeExtendedLeft
  <1> QED
    BY <1>2, <1>5 DEF HandlerSound

\* Posting, or finding the key used, gives an inventory.
LEMMA PostType ==
    ASSUME NEW inv \in Inventories, NEW x \in Postings
    PROVE  Post(inv, x) \in Inventories
  BY PostedShape DEF Post

\* post, whether it posts or throws.
LEMMA PostOrFailSound ==
    ASSUME InventoryInv, NEW p \in Procs, NEW t \in Transactions, HandlerSound(t), t.pc # "idle",
           NEW x \in Postings, ReversalAllowed(t.view, x), PostOrFail(p, t, x)
    PROVE  InventoryInv'
  <1>1. CASE ~CanPost(t.view, x)
    BY <1>1, RollBackSound DEF PostOrFail
  <1>2. CASE CanPost(t.view, x)
    <2> DEFINE u == [t EXCEPT !.view = Post(t.view, x)]
    <2>1. Continue(p, u)
      BY <1>2 DEF PostOrFail
    <2>2. t.view \in Inventories
      BY DEF Transactions
    <2>3. u \in Transactions
      BY <2>2, PostType DEF Transactions
    <2>4. /\ u.pc = t.pc /\ u.command = t.command /\ u.base = t.base
          /\ u.view = Post(t.view, x)
      BY DEF Transactions
    <2>6. u.pc = "transferring" => t.command.op = "TRANSFER"
      BY <2>4 DEF HandlerSound
    <2> HIDE DEF u
    <2>5. HandlerSound(u)
      BY <1>2, <2>3, <2>4, <2>6, OnePostingSound
    <2> QED
      BY <2>1, <2>3, <2>5, ContinueSound
  <1> QED
    BY <1>1, <1>2

----------------------------------------------------------------------------
(* The actions, one lemma each.                                            *)

\* What the invariant says of one handler.
LEMMA HandlerFacts ==
    ASSUME InventoryInv, NEW p \in Procs
    PROVE  /\ tx[p] \in Transactions
           /\ HandlerSound(tx[p])
           /\ tx[p].pc # "idle" => tx[p].command \in Commands
           /\ tx[p].pc = "transferring" => tx[p].command.op = "TRANSFER"
           /\ tx[p].view \in Inventories
           /\ tx[p].base \in [Balances -> Rows]
  <1>1. tx[p] \in Transactions /\ HandlerSound(tx[p])
    BY DEF InventoryInv, TypeOK
  <1> QED
    BY <1>1 DEF HandlerSound, Transactions

\* Taking a command opens a transaction.
LEMMA RequestSound ==
    ASSUME InventoryInv, NEW p \in Procs, NEW c \in Commands, Request(p, c)
    PROVE  InventoryInv'
  <1>1. 1 \in 0..MaxAttempts
    BY AttemptsAssumption
  <1> QED
    BY <1>1, SnapshotSound, ContinueSound DEF Request

\* adjust posts, or fails, soundly.
LEMMA AdjustSound ==
    ASSUME InventoryInv, NEW p \in Procs, Adjust(p)
    PROVE  InventoryInv'
  <1> DEFINE t == tx[p]
             x == AdjustPosting(t.command)
  <1>1. t.pc = "open" /\ t.command \in AdjustCommands
    BY HandlerFacts, CommandKinds DEF Adjust, Opened
  <1>2. x \in Postings /\ ReversalAllowed(Done(t).view, x)
    BY <1>1, AdjustPostingType DEF ReversalAllowed
  <1>3. Done(t) \in Transactions /\ HandlerSound(Done(t)) /\ Done(t).pc # "idle"
    BY <1>1, DoneSound, HandlerFacts
  <1>4. PostOrFail(p, Done(t), x)
    BY DEF Adjust
  <1> HIDE DEF t, x
  <1> QED
    BY <1>2, <1>3, <1>4, PostOrFailSound

\* reverseAdjustment posts a reversal only of a movement its view shows unreversed.
LEMMA ReverseSound ==
    ASSUME InventoryInv, NEW p \in Procs, ReverseAdjustment(p)
    PROVE  InventoryInv'
  <1> DEFINE t == tx[p]
             target == t.command.target
  <1>1. t.pc = "open" /\ t.command \in ReverseCommands
    BY HandlerFacts, CommandKinds DEF ReverseAdjustment, Opened
  <1>2. /\ t \in Transactions /\ HandlerSound(t) /\ t.view \in Inventories
        /\ Done(t) \in Transactions /\ HandlerSound(Done(t)) /\ Done(t).pc # "idle"
        /\ Done(t).view = t.view
    BY <1>1, DoneSound, HandlerFacts
  <1>3. CASE RollBack(p)
    BY <1>3, RollBackSound
  <1>4. CASE Continue(p, Done(t))
    BY <1>2, <1>4, ContinueSound
  <1>5. ASSUME ~Reversed(t.view, target), NEW b \in Balances, NEW i \in DOMAIN t.view.moves[b],
               ReversibleAt(t.view, target, b, i),
               PostOrFail(p, Done(t), ReversalPosting(t.command, t.view.moves[b][i]))
        PROVE  InventoryInv'
    <2> DEFINE original == t.view.moves[b][i]
               x == ReversalPosting(t.command, original)
    <2>1. original \in Movements
      BY <1>2 DEF Inventories
    <2>2. original.posting.balance = b /\ original.posting.key = target
      BY <1>2, <1>5 DEF HandlerSound, Sound, ReversibleAt
    <2>3. x \in Postings /\ x.reversalOf = target /\ x.balance = b
      BY <1>1, <2>1, <2>2, ReversalPostingType
    <2>4. ReversalAllowed(Done(t).view, x)
      BY <1>2, <1>5, <2>2, <2>3 DEF ReversalAllowed
    <2>5. PostOrFail(p, Done(t), x)
      BY <1>5
    <2> HIDE DEF t, x
    <2> QED
      BY <1>2, <2>3, <2>4, <2>5, PostOrFailSound
  <1> QED
    BY <1>3, <1>4, <1>5 DEF ReverseAdjustment

\* The checks of transfer post nothing.
LEMMA TransferSound ==
    ASSUME InventoryInv, NEW p \in Procs, Transfer(p)
    PROVE  InventoryInv'
  <1> DEFINE t == tx[p]
             c == t.command
             u == [t EXCEPT !.pc = "transferring", !.sources = c.sources, !.remaining = c.quantity]
  <1>1. t.pc = "open" /\ c \in TransferCommands /\ c.op = "TRANSFER"
    BY HandlerFacts, CommandKinds DEF Transfer, Opened
  <1>2. /\ t \in Transactions /\ HandlerSound(t)
        /\ Done(t) \in Transactions /\ HandlerSound(Done(t))
    BY <1>1, DoneSound, HandlerFacts
  <1>3. c.sources \in Seq(Balances) /\ c.quantity \in Int
    BY <1>1 DEF TransferCommands
  <1>4. u \in Transactions
    BY <1>2, <1>3 DEF Transactions
  <1>5. /\ u.command = t.command /\ u.base = t.base /\ u.view = t.view
        /\ t.command.op = "TRANSFER"
    BY <1>1, <1>2 DEF Transactions
  <1>6. RollBack(p) \/ Continue(p, Done(t)) \/ Continue(p, u)
    BY DEF Transfer
  <1> HIDE DEF t, c, u
  <1>7. HandlerSound(u)
    BY <1>1, <1>2, <1>4, <1>5, SameWorkSound
  <1> QED
    BY <1>2, <1>4, <1>6, <1>7, ContinueSound, RollBackSound

\* The end of the transfer loop posts nothing.
LEMMA TransferEndSound ==
    ASSUME InventoryInv, NEW p \in Procs, TransferEnd(p)
    PROVE  InventoryInv'
  BY HandlerFacts, DoneSound, ContinueSound DEF TransferEnd

\* A document posts one of its postings after the other.
LEMMA DocumentSound ==
    ASSUME InventoryInv, NEW p \in Procs, Document(p)
    PROVE  InventoryInv'
  <1> DEFINE t == tx[p]
             u == [t EXCEPT !.todo = Tail(@)]
             x == Head(t.todo)
  <1>1. t.pc = "open"
    BY DEF Document, Opened
  <1>2. t \in Transactions /\ HandlerSound(t) /\ t.todo \in Seq(DocumentPostings)
    BY HandlerFacts DEF Transactions
  <1>3. CASE Continue(p, Done(t))
    BY <1>1, <1>2, <1>3, DoneSound, ContinueSound
  <1>4. CASE t.todo # <<>> /\ PostOrFail(p, u, x)
    <2>1. x \in DocumentPostings /\ Tail(t.todo) \in Seq(DocumentPostings)
      BY <1>2, <1>4
    <2>2. u \in Transactions
      BY <1>2, <2>1 DEF Transactions
    <2>3. u.pc = "open" /\ u.command = t.command /\ u.base = t.base /\ u.view = t.view
      BY <1>1, <1>2 DEF Transactions
    <2>4. x \in Postings /\ ReversalAllowed(u.view, x)
      BY <2>1 DEF DocumentPostings, ReversalAllowed
    <2> HIDE DEF t, u, x
    <2>5. HandlerSound(u)
      BY <1>1, <1>2, <2>2, <2>3, SameWorkSound
    <2> QED
      BY <1>4, <2>2, <2>3, <2>4, <2>5, PostOrFailSound
  <1> QED
    BY <1>3, <1>4 DEF Document

\* A conflict opens a new transaction, or gives the command up.
LEMMA ConflictSound ==
    ASSUME InventoryInv, NEW p \in Procs, Conflict(p)
    PROVE  InventoryInv'
  <1>1. tx[p] \in Transactions /\ tx[p].command \in Commands
    BY HandlerFacts DEF Conflict
  <1>2. tx[p].attempt \in 0..MaxAttempts
    BY <1>1 DEF Transactions
  <1>3. CASE tx[p].attempt < MaxAttempts
    <2>1. tx[p].attempt + 1 \in 0..MaxAttempts
      BY <1>2, <1>3, AttemptsAssumption
    <2>2. Continue(p, Snapshot(tx[p].command, tx[p].attempt + 1))
      BY <1>3 DEF Conflict
    <2> QED
      BY <1>1, <2>1, <2>2, SnapshotSound, ContinueSound
  <1>4. CASE ~(tx[p].attempt < MaxAttempts)
    BY <1>4, RollBackSound DEF Conflict
  <1> QED
    BY <1>3, <1>4

\* A round of the transfer loop makes two postings, or fails.
LEMMA TransferLegSound ==
    ASSUME InventoryInv, NEW p \in Procs, TransferLeg(p)
    PROVE  InventoryInv'
  <1> DEFINE t    == tx[p]
             q    == Lesser(t.base[Head(t.sources)].quantities.available, t.remaining)
             out  == TransferOut(t.command, Head(t.sources), q, t.index)
             in   == TransferIn(t.command, q, t.index)
             skip == [t EXCEPT !.sources = Tail(@)]
             moved == [t EXCEPT !.sources = Tail(@), !.remaining = @ - q, !.index = @ + 1,
                                !.view = Post(@, out)]
  <1>1. t.pc = "transferring" /\ t.sources # <<>>
    BY DEF TransferLeg
  <1>2. t \in Transactions /\ HandlerSound(t) /\ t.view \in Inventories
    BY HandlerFacts
  <1>3. /\ t.sources \in Seq(Balances) /\ t.base \in [Balances -> Rows]
        /\ t.remaining \in Int /\ t.index \in Nat
    BY <1>2 DEF Transactions
  <1>4. Head(t.sources) \in Balances /\ Tail(t.sources) \in Seq(Balances)
    BY <1>1, <1>3
  <1>5. q \in Int
    <2>1. t.base[Head(t.sources)].quantities.available \in Int
      BY <1>3, <1>4 DEF Rows, Quantities
    <2> QED
      BY <1>3, <2>1 DEF Lesser
  <1>6. CASE Continue(p, skip)
    <2>1. skip \in Transactions
      BY <1>2, <1>4 DEF Transactions
    <2>2. skip.pc = t.pc /\ skip.command = t.command /\ skip.base = t.base /\ skip.view = t.view
      BY <1>2 DEF Transactions
    <2> HIDE DEF skip
    <2>3. HandlerSound(skip)
      BY <1>1, <1>2, <2>1, <2>2, SameWorkSound, HandlerFacts DEF t
    <2> QED
      BY <1>6, <2>1, <2>3, ContinueSound
  <1>7. CASE CanPost(t.view, out) /\ PostOrFail(p, moved, in)
    <2>1. t.command \in TransferCommands /\ t.command.op = "TRANSFER"
      <3>1. t.command \in Commands /\ t.command.op = "TRANSFER"
        BY <1>1, HandlerFacts
      <3> QED
        BY <3>1, CommandKinds
    <2>2. out \in Postings /\ out.reversalOf = NoKey /\ in \in Postings /\ in.reversalOf = NoKey
      BY <1>3, <1>4, <1>5, <2>1, TransferPostingTypes
    <2>3. Post(t.view, out) \in Inventories
      BY <1>2, <2>2, PostType
    <2> HIDE DEF q, out, in
    <2>4. moved \in Transactions
      <3>1. t.remaining - q \in Int /\ t.index + 1 \in Nat
        BY <1>3, <1>5
      <3>2. moved = [t EXCEPT !.sources = Tail(t.sources), !.remaining = t.remaining - q,
                              !.index = t.index + 1, !.view = Post(t.view, out)]
        BY <1>2 DEF Transactions
      <3> HIDE DEF t, moved
      <3> QED
        BY <1>2, <1>4, <2>3, <3>1, <3>2 DEF Transactions
    <2>5. /\ moved.pc = t.pc /\ moved.command = t.command /\ moved.base = t.base
          /\ moved.view = Post(t.view, out)
      BY <1>2 DEF Transactions
    <2> HIDE DEF t, moved
    <2>6. ReversalAllowed(t.view, out) /\ ReversalAllowed(moved.view, in)
      BY <2>2 DEF ReversalAllowed
    <2>7. HandlerSound(moved)
      BY <1>1, <1>2, <1>7, <2>1, <2>2, <2>4, <2>5, <2>6, OnePostingSound
    <2> QED
      BY <1>1, <1>7, <2>2, <2>4, <2>5, <2>6, <2>7, PostOrFailSound
  <1>8. CASE RollBack(p)
    BY <1>8, RollBackSound
  <1> QED
    BY <1>6, <1>7, <1>8 DEF TransferLeg

----------------------------------------------------------------------------
(* The commit.                                                             *)

\* A sequence is any prefix of it followed by the rest.
LEMMA PrefixAndRest ==
    ASSUME NEW S, NEW old \in Seq(S), NEW all \in Seq(S), Len(old) <= Len(all),
           \A i \in 1..Len(old) : all[i] = old[i]
    PROVE  old \o SubSeq(all, Len(old) + 1, Len(all)) = all
  <1> DEFINE m == Len(old)
             n == Len(all)
             rest == SubSeq(all, m + 1, n)
  <1>1. m \in Nat /\ n \in Nat /\ m <= n
    OBVIOUS
  <1>2. \A i \in (m + 1)..n : all[i] \in S
    BY <1>1, ElementOfSeq
  <1>3. /\ rest \in Seq(S)
        /\ Len(rest) = IF m + 1 <= n THEN n - (m + 1) + 1 ELSE 0
        /\ \A i \in 1..(n - (m + 1) + 1) : rest[i] = all[(m + 1) + i - 1]
    BY <1>1, <1>2, SubSeqProperties
  <1> HIDE DEF m, n, rest
  <1>4. Len(rest) = n - m
    BY <1>1, <1>3
  <1>5. /\ old \o rest \in Seq(S)
        /\ Len(old \o rest) = n
        /\ \A i \in 1..n : (old \o rest)[i] = IF i <= m THEN old[i] ELSE rest[i - m]
    BY <1>1, <1>3, <1>4, ConcatProperties DEF m
  <1>6. ASSUME NEW i \in 1..n PROVE (old \o rest)[i] = all[i]
    <2>1. CASE i <= m
      BY <1>1, <1>5, <2>1 DEF m
    <2>2. CASE ~(i <= m)
      <3>1. i - m \in 1..(n - (m + 1) + 1) /\ (m + 1) + (i - m) - 1 = i
        BY <1>1, <2>2
      <3> QED
        BY <1>3, <1>5, <2>2, <3>1
    <2> QED
      BY <2>1, <2>2
  <1> QED
    BY <1>5, <1>6, SeqEqual DEF m, n, rest

\* What a commit with unchanged rows does to one balance: a row the transaction updated gets the
\* view's ledger, which goes on from the database's; another row keeps the database's.
LEMMA MergedBalance ==
    ASSUME InventoryInv, NEW p \in Procs, RowsUnchanged(p), NEW b \in Balances
    PROVE  /\ db.moves[b] \in Seq(Movements) /\ tx[p].view.moves[b] \in Seq(Movements)
           /\ db.rows[b] \in Rows /\ tx[p].view.rows[b] \in Rows /\ tx[p].base[b] \in Rows
           /\ ~Touched(p, b) => /\ Merged(p).rows[b] = db.rows[b]
                                /\ Merged(p).moves[b] = db.moves[b]
           /\ Touched(p, b) => /\ Merged(p).rows[b] = tx[p].view.rows[b]
                               /\ Merged(p).moves[b] = tx[p].view.moves[b]
                               /\ tx[p].base[b].version = Len(db.moves[b])
                               /\ Len(db.moves[b]) <= Len(tx[p].view.moves[b])
                               /\ \A i \in 1..Len(db.moves[b]) :
                                    tx[p].view.moves[b][i] = db.moves[b][i]
  <1>1. /\ tx[p].view \in Inventories /\ HandlerSound(tx[p]) /\ db \in Inventories
        /\ tx[p].base \in [Balances -> Rows]
    BY HandlerFacts DEF InventoryInv, TypeOK
  <1>2. /\ db.moves[b] \in Seq(Movements) /\ tx[p].view.moves[b] \in Seq(Movements)
        /\ db.rows[b] \in Rows /\ tx[p].view.rows[b] \in Rows /\ tx[p].base[b] \in Rows
    BY <1>1 DEF Inventories
  <1>3. ASSUME ~Touched(p, b)
        PROVE  Merged(p).rows[b] = db.rows[b] /\ Merged(p).moves[b] = db.moves[b]
    BY <1>3 DEF Merged
  <1>4. ASSUME Touched(p, b)
        PROVE  /\ Merged(p).rows[b] = tx[p].view.rows[b]
               /\ Merged(p).moves[b] = tx[p].view.moves[b]
               /\ tx[p].base[b].version = Len(db.moves[b])
               /\ Len(db.moves[b]) <= Len(tx[p].view.moves[b])
               /\ \A i \in 1..Len(db.moves[b]) : tx[p].view.moves[b][i] = db.moves[b][i]
    <2>1. /\ Merged(p).rows[b] = tx[p].view.rows[b]
          /\ Merged(p).moves[b] = db.moves[b] \o Inserted(p, b)
      BY <1>4 DEF Merged
    <2>2. db.rows[b].version = tx[p].base[b].version
      BY <1>4 DEF RowsUnchanged
    <2>3. db.rows[b].version = Len(db.moves[b])
      BY DEF InventoryInv, Sound, Chained
    <2>4. /\ tx[p].base[b].version <= Len(tx[p].view.moves[b])
          /\ \A i \in 1..tx[p].base[b].version : tx[p].view.moves[b][i] = db.moves[b][i]
      BY <1>1 DEF HandlerSound, Agree
    <2>5. tx[p].base[b].version = Len(db.moves[b])
      BY <2>2, <2>3
    <2>6. db.moves[b] \o Inserted(p, b) = tx[p].view.moves[b]
      BY <1>2, <2>4, <2>5, PrefixAndRest DEF Inserted
    <2> QED
      BY <2>1, <2>4, <2>5, <2>6
  <1> QED
    BY <1>2, <1>3, <1>4

\* The database after a commit is an inventory.
LEMMA MergedType ==
    ASSUME InventoryInv, NEW p \in Procs
    PROVE  Merged(p) \in Inventories
  <1>1. /\ tx[p].view \in Inventories /\ HandlerSound(tx[p]) /\ db \in Inventories
        /\ tx[p].base \in [Balances -> Rows]
    BY HandlerFacts DEF InventoryInv, TypeOK
  <1>2. ASSUME NEW b \in Balances
        PROVE  db.moves[b] \o Inserted(p, b) \in Seq(Movements)
    <2> DEFINE all  == tx[p].view.moves[b]
               from == tx[p].base[b].version
    <2>1. all \in Seq(Movements) /\ from \in Nat /\ db.moves[b] \in Seq(Movements)
      BY <1>1 DEF Inventories, Rows
    <2>2. \A i \in (from + 1)..Len(all) : all[i] \in Movements
      BY <2>1, ElementOfSeq
    <2>3. SubSeq(all, from + 1, Len(all)) \in Seq(Movements)
      BY <2>1, <2>2, SubSeqProperties
    <2> QED
      BY <2>1, <2>3, ConcatProperties DEF Inserted
  <1> QED
    BY <1>1, <1>2 DEF Merged, Inventories

\* With its rows unchanged, a commit prolongs every ledger.
LEMMA MergedExtends ==
    ASSUME InventoryInv, NEW p \in Procs, RowsUnchanged(p)
    PROVE  Extended(db.moves, Merged(p).moves)
  <1> SUFFICES ASSUME NEW b \in Balances
               PROVE  /\ Len(db.moves[b]) <= Len(Merged(p).moves[b])
                      /\ \A i \in 1..Len(db.moves[b]) : Merged(p).moves[b][i] = db.moves[b][i]
    BY DEF Extended
  <1>1. CASE Touched(p, b)
    BY <1>1, MergedBalance
  <1>2. CASE ~Touched(p, b)
    <2>1. Merged(p).moves[b] = db.moves[b]
      BY <1>2, MergedBalance
    <2> DEFINE n == Len(db.moves[b])
    <2>2. n \in Nat
      BY MergedBalance
    <2> HIDE DEF n
    <2>3. n <= n
      BY <2>2
    <2> QED
      BY <2>1, <2>3 DEF n
  <1> QED
    BY <1>1, <1>2

\* With its rows unchanged and its keys free, a commit brings no key in twice.
LEMMA MergedKeysDistinct ==
    ASSUME InventoryInv, NEW p \in Procs, RowsUnchanged(p), KeysFree(p)
    PROVE  KeysDistinct(Merged(p).moves)
  <1> DEFINE new  == Merged(p).moves
             view == tx[p].view.moves
  <1>1. KeysDistinct(db.moves) /\ KeysDistinct(view)
    BY HandlerFacts DEF InventoryInv, HandlerSound, Sound
  \* A movement of a touched row is one the database had, or its key is free in the database.
  <1>2. ASSUME NEW b \in Balances, Touched(p, b), NEW i \in DOMAIN view[b]
        PROVE  \/ i \in DOMAIN db.moves[b] /\ view[b][i] = db.moves[b][i]
               \/ ~KeyUsed(db, view[b][i].posting.key)
    <2>1. CASE i > tx[p].base[b].version
      BY <2>1 DEF KeysFree
    <2>2. CASE ~(i > tx[p].base[b].version)
      <3>1. i \in 1..Len(view[b])
        BY MergedBalance
      <3>2. tx[p].base[b].version = Len(db.moves[b]) /\ DOMAIN db.moves[b] = 1..Len(db.moves[b])
        BY <1>2, MergedBalance
      <3>3. Len(db.moves[b]) \in Nat
        BY MergedBalance
      <3>4. i \in 1..Len(db.moves[b])
        BY <2>2, <3>1, <3>2, <3>3
      <3> QED
        BY <1>2, <3>2, <3>4, MergedBalance
    <2> QED
      BY <2>1, <2>2
  \* The same, said of the row after the commit and of a row nobody touched.
  <1>3. ASSUME NEW b1 \in Balances, NEW b2 \in Balances, Touched(p, b1), ~Touched(p, b2),
               NEW i \in DOMAIN view[b1], NEW j \in DOMAIN db.moves[b2],
               view[b1][i].posting.key = db.moves[b2][j].posting.key
        PROVE  b1 = b2
    <2>1. KeyUsed(db, view[b1][i].posting.key)
      BY <1>3 DEF KeyUsed
    <2>2. i \in DOMAIN db.moves[b1] /\ view[b1][i] = db.moves[b1][i]
      BY <1>2, <1>3, <2>1
    <2> QED
      BY <1>1, <1>3, <2>2 DEF KeysDistinct
  <1> SUFFICES ASSUME NEW b1 \in Balances, NEW b2 \in Balances,
                      NEW i \in DOMAIN new[b1], NEW j \in DOMAIN new[b2],
                      new[b1][i].posting.key = new[b2][j].posting.key
               PROVE  b1 = b2 /\ i = j
    BY DEF KeysDistinct
  <1>4. CASE Touched(p, b1) /\ Touched(p, b2)
    <2>1. new[b1] = view[b1] /\ new[b2] = view[b2]
      BY <1>4, MergedBalance
    <2> QED
      BY <1>1, <2>1 DEF KeysDistinct
  <1>5. CASE ~Touched(p, b1) /\ ~Touched(p, b2)
    <2>1. new[b1] = db.moves[b1] /\ new[b2] = db.moves[b2]
      BY <1>5, MergedBalance
    <2> QED
      BY <1>1, <2>1 DEF KeysDistinct
  <1>6. CASE Touched(p, b1) /\ ~Touched(p, b2)
    <2>1. new[b1] = view[b1] /\ new[b2] = db.moves[b2]
      BY <1>6, MergedBalance
    <2> QED
      BY <1>3, <1>6, <2>1
  <1>7. CASE ~Touched(p, b1) /\ Touched(p, b2)
    <2>1. new[b1] = db.moves[b1] /\ new[b2] = view[b2]
      BY <1>7, MergedBalance
    <2> QED
      BY <1>3, <1>7, <2>1
  <1> QED
    BY <1>4, <1>5, <1>6, <1>7

\* With its rows unchanged, a commit brings no second reversal: it would be on the row of the first.
LEMMA MergedReversals ==
    ASSUME InventoryInv, NEW p \in Procs, RowsUnchanged(p), KeysFree(p)
    PROVE  /\ ReversalsBesideOriginals(Merged(p).moves)
           /\ ReversalsDistinct(Merged(p).moves)
  <1> DEFINE new  == Merged(p).moves
             view == tx[p].view.moves
  <1>1. /\ ReversalsBesideOriginals(db.moves) /\ ReversalsBesideOriginals(view)
        /\ ReversalsDistinct(db.moves) /\ ReversalsDistinct(view)
    BY HandlerFacts DEF InventoryInv, HandlerSound, Sound
  <1>2. \A b \in Balances : new[b] = db.moves[b] \/ new[b] = view[b]
    BY MergedBalance
  <1>3. KeysDistinct(new)
    BY MergedKeysDistinct
  <1> HIDE DEF new, view
  <1>4. ReversalsBesideOriginals(new)
    BY <1>1, <1>2 DEF ReversalsBesideOriginals
  <1>5. ReversalsDistinct(new)
    <2> SUFFICES ASSUME NEW b1 \in Balances, NEW b2 \in Balances,
                        NEW i \in DOMAIN new[b1], NEW j \in DOMAIN new[b2],
                        new[b1][i].posting.reversalOf # NoKey,
                        new[b1][i].posting.reversalOf = new[b2][j].posting.reversalOf
                 PROVE  b1 = b2 /\ i = j
      BY DEF ReversalsDistinct
    \* Both stand beside the one movement they reverse.
    <2>1. b1 = b2
      <3>1. PICK k \in DOMAIN new[b1] : new[b1][k].posting.key = new[b1][i].posting.reversalOf
        BY <1>4 DEF ReversalsBesideOriginals
      <3>2. PICK l \in DOMAIN new[b2] : new[b2][l].posting.key = new[b2][j].posting.reversalOf
        BY <1>4 DEF ReversalsBesideOriginals
      <3> QED
        BY <1>3, <3>1, <3>2 DEF KeysDistinct
    <2>2. CASE new[b1] = db.moves[b1]
      BY <1>1, <2>1, <2>2 DEF ReversalsDistinct
    <2>3. CASE new[b1] = view[b1]
      BY <1>1, <2>1, <2>3 DEF ReversalsDistinct
    <2> QED
      BY <1>2, <2>2, <2>3
  <1> QED
    BY <1>4, <1>5 DEF new

\* A commit that PostgreSQL accepts leaves the database sound.
LEMMA MergedSound ==
    ASSUME InventoryInv, NEW p \in Procs, RowsUnchanged(p), KeysFree(p)
    PROVE  Sound(Merged(p))
  <1>1. Sound(db) /\ Sound(tx[p].view)
    BY HandlerFacts DEF InventoryInv, HandlerSound
  <1>2. ASSUME NEW b \in Balances
        PROVE  /\ Chained(Merged(p).rows[b], Merged(p).moves[b])
               /\ NonNegative(Merged(p).rows[b].quantities)
               /\ \A i \in DOMAIN Merged(p).moves[b] : Merged(p).moves[b][i].posting.balance = b
    <2>1. CASE Touched(p, b)
      <3>1. Merged(p).rows[b] = tx[p].view.rows[b] /\ Merged(p).moves[b] = tx[p].view.moves[b]
        BY <2>1, MergedBalance
      <3> QED
        BY <1>1, <3>1 DEF Sound
    <2>2. CASE ~Touched(p, b)
      <3>1. Merged(p).rows[b] = db.rows[b] /\ Merged(p).moves[b] = db.moves[b]
        BY <2>2, MergedBalance
      <3> QED
        BY <1>1, <3>1 DEF Sound
    <2> QED
      BY <2>1, <2>2
  <1> QED
    BY <1>2, MergedKeysDistinct, MergedReversals DEF Sound

\* Committing keeps the invariant, for the handlers still at work too, and prolongs the ledger.
LEMMA CommitSound ==
    ASSUME InventoryInv, NEW p \in Procs, Commit(p)
    PROVE  InventoryInv' /\ Extended(db.moves, db'.moves)
  <1>1. /\ RowsUnchanged(p) /\ KeysFree(p)
        /\ db' = Merged(p) /\ tx' = [tx EXCEPT ![p] = NoTransaction]
    BY DEF Commit
  <1>2. NoTransaction \in Transactions /\ HandlerSound(NoTransaction)
    BY NoTransactionSound DEF InventoryInv
  <1>3. db' \in Inventories /\ Sound(db')
    BY <1>1, MergedType, MergedSound
  <1>4. TypeOK'
    BY <1>1, <1>2, <1>3 DEF InventoryInv, TypeOK
  <1>5. Extended(db.moves, db'.moves)
    BY <1>1, MergedExtends
  <1>6. ASSUME NEW q \in Procs
        PROVE  HandlerSound(tx[q])'
    <2>1. tx'[q] = IF q = p THEN NoTransaction ELSE tx[q]
      BY <1>1 DEF InventoryInv, TypeOK
    <2>2. tx'[q] \in Transactions /\ HandlerSound(tx'[q])
      BY <1>2, <2>1, HandlerFacts
    <2>3. /\ tx'[q].base \in [Balances -> Rows]
          /\ tx'[q].view.moves \in [Balances -> Seq(Movements)]
          /\ db.moves \in [Balances -> Seq(Movements)]
          /\ db'.moves \in [Balances -> Seq(Movements)]
      BY <1>3, <2>2 DEF Transactions, Inventories, InventoryInv, TypeOK
    <2>4. Agree(tx'[q].base, db.moves, tx'[q].view.moves)
      BY <2>2, AgreeSymmetric DEF HandlerSound
    <2>5. Agree(tx'[q].base, db'.moves, tx'[q].view.moves)
      BY <1>5, <2>3, <2>4, AgreeExtendedLeft
    <2>6. Agree(tx'[q].base, tx'[q].view.moves, db'.moves)
      BY <2>5, AgreeSymmetric
    <2> QED
      BY <2>2, <2>6 DEF HandlerSound
  <1> QED
    BY <1>3, <1>4, <1>5, <1>6 DEF InventoryInv

----------------------------------------------------------------------------
(* The theorems.                                                           *)

\* Every step keeps the invariant.
LEMMA StepSound == InventoryInv /\ [Next]_vars => InventoryInv'
  <1> SUFFICES ASSUME InventoryInv, [Next]_vars PROVE InventoryInv'
    OBVIOUS
  <1>1. ASSUME NEW p \in Procs, NEW c \in Commands, Request(p, c) PROVE InventoryInv'
    BY <1>1, RequestSound
  <1>2. ASSUME NEW p \in Procs, Step(p) PROVE InventoryInv'
    BY <1>2, AdjustSound, ReverseSound, TransferSound, TransferLegSound, TransferEndSound,
       DocumentSound, CommitSound, ConflictSound DEF Step
  <1>3. ASSUME NEW p \in Procs, Crash(p) PROVE InventoryInv'
    BY <1>3, RollBackSound DEF Crash
  <1>4. CASE UNCHANGED vars
    <2>1. db' = db /\ tx' = tx
      BY <1>4 DEF vars
    <2>2. \A q \in Procs : HandlerSound(tx[q])'
      BY <2>1 DEF InventoryInv, HandlerSound
    <2> QED
      BY <2>1, <2>2 DEF InventoryInv, TypeOK
  <1> QED
    BY <1>1, <1>2, <1>3, <1>4 DEF Next

\* Every reachable state is sound, handlers' uncommitted views included.
THEOREM InventoryInvariant == Spec => []InventoryInv
  <1> QED
    BY InitSound, StepSound, PTL DEF Spec

\* Whatever interleaving of handlers, conflicts and crashes, the variables keep their types:
\* versions are naturals, quantities integers, attempts within the limit.
THEOREM TypeCorrect == Spec => []TypeOK
  <1>1. InventoryInv => TypeOK
    BY DEF InventoryInv
  <1> QED
    BY <1>1, InventoryInvariant, PTL

\* The stored rows of StockLevel are always what the chain of StockMovement rows says.
THEOREM LedgerAlwaysExplainsStock == Spec => []LedgerExplainsStock
  <1>1. InventoryInv => LedgerExplainsStock
    BY DEF InventoryInv, Sound, LedgerExplainsStock
  <1> QED
    BY <1>1, InventoryInvariant, PTL

\* Stock is never oversold: no quantity is ever negative, available included.
THEOREM StockAlwaysSound == Spec => []StockIsSound
  <1>1. InventoryInv => StockIsSound
    BY DEF InventoryInv, Sound, StockIsSound
  <1> QED
    BY <1>1, InventoryInvariant, PTL

\* An idempotency key names one movement, whatever is sent again, to whomever and when.
THEOREM KeysAlwaysPostedOnce == Spec => []KeysPostedOnce
  <1>1. InventoryInv => KeysPostedOnce
    BY DEF InventoryInv, Sound, KeysPostedOnce
  <1> QED
    BY <1>1, InventoryInvariant, PTL

\* No movement is reversed twice although no index of the database says so.
THEOREM AlwaysReversedOnce == Spec => []ReversedOnce
  <1>1. InventoryInv => ReversedOnce
    BY DEF InventoryInv, Sound, ReversedOnce
  <1> QED
    BY <1>1, InventoryInvariant, PTL

\* Only a commit changes the database.
LEMMA OnlyCommitWrites ==
    ASSUME InventoryInv, [Next]_vars
    PROVE  db' = db \/ \E p \in Procs : Commit(p)
  BY DEF Next, vars, Request, Crash, Step, Adjust, ReverseAdjustment, Transfer, TransferLeg,
         TransferEnd, Document, Conflict, PostOrFail, RollBack, Continue

\* The ledger is append-only.
THEOREM LedgerAlwaysGrows == Spec => LedgerOnlyGrows
  <1> DEFINE Grows == \A b \in Balances :
                        /\ Len(db.moves[b]) <= Len(db'.moves[b])
                        /\ \A i \in DOMAIN db.moves[b] : db'.moves[b][i] = db.moves[b][i]
  <1>1. InventoryInv /\ [Next]_vars => [Grows]_vars
    <2> SUFFICES ASSUME InventoryInv, [Next]_vars PROVE [Grows]_vars
      OBVIOUS
    <2>1. Extended(db.moves, db'.moves) => Grows
      <3>1. \A b \in Balances : db.moves[b] \in Seq(Movements)
        BY DEF InventoryInv, TypeOK, Inventories
      <3> QED
        BY <3>1 DEF Extended
    <2>2. CASE db' = db
      <3>1. db \in Inventories /\ Sound(db)
        BY DEF InventoryInv, TypeOK
      <3>2. \A b \in Balances : Len(db.moves[b]) \in Nat
        BY <3>1 DEF Inventories
      <3>3. \A n \in Nat : n <= n
        OBVIOUS
      <3>4. \A b \in Balances : Len(db.moves[b]) <= Len(db.moves[b])
        BY <3>2, <3>3, Zenon
      <3> QED
        BY <2>2, <3>4
    <2>3. CASE \E p \in Procs : Commit(p)
      BY <2>1, <2>3, CommitSound
    <2> QED
      BY <2>2, <2>3, OnlyCommitWrites
  <1> QED
    BY <1>1, InventoryInvariant, PTL DEF Spec, LedgerOnlyGrows

----------------------------------------------------------------------------
(* The refinement of AtomicInventory: its invariant.                       *)
(*                                                                         *)
(* The abstract command runs at the commit, on the database of that        *)
(* moment.  The handler ran it on its snapshot, so the invariant says what *)
(* its view is: the result of the postings one execution of the command    *)
(* makes, on the inventory of the snapshot.  At the commit the rows those  *)
(* postings touched are the snapshot's rows still and their keys are free, *)
(* so they have the same effect on the database.                           *)

StockOf(rows) == [b \in Balances |-> rows[b].quantities]

\* An inventory of InventoryPosting as one of InventoryBook.
Present(inv) == [stock |-> StockOf(inv.rows), posted |-> BookOf(inv.moves), ok |-> TRUE]

BookUpTo(rows, moves) == UNION {{moves[b][i].posting : i \in 1..rows[b].version} : b \in Balances}

\* The snapshot of a transaction.
Past(t) == [stock |-> StockOf(t.base), posted |-> BookUpTo(t.base, t.view.moves), ok |-> TRUE]

Legs(c, n) == [1..n -> [at : DOMAIN c.sources, quantity : 1..c.quantity]]

InOrder(legs, n) == \A i, j \in 1..n : i < j => legs[i].at < legs[j].at

MovedBy(legs, n) == SumFunctionOnSet([i \in 1..n |-> legs[i].quantity], 1..n)

\* Legs of a transfer that move all of its quantity.
AllMoved(c, n, legs) ==
    n \in 1..Len(c.sources) /\ legs \in Legs(c, n) /\ InOrder(legs, n) /\ MovedBy(legs, n) = c.quantity

\* The postings are what one execution of the command posts to a book.
IsOutcome(c, book, postings) ==
    \/ c.op = "ADJUST" /\ postings = <<AdjustPosting(c)>>
    \/ /\ c.op = "REVERSE"
       /\ ~ReversedIn(book, c.target)
       /\ \E original \in book :
             /\ original.key = c.target /\ original.type = "ADJUSTMENT"
             /\ postings = <<ReversalPosting(c, [posting |-> original])>>
    \/ /\ c.op = "TRANSFER"
       /\ ~Taken(book, TransferIn(c, c.quantity, 0).key)
       /\ \E n \in 1..Len(c.sources) : \E legs \in Legs(c, n) :
             AllMoved(c, n, legs) /\ postings = Abstract!Pairs(c, legs)
    \/ c.op = "DOCUMENT" /\ postings = c.postings

\* The transfer has posted the legs before source k, and what the other sources have is enough.
UnderWay(t, k, legs) ==
    /\ t.index <= k
    /\ t.sources = SubSeq(t.command.sources, k + 1, Len(t.command.sources))
    /\ InOrder(legs, t.index)
    /\ \A i \in 1..t.index : legs[i].at <= k
    /\ t.remaining = t.command.quantity - MovedBy(legs, t.index)
    /\ t.remaining >= 0
    /\ t.remaining <= SumFunctionOnSet([i \in DOMAIN t.command.sources |->
                                           t.base[t.command.sources[i]].quantities.available],
                                       (k + 1)..Len(t.command.sources))
    /\ PostAll(Past(t), Abstract!Pairs(t.command, legs)) = Present(t.view)

NotStarted(book, c) ==
    \A p \in book : ~(p.key.kind \in {"TRANSFER_OUT", "TRANSFER_IN"} /\ p.key.client = c.client)

\* The rows of the snapshot are where its movements end.
BaseSound(t) ==
    \A b \in Balances :
        /\ NonNegative(t.base[b].quantities)
        /\ t.base[b].quantities =
             IF t.base[b].version = 0 THEN ZERO ELSE t.view.moves[b][t.base[b].version].after

\* A document has posted its first postings and has the others to do.
PartlyPosted(t) ==
    \E n \in 0..Len(t.command.postings) :
        /\ t.todo = SubSeq(t.command.postings, n + 1, Len(t.command.postings))
        /\ PostAll(Past(t), SubSeq(t.command.postings, 1, n)) = Present(t.view)

InLoop(t) ==
    /\ t.command.quantity > 0
    /\ NotStarted(Past(t).posted, t.command)
    /\ \E k \in 0..Len(t.command.sources) : \E legs \in Legs(t.command, t.index) : UnderWay(t, k, legs)

\* The command found nothing to do, or its view is one outcome of it.
Worked(t) ==
    \/ Present(t.view) = Past(t)
    \/ \E postings \in Seq(Postings) :
          /\ IsOutcome(t.command, Past(t).posted, postings)
          /\ PostAll(Past(t), postings) = Present(t.view)

Explained(t) ==
    /\ t.pc # "idle" => BaseSound(t)
    /\ t.pc = "open" => t.index = 0
    /\ t.pc = "open" => IF t.command.op = "DOCUMENT" THEN PartlyPosted(t) ELSE Present(t.view) = Past(t)
    /\ t.pc = "transferring" => InLoop(t)
    /\ t.pc = "posted" => Worked(t)

\* Every handler's view is what its command makes of its snapshot.
AllExplained == \A p \in Procs : Explained(tx[p])

RefinementInv == InventoryInv /\ AllExplained

\* A fold of postings is one of FoldTheorems.
LEMMA PostAllIsFold == \A s, postings : PostAll(s, postings) = Fold!Folded(s, postings)
  BY DEF PostAll, FoldLeft, MapThenFoldSet, Max, Fold!Folded, Fold!FoldLeft, Fold!MapThenFoldSet, Fold!Max

\* The postings made so far and one more.
LEMMA PostAllAppend ==
    ASSUME NEW s, NEW postings \in Seq(Postings), NEW x \in Postings
    PROVE  PostAll(s, Append(postings, x)) = OneMore(PostAll(s, postings), x)
  <1>1. Fold!Folded(s, Append(postings, x)) = OneMore(Fold!Folded(s, postings), x)
    BY Fold!FoldLeftAppend
  <1> QED
    BY <1>1, PostAllIsFold

\* No posting changes nothing.
LEMMA PostAllNone == \A s : PostAll(s, <<>>) = s
  BY PostAllIsFold, Fold!FoldLeftEmpty

\* One posting.
LEMMA PostAllOne ==
    ASSUME NEW s, NEW x \in Postings
    PROVE  PostAll(s, <<x>>) = OneMore(s, x)
  <1>1. <<>> \in Seq(Postings) /\ Append(<<>>, x) = <<x>>
    OBVIOUS
  <1>2. PostAll(s, Append(<<>>, x)) = OneMore(PostAll(s, <<>>), x)
    BY <1>1, PostAllAppend
  <1> QED
    BY <1>1, <1>2, PostAllNone

----------------------------------------------------------------------------
\* Inventories of InventoryBook.
Books == [stock : [Balances -> Quantities], posted : SUBSET Postings, ok : BOOLEAN]

\* What a posting does to one.
LEMMA OneMoreEffect ==
    ASSUME NEW s \in Books, NEW x \in Postings
    PROVE  /\ OneMore(s, x) \in Books
           /\ Taken(s.posted, x.key) => OneMore(s, x).stock = s.stock /\ OneMore(s, x).posted = s.posted
           /\ ~Taken(s.posted, x.key) =>
                /\ OneMore(s, x).posted = s.posted \cup {x}
                /\ OneMore(s, x).stock[x.balance] = After(s.stock[x.balance], x.delta)
                /\ \A b \in Balances \ {x.balance} : OneMore(s, x).stock[b] = s.stock[b]
           /\ OneMore(s, x).ok <=> /\ s.ok /\ x.quantity > 0
                                   /\ Taken(s.posted, x.key) \/ NonNegative(After(s.stock[x.balance], x.delta))
  <1>1. x.balance \in Balances /\ x.delta \in Deltas
    BY DEF Postings
  <1>2. /\ s.stock \in [Balances -> Quantities] /\ s.posted \in SUBSET Postings /\ s.ok \in BOOLEAN
        /\ s = [stock |-> s.stock, posted |-> s.posted, ok |-> s.ok]
    BY DEF Books
  <1>3. After(s.stock[x.balance], x.delta) \in Quantities
    BY <1>1, <1>2, AfterType
  <1>4. CASE Taken(s.posted, x.key)
    <2>1. OneMore(s, x) = [s EXCEPT !.ok = s.ok /\ x.quantity > 0]
      BY <1>4 DEF OneMore
    <2>2. (s.ok /\ x.quantity > 0) \in BOOLEAN
      OBVIOUS
    <2> QED
      BY <1>2, <1>4, <2>1, <2>2 DEF Books
  <1>5. CASE ~Taken(s.posted, x.key)
    <2> DEFINE after == After(s.stock[x.balance], x.delta)
    <2>1. OneMore(s, x) = [stock  |-> [s.stock EXCEPT ![x.balance] = after],
                           posted |-> s.posted \cup {x},
                           ok     |-> s.ok /\ x.quantity > 0 /\ NonNegative(after)]
      BY <1>5 DEF OneMore
    <2>2. (s.ok /\ x.quantity > 0 /\ NonNegative(after)) \in BOOLEAN
      OBVIOUS
    <2> HIDE DEF after
    <2>3. after \in Quantities
      BY <1>3 DEF after
    <2>4. [s.stock EXCEPT ![x.balance] = after] \in [Balances -> Quantities]
      BY <1>1, <1>2, <2>3
    <2>5. s.posted \cup {x} \in SUBSET Postings
      BY <1>2
    <2>6. OneMore(s, x) \in Books
      BY <2>1, <2>2, <2>4, <2>5 DEF Books
    <2>7. /\ OneMore(s, x).posted = s.posted \cup {x}
          /\ OneMore(s, x).stock = [s.stock EXCEPT ![x.balance] = after]
          /\ OneMore(s, x).ok = (s.ok /\ x.quantity > 0 /\ NonNegative(after))
      BY <2>1
    <2> QED
      BY <1>1, <1>2, <1>5, <2>6, <2>7 DEF after
  <1> QED
    BY <1>4, <1>5

\* They are told apart by their fields.
LEMMA SameBooks ==
    ASSUME NEW s \in Books, NEW r \in Books, s.stock = r.stock, s.posted = r.posted, s.ok = r.ok
    PROVE  s = r
  <1>1. \A one \in Books : one = [stock |-> one.stock, posted |-> one.posted, ok |-> one.ok]
    BY DEF Books
  <1> QED
    BY <1>1

\* What an inventory shows.
LEMMA PresentType ==
    ASSUME NEW inv \in Inventories
    PROVE  /\ Present(inv) \in Books
           /\ Present(inv).stock = StockOf(inv.rows)
           /\ Present(inv).posted = BookOf(inv.moves)
           /\ Present(inv).ok = TRUE
  <1>1. StockOf(inv.rows) \in [Balances -> Quantities]
    BY DEF Inventories, Rows, StockOf
  <1>2. BookOf(inv.moves) \in SUBSET Postings
    <2>1. ASSUME NEW b \in Balances, NEW i \in DOMAIN inv.moves[b]
          PROVE  inv.moves[b][i].posting \in Postings
      <3>1. inv.moves[b] \in Seq(Movements)
        BY DEF Inventories
      <3>2. inv.moves[b][i] \in Movements
        BY <3>1, ElementOfSeq
      <3> QED
        BY <3>2 DEF Movements
    <2> QED
      BY <2>1 DEF BookOf
  <1> QED
    BY <1>1, <1>2 DEF Present, Books

\* post on a transaction's view is one more posting in its book.
LEMMA PostIsOneMore ==
    ASSUME NEW inv \in Inventories, NEW x \in Postings, CanPost(inv, x)
    PROVE  Present(Post(inv, x)) = OneMore(Present(inv), x)
  <1>0. x.balance \in Balances /\ x.quantity \in Int
    BY DEF Postings
  <1>1. KeyUsed(inv, x.key) <=> Taken(BookOf(inv.moves), x.key)
    BY DEF KeyUsed, Taken, BookOf
  <1>2. /\ Post(inv, x) \in Inventories
        /\ Present(inv) \in Books /\ Present(Post(inv, x)) \in Books
        /\ OneMore(Present(inv), x) \in Books
    BY PostType, PresentType, OneMoreEffect
  <1>3. CASE KeyUsed(inv, x.key)
    <2>1. Post(inv, x) = inv
      BY <1>3 DEF Post
    <2>2. /\ OneMore(Present(inv), x).stock = Present(inv).stock
          /\ OneMore(Present(inv), x).posted = Present(inv).posted
      BY <1>1, <1>2, <1>3, PresentType, OneMoreEffect
    <2>3. OneMore(Present(inv), x).ok = TRUE
      BY <1>1, <1>2, <1>3, PresentType, OneMoreEffect DEF CanPost, Books
    <2> QED
      BY <1>2, <2>1, <2>2, <2>3, PresentType, SameBooks
  <1>4. CASE ~KeyUsed(inv, x.key)
    <2>1. Post(inv, x) = Posted(inv, x)
      BY <1>4 DEF Post
    <2>2. StockOf(inv.rows)[x.balance] = inv.rows[x.balance].quantities
      BY <1>0 DEF StockOf
    <2>3. /\ ~Taken(Present(inv).posted, x.key)
          /\ After(Present(inv).stock[x.balance], x.delta) = AfterPosting(inv, x)
          /\ Present(inv).posted = BookOf(inv.moves) /\ Present(inv).stock = StockOf(inv.rows)
          /\ Present(inv).ok
      BY <1>1, <1>4, <2>2, PresentType DEF AfterPosting
    <2>4. /\ OneMore(Present(inv), x).posted = BookOf(inv.moves) \cup {x}
          /\ OneMore(Present(inv), x).stock[x.balance] = AfterPosting(inv, x)
          /\ \A b \in Balances \ {x.balance} : OneMore(Present(inv), x).stock[b] = StockOf(inv.rows)[b]
      BY <1>2, <2>3, OneMoreEffect
    <2>5. OneMore(Present(inv), x).ok = TRUE
      <3>1. x.quantity > 0 /\ NonNegative(AfterPosting(inv, x))
        BY <1>4 DEF CanPost
      <3>2. OneMore(Present(inv), x).ok
        BY <1>2, <2>3, <3>1, OneMoreEffect
      <3> QED
        BY <1>2, <3>2 DEF Books
    <2>6. StockOf(Posted(inv, x).rows) = [StockOf(inv.rows) EXCEPT ![x.balance] = AfterPosting(inv, x)]
      <3>1. \A b \in Balances : Posted(inv, x).rows[b].quantities =
                                  IF b = x.balance THEN AfterPosting(inv, x) ELSE inv.rows[b].quantities
        <4>1. [quantities |-> AfterPosting(inv, x), version |-> inv.rows[x.balance].version + 1].quantities =
                AfterPosting(inv, x)
          OBVIOUS
        <4> QED
          BY <4>1, PostedShape
      <3> QED
        BY <3>1 DEF StockOf
    <2>7. BookOf(Posted(inv, x).moves) = BookOf(inv.moves) \cup {x}
      <3>1. ASSUME NEW b \in Balances, NEW i \in DOMAIN Posted(inv, x).moves[b]
            PROVE  Posted(inv, x).moves[b][i].posting \in BookOf(inv.moves) \cup {x}
        BY PostedMovement DEF BookOf
      <3>2. ASSUME NEW b \in Balances, NEW i \in DOMAIN inv.moves[b]
            PROVE  inv.moves[b][i].posting \in BookOf(Posted(inv, x).moves)
        <4>1. i \in 1..Len(inv.moves[b]) /\ Posted(inv, x).moves[b][i] = inv.moves[b][i]
          BY PostedMoves
        <4>2. i \in DOMAIN Posted(inv, x).moves[b]
          <5>1. Len(inv.moves[b]) \in Nat /\ Len(Posted(inv, x).moves[b]) >= Len(inv.moves[b])
            BY PostedMoves
          <5>2. i \in 1..Len(Posted(inv, x).moves[b])
            BY <4>1, <5>1, PostedMoves
          <5> QED
            BY <5>2, PostedMoves
        <4> QED
          BY <4>1, <4>2 DEF BookOf
      <3>3. x \in BookOf(Posted(inv, x).moves)
        <4> DEFINE b == x.balance
                   i == Len(inv.moves[b]) + 1
        <4>1. b \in Balances /\ Posted(inv, x).moves[b][i].posting = x
          <5>1. Posted(inv, x).moves[b][i] = NewMovement(inv, x)
            BY <1>0, PostedMoves
          <5>2. NewMovement(inv, x).posting = x
            BY DEF NewMovement
          <5> QED
            BY <1>0, <5>1, <5>2
        <4>2. i \in DOMAIN Posted(inv, x).moves[b]
          <5>1. Len(inv.moves[b]) \in Nat /\ Len(Posted(inv, x).moves[b]) = i
            BY <1>0, PostedMoves
          <5> QED
            BY <1>0, <5>1, PostedMoves
        <4> HIDE DEF b, i
        <4> QED
          BY <4>1, <4>2 DEF BookOf
      <3> QED
        BY <3>1, <3>2, <3>3 DEF BookOf
    <2>8. OneMore(Present(inv), x).stock = StockOf(Posted(inv, x).rows)
      <3>1. OneMore(Present(inv), x).stock \in [Balances -> Quantities]
        BY <1>2 DEF Books
      <3>2. StockOf(inv.rows) \in [Balances -> Quantities]
        BY DEF Inventories, Rows, StockOf
      <3> QED
        BY <1>0, <2>4, <2>6, <3>1, <3>2
    <2>9. /\ Present(Post(inv, x)).stock = StockOf(Posted(inv, x).rows)
          /\ Present(Post(inv, x)).posted = BookOf(Posted(inv, x).moves)
          /\ Present(Post(inv, x)).ok = TRUE
      BY <2>1 DEF Present
    <2> QED
      BY <1>2, <2>4, <2>5, <2>7, <2>8, <2>9, SameBooks
  <1> QED
    BY <1>3, <1>4

\* Postings that are not refused have the same effect on an inventory with more postings, if
\* those they bring in have free keys there and find the balances as they were.
LEMMA SameEffect ==
    ASSUME NEW s \in Books, NEW d \in Books, NEW postings \in Seq(Postings),
           s.ok, d.ok, s.posted \subseteq d.posted, NEW end, end = PostAll(s, postings), end.ok,
           \A x \in end.posted \ s.posted : d.stock[x.balance] = s.stock[x.balance] /\ ~Taken(d.posted, x.key)
    PROVE  /\ PostAll(d, postings) \in Books
           /\ PostAll(d, postings).ok
           /\ PostAll(d, postings).posted = d.posted \cup (end.posted \ s.posted)
           /\ \A b \in Balances : PostAll(d, postings).stock[b] =
                IF \E x \in end.posted \ s.posted : x.balance = b THEN end.stock[b] ELSE d.stock[b]
  <1> DEFINE n == Len(postings)
  <1>1. PICK f : Fold!Steps(f, s, postings)
    BY Fold!FoldLeftSteps
  <1>2. PICK g : Fold!Steps(g, d, postings)
    BY Fold!FoldLeftSteps
  <1>3. n \in Nat /\ n <= n /\ f[n] = end /\ PostAll(d, postings) = g[n]
    <2>1. Fold!Folded(s, postings) = f[n] /\ Fold!Folded(d, postings) = g[n]
      BY <1>1, <1>2, Fold!FoldLeftIs
    <2>2. n \in Nat
      OBVIOUS
    <2> HIDE DEF n
    <2>3. n <= n
      BY <2>2
    <2> QED
      BY <2>1, <2>2, <2>3, PostAllIsFold
  <1>4. f[0] = s /\ g[0] = d
    BY <1>1, <1>2 DEF Fold!Steps
  <1>5. ASSUME NEW m \in Nat, m + 1 <= n
        PROVE  /\ postings[m + 1] \in Postings
               /\ f[m + 1] = OneMore(f[m], postings[m + 1])
               /\ g[m + 1] = OneMore(g[m], postings[m + 1])
    <2>1. m + 1 \in 1..n /\ (m + 1) - 1 = m
      BY <1>3, <1>5
    <2>2. postings[m + 1] \in Postings
      BY <2>1, ElementOfSeq
    <2>3. f[m + 1] = OneMore(f[(m + 1) - 1], postings[m + 1]) /\ g[m + 1] = OneMore(g[(m + 1) - 1], postings[m + 1])
      BY <1>1, <1>2, <2>1 DEF Fold!Steps
    <2> QED
      BY <2>1, <2>2, <2>3
  <1> HIDE DEF n
  \* The run on s: what it has come to holds to the end.
  <1> DEFINE Run == {m \in Nat : m <= n => /\ f[m] \in Books /\ s.posted \subseteq f[m].posted
                                          /\ \A k \in 0..m : /\ f[k].posted \subseteq f[m].posted
                                                             /\ f[m].ok => f[k].ok}
  <1>6. 0 \in Run
    BY <1>4
  <1>7. ASSUME NEW m \in Nat, m \in Run
        PROVE  m + 1 \in Run
    <2> SUFFICES ASSUME m + 1 <= n
                 PROVE  /\ f[m + 1] \in Books /\ s.posted \subseteq f[m + 1].posted
                        /\ \A k \in 0..(m + 1) : /\ f[k].posted \subseteq f[m + 1].posted
                                                 /\ f[m + 1].ok => f[k].ok
      OBVIOUS
    <2>1. m <= n
      BY <1>3
    <2>2. /\ f[m] \in Books /\ s.posted \subseteq f[m].posted
          /\ \A k \in 0..m : f[k].posted \subseteq f[m].posted /\ (f[m].ok => f[k].ok)
      BY <1>7, <2>1
    <2>3. f[m + 1] \in Books /\ f[m].posted \subseteq f[m + 1].posted /\ (f[m + 1].ok => f[m].ok)
      BY <1>5, <2>2, OneMoreEffect
    <2>4. \A k \in 0..(m + 1) : k \in 0..m \/ k = m + 1
      OBVIOUS
    <2> QED
      BY <2>2, <2>3, <2>4
  <1>8. ASSUME NEW m \in 0..n
        PROVE  /\ f[m] \in Books /\ f[m].ok
               /\ s.posted \subseteq f[m].posted /\ f[m].posted \subseteq end.posted
    <2> HIDE DEF Run
    <2>1. Nat \subseteq Run
      BY <1>6, <1>7, Fold!NaturalInduction
    <2>2. n \in Run /\ m \in Run /\ m <= n
      BY <1>3, <2>1
    <2> QED
      BY <1>3, <2>2 DEF Run
  <1> HIDE DEF Run
  \* The run on d beside it.
  <1> DEFINE new == end.posted \ s.posted
             Same(m) == /\ g[m] \in Books /\ g[m].ok
                        /\ g[m].posted = d.posted \cup (f[m].posted \ s.posted)
                        /\ \A b \in Balances : g[m].stock[b] =
                             IF \E x \in new : x.balance = b THEN f[m].stock[b] ELSE d.stock[b]
             Runs == {m \in Nat : m <= n => Same(m)}
  <1>9. 0 \in Runs
    <2>1. \A b \in Balances : d.stock[b] = IF \E x \in new : x.balance = b THEN s.stock[b] ELSE d.stock[b]
      OBVIOUS
    <2>2. d.posted = d.posted \cup (s.posted \ s.posted)
      OBVIOUS
    <2> HIDE DEF new
    <2>3. Same(0)
      BY <1>4, <2>1, <2>2
    <2> QED
      BY <2>3
  <1>10. ASSUME NEW m \in Nat, m \in Runs, m + 1 <= n
         PROVE  Same(m + 1)
    <2> DEFINE x == postings[m + 1]
    <2>1. m \in 0..n /\ m + 1 \in 0..n
      BY <1>3, <1>10
    <2>2. Same(m)
      BY <1>10, <2>1
    <2>3. x \in Postings /\ x.balance \in Balances /\ f[m + 1] = OneMore(f[m], x) /\ g[m + 1] = OneMore(g[m], x)
      BY <1>5, <1>10 DEF Postings
    <2>4. f[m] \in Books /\ f[m + 1] \in Books /\ f[m + 1].ok /\ g[m] \in Books /\ g[m + 1] \in Books
      <3>1. f[m] \in Books /\ f[m + 1] \in Books /\ f[m + 1].ok
        BY <1>8, <2>1
      <3>2. g[m] \in Books
        BY <2>2
      <3>3. OneMore(g[m], x) \in Books
        BY <2>3, <3>2, OneMoreEffect
      <3> QED
        BY <2>3, <3>1, <3>2, <3>3
    <2>5. s.posted \subseteq f[m].posted /\ f[m + 1].posted \subseteq end.posted
      BY <1>8, <2>1
    <2> HIDE DEF x
    <2>6. CASE Taken(f[m].posted, x.key)
      <3>1. Taken(g[m].posted, x.key)
        BY <2>2, <2>6 DEF Taken
      <3>2. f[m + 1].stock = f[m].stock /\ f[m + 1].posted = f[m].posted /\ x.quantity > 0
        <4>1. /\ OneMore(f[m], x).stock = f[m].stock /\ OneMore(f[m], x).posted = f[m].posted
              /\ OneMore(f[m], x).ok => x.quantity > 0
          BY <2>3, <2>4, <2>6, OneMoreEffect
        <4> QED
          BY <2>3, <2>4, <4>1
      <3>3. g[m + 1].stock = g[m].stock /\ g[m + 1].posted = g[m].posted /\ g[m + 1].ok
        <4>1. g[m].ok
          BY <2>2
        <4>2. /\ OneMore(g[m], x).stock = g[m].stock /\ OneMore(g[m], x).posted = g[m].posted
              /\ OneMore(g[m], x).ok
          BY <2>3, <2>4, <3>1, <3>2, <4>1, OneMoreEffect
        <4> QED
          BY <2>3, <4>2
      <3> QED
        BY <2>2, <2>4, <3>2, <3>3
    <2>7. CASE ~Taken(f[m].posted, x.key)
      <3>1. /\ f[m + 1].posted = f[m].posted \cup {x}
            /\ f[m + 1].stock[x.balance] = After(f[m].stock[x.balance], x.delta)
            /\ \A b \in Balances \ {x.balance} : f[m + 1].stock[b] = f[m].stock[b]
            /\ x.quantity > 0 /\ NonNegative(After(f[m].stock[x.balance], x.delta))
        BY <2>3, <2>4, <2>7, OneMoreEffect
      <3>2. x \in new /\ x \notin s.posted
        BY <2>5, <2>7, <3>1 DEF Taken
      <3>3. ~Taken(g[m].posted, x.key)
        BY <2>2, <2>7, <3>2 DEF Taken
      <3>4. g[m].stock[x.balance] = f[m].stock[x.balance]
        BY <2>2, <2>3, <3>2
      <3>5. /\ g[m + 1].posted = g[m].posted \cup {x}
            /\ g[m + 1].stock[x.balance] = After(g[m].stock[x.balance], x.delta)
            /\ \A b \in Balances \ {x.balance} : g[m + 1].stock[b] = g[m].stock[b]
            /\ g[m + 1].ok
        <4>1. g[m].ok
          BY <2>2
        <4>2. /\ OneMore(g[m], x).posted = g[m].posted \cup {x}
              /\ OneMore(g[m], x).stock[x.balance] = After(g[m].stock[x.balance], x.delta)
              /\ \A b \in Balances \ {x.balance} : OneMore(g[m], x).stock[b] = g[m].stock[b]
          BY <2>3, <2>4, <3>3, OneMoreEffect
        <4>3. OneMore(g[m], x).ok
          BY <2>3, <2>4, <3>1, <3>4, <4>1, OneMoreEffect
        <4> QED
          BY <2>3, <4>2, <4>3
      <3>6. g[m + 1].posted = d.posted \cup (f[m + 1].posted \ s.posted)
        BY <2>2, <3>1, <3>2, <3>5
      <3>7. ASSUME NEW b \in Balances
            PROVE  g[m + 1].stock[b] = IF \E y \in new : y.balance = b THEN f[m + 1].stock[b] ELSE d.stock[b]
        <4>1. CASE b = x.balance
          BY <3>1, <3>2, <3>4, <3>5, <4>1
        <4>2. CASE b # x.balance
          BY <2>2, <3>1, <3>5, <4>2
        <4> QED
          BY <4>1, <4>2
      <3> HIDE DEF new
      <3> QED
        BY <2>4, <3>5, <3>6, <3>7
    <2> QED
      BY <2>6, <2>7
  <1> HIDE DEF Same
  <1>11. \A m \in Nat : m \in Runs => m + 1 \in Runs
    BY <1>10
  <1> HIDE DEF Runs
  <1>12. n \in Runs
    BY <1>3, <1>9, <1>11, Fold!NaturalInduction
  <1>13. Same(n)
    BY <1>3, <1>12 DEF Runs
  <1> QED
    BY <1>3, <1>13 DEF Same

\* The sums of the model are those of FoldTheorems.
LEMMA SumIsSum == \A f, S : Fold!SumFunctionOnSet(f, S) = SumFunctionOnSet(f, S)
  BY DEF SumFunctionOnSet, FoldFunctionOnSet, MapThenFoldSet,
         Fold!SumFunctionOnSet, Fold!FoldFunctionOnSet, Fold!MapThenFoldSet

\* Finite sets are those of FoldTheorems.
LEMMA FiniteIsFinite == \A S : IsFiniteSet(S) => Fold!IsFiniteSet(S)
  BY DEF IsFiniteSet, Fold!IsFiniteSet

Leg(c) == [at : DOMAIN c.sources, quantity : 1..c.quantity]

\* The postings of AtomicInventory's transfer, said with those of this module.
LEMMA PairsAre ==
    ASSUME NEW c, NEW n \in Nat, NEW legs \in [1..n -> Leg(c)]
    PROVE  Abstract!Pairs(c, legs) =
             [j \in 1..(2 * n) |->
                IF j % 2 = 1
                THEN TransferOut(c, c.sources[legs[(j + 1) \div 2].at], legs[(j + 1) \div 2].quantity, (j + 1) \div 2 - 1)
                ELSE TransferIn(c, legs[(j + 1) \div 2].quantity, (j + 1) \div 2 - 1)]
  <1>1. Len(legs) = n
    OBVIOUS
  <1>2. \A b, q, k : /\ Abstract!TransferOut(c, b, q, k) = TransferOut(c, b, q, k)
                     /\ Abstract!TransferIn(c, q, k) = TransferIn(c, q, k)
    BY DEF Abstract!TransferOut, Abstract!TransferIn, TransferOut, TransferIn, Abstract!Posting, Posting,
           Abstract!Key, Key, Abstract!OnHand, OnHand
  <1> QED
    BY <1>1, <1>2, Zenon DEF Abstract!Pairs

\* The legs made so far and one more.
LEMMA OneMoreLeg ==
    ASSUME NEW c \in TransferCommands, NEW n \in Nat, NEW legs \in Legs(c, n), NEW leg \in Leg(c)
    PROVE  /\ Abstract!Pairs(c, legs) \in Seq(Postings)
           /\ Append(legs, leg) \in Legs(c, n + 1)
           /\ \A i \in 1..n : Append(legs, leg)[i] = legs[i]
           /\ Append(legs, leg)[n + 1] = leg
           /\ Abstract!Pairs(c, Append(legs, leg)) =
                Append(Append(Abstract!Pairs(c, legs), TransferOut(c, c.sources[leg.at], leg.quantity, n)),
                       TransferIn(c, leg.quantity, n))
  <1> DEFINE more == Append(legs, leg)
             out  == TransferOut(c, c.sources[leg.at], leg.quantity, n)
             in   == TransferIn(c, leg.quantity, n)
             Half(j) == (j + 1) \div 2
             Pair(l, j) == IF j % 2 = 1
                           THEN TransferOut(c, c.sources[l[Half(j)].at], l[Half(j)].quantity, Half(j) - 1)
                           ELSE TransferIn(c, l[Half(j)].quantity, Half(j) - 1)
  <1>0. legs \in [1..n -> Leg(c)]
    BY DEF Legs, Leg
  <1>1. more \in [1..(n + 1) -> Leg(c)] /\ (\A i \in 1..n : more[i] = legs[i]) /\ more[n + 1] = leg
    <2>1. legs \in Seq(Leg(c)) /\ Len(legs) = n
      BY <1>0
    <2>2. /\ more \in Seq(Leg(c)) /\ Len(more) = n + 1 /\ more[n + 1] = leg
          /\ \A i \in 1..n : more[i] = legs[i]
      BY <2>1, AppendProperties
    <2> HIDE DEF more
    <2> QED
      BY <2>2
  <1>2. Abstract!Pairs(c, legs) = [j \in 1..(2 * n) |-> Pair(legs, j)]
    BY <1>0, PairsAre
  <1>3. Abstract!Pairs(c, more) = [j \in 1..(2 * (n + 1)) |-> Pair(more, j)]
    <2> HIDE DEF more
    <2>1. n + 1 \in Nat
      OBVIOUS
    <2> QED
      BY <1>1, <2>1, PairsAre
  <1>4. \A j \in 1..(2 * n) : Half(j) \in 1..n
    OBVIOUS
  <1>5. ASSUME NEW j \in 1..(2 * n)
        PROVE  Pair(legs, j) \in Postings
    <2>1. Half(j) \in 1..n /\ Half(j) - 1 \in Nat
      BY <1>4
    <2>2. legs[Half(j)] \in Leg(c)
      BY <1>0, <2>1
    <2>3. legs[Half(j)].at \in DOMAIN c.sources /\ legs[Half(j)].quantity \in Int
      BY <2>2 DEF Leg
    <2>4. c.sources[legs[Half(j)].at] \in Balances
      BY <2>3 DEF TransferCommands
    <2> HIDE DEF Half
    <2> QED
      BY <2>1, <2>3, <2>4, TransferPostingTypes
  <1>6. Abstract!Pairs(c, legs) \in Seq(Postings)
    <2> HIDE DEF Pair
    <2> QED
      BY <1>2, <1>5
  <1>7. /\ Half(2 * n + 1) = n + 1 /\ (2 * n + 1) % 2 = 1
        /\ Half(2 * n + 2) = n + 1 /\ (2 * n + 2) % 2 # 1 /\ (n + 1) - 1 = n
    OBVIOUS
  <1>8. Pair(more, 2 * n + 1) = out /\ Pair(more, 2 * n + 2) = in
    <2> HIDE DEF Half, more
    <2> QED
      BY <1>1, <1>7
  <1>9. \A j \in 1..(2 * n) : Pair(more, j) = Pair(legs, j)
    <2> HIDE DEF Half, more
    <2> QED
      BY <1>1, <1>4
  <1> HIDE DEF Pair, more, out, in
  <1>10. [j \in 1..(2 * (n + 1)) |-> Pair(more, j)] = Append(Append(Abstract!Pairs(c, legs), out), in)
    <2> DEFINE one == Append(Abstract!Pairs(c, legs), out)
    <2>1. Len(Abstract!Pairs(c, legs)) = 2 * n /\ \A j \in 1..(2 * n) : Abstract!Pairs(c, legs)[j] = Pair(legs, j)
      BY <1>2
    <2>2. out \in Postings /\ in \in Postings
      <3>1. leg.at \in DOMAIN c.sources /\ leg.quantity \in Int
        BY DEF Leg
      <3>2. c.sources[leg.at] \in Balances
        BY <3>1 DEF TransferCommands
      <3> QED
        BY <3>1, <3>2, TransferPostingTypes DEF out, in
    <2>3. /\ one \in Seq(Postings) /\ Len(one) = 2 * n + 1 /\ one[2 * n + 1] = out
          /\ \A j \in 1..(2 * n) : one[j] = Pair(legs, j)
      BY <1>6, <2>1, <2>2, AppendProperties
    <2> HIDE DEF one
    <2>4. /\ Append(one, in) \in Seq(Postings) /\ Len(Append(one, in)) = 2 * n + 2
          /\ Append(one, in)[2 * n + 2] = in
          /\ \A j \in 1..(2 * n + 1) : Append(one, in)[j] = one[j]
      BY <2>2, <2>3, AppendProperties
    <2>5. \A j \in 1..(2 * n + 2) : Append(one, in)[j] = Pair(more, j)
      <3>1. \A j \in 1..(2 * n + 2) : j \in 1..(2 * n) \/ j = 2 * n + 1 \/ j = 2 * n + 2
        OBVIOUS
      <3>2. \A j \in 1..(2 * n) : j \in 1..(2 * n + 1)
        OBVIOUS
      <3>3. 2 * n + 1 \in 1..(2 * n + 1)
        OBVIOUS
      <3> QED
        BY <1>8, <1>9, <2>3, <2>4, <3>1, <3>2, <3>3
    <2>6. 2 * (n + 1) = 2 * n + 2 /\ 2 * n + 2 \in Nat
      OBVIOUS
    <2>7. Append(one, in) = [j \in 1..(2 * n + 2) |-> Append(one, in)[j]]
      <3>1. \A l \in Seq(Postings) : l = [j \in 1..Len(l) |-> l[j]]
        OBVIOUS
      <3> QED
        BY <2>4, <3>1
    <2> QED
      BY <2>5, <2>6, <2>7 DEF one
  <1>11. more \in Legs(c, n + 1)
    BY <1>1 DEF Legs, Leg
  <1> QED
    BY <1>1, <1>3, <1>6, <1>10, <1>11 DEF more, out, in

\* Nothing is posted for no leg.
LEMMA NoLegs ==
    ASSUME NEW c
    PROVE  /\ <<>> \in Legs(c, 0) /\ Abstract!Pairs(c, <<>>) = <<>> /\ MovedBy(<<>>, 0) = 0
  <1>1. <<>> \in [1..0 -> Leg(c)]
    OBVIOUS
  <1>2. Abstract!Pairs(c, <<>>) = <<>>
    <2>1. 2 * 0 = 0 /\ 1..0 = {}
      OBVIOUS
    <2>2. Len(<<>>) = 0
      OBVIOUS
    <2> QED
      BY <1>1, <2>1, <2>2 DEF Abstract!Pairs
  <1>3. MovedBy(<<>>, 0) = 0
    <2>1. 1..0 = {}
      OBVIOUS
    <2> QED
      BY <2>1, SumIsSum, Fold!SumOfNone DEF MovedBy
  <1> QED
    BY <1>1, <1>2, <1>3 DEF Legs, Leg

\* What the legs move.
LEMMA MovedByType ==
    ASSUME NEW c, NEW n \in Nat, NEW legs \in Legs(c, n)
    PROVE  MovedBy(legs, n) \in Nat
  <1> DEFINE S == 1..n
             f == [i \in S |-> legs[i].quantity]
  <1>1. Fold!IsFiniteSet(S)
    <2>1. n \in Int /\ 1 \in Int
      OBVIOUS
    <2>2. IsFiniteSet(1..n)
      BY <2>1, FS_Interval
    <2> QED
      BY <2>2, FiniteIsFinite
  <1>2. \A i \in S : f[i] \in Nat
    BY DEF Legs
  <1>3. MovedBy(legs, n) = SumFunctionOnSet(f, S)
    BY DEF MovedBy
  <1> HIDE DEF S, f
  <1>4. Fold!SumFunctionOnSet(f, S) \in Nat
    BY <1>1, <1>2, Fold!SumOfNaturals
  <1> QED
    BY <1>3, <1>4, SumIsSum

\* What one more leg adds.
LEMMA MovedByOneMore ==
    ASSUME NEW c, NEW n \in Nat, NEW legs \in Legs(c, n), NEW more \in Legs(c, n + 1),
           \A i \in 1..n : more[i] = legs[i]
    PROVE  /\ MovedBy(legs, n) \in Nat
           /\ MovedBy(more, n + 1) = MovedBy(legs, n) + more[n + 1].quantity
  <1> DEFINE S == 1..n
             last == n + 1
             f == [i \in S |-> legs[i].quantity]
             g == [i \in S \cup {last} |-> more[i].quantity]
  <1>1. IsFiniteSet(S) /\ last \notin S /\ 1..(n + 1) = S \cup {last}
    <2>1. n \in Int /\ 1 \in Int
      OBVIOUS
    <2>2. IsFiniteSet(1..n)
      BY <2>1, FS_Interval
    <2> QED
      BY <2>2
  <1>2. /\ \A i \in S : f[i] \in Nat
        /\ \A i \in S : g[i] = f[i]
        /\ g[last] = more[n + 1].quantity /\ g[last] \in Int
    <2>1. \A i \in S : legs[i].quantity \in Nat
      BY DEF Legs
    <2>2. more[n + 1].quantity \in Nat
      BY DEF Legs
    <2> QED
      BY <2>1, <2>2
  <1>3. MovedBy(legs, n) = SumFunctionOnSet(f, S) /\ MovedBy(more, n + 1) = SumFunctionOnSet(g, S \cup {last})
    <2> HIDE DEF last
    <2> QED
      BY <1>1 DEF MovedBy
  <1> HIDE DEF S, last, f, g
  <1>4. Fold!IntegersOn(f, S) /\ Fold!IntegersOn(g, S) /\ Fold!IsFiniteSet(S)
    BY <1>1, <1>2, FiniteIsFinite DEF Fold!IntegersOn
  <1>5. Fold!SumFunctionOnSet(f, S) \in Nat
    BY <1>2, <1>4, Fold!SumOfNaturals
  <1>6. Fold!SumFunctionOnSet(g, S) = Fold!SumFunctionOnSet(f, S)
    BY <1>1, <1>2, <1>4, Fold!SumsAgree
  <1>7. Fold!SumFunctionOnSet(g, S \cup {last}) = Fold!SumFunctionOnSet(g, S) + g[last]
    BY <1>1, <1>2, <1>4, Fold!SumWithOneMore
  <1> QED
    BY <1>2, <1>3, <1>5, <1>6, <1>7, SumIsSum

----------------------------------------------------------------------------
(* The steps of a handler that is at work.                                 *)

\* A handler's step concerns its own transaction alone.
LEMMA ContinueExplained ==
    ASSUME InventoryInv, AllExplained, NEW p \in Procs, NEW t, Explained(t), Continue(p, t)
    PROVE  AllExplained'
  <1>1. \A q \in Procs : tx'[q] = IF q = p THEN t ELSE tx[q]
    BY DEF Continue, InventoryInv, TypeOK
  <1>2. \A q \in Procs : Explained(tx'[q])
    BY <1>1 DEF AllExplained
  <1> QED
    BY <1>2 DEF AllExplained

\* Rolling back leaves nothing to explain.
LEMMA RollBackExplained ==
    ASSUME InventoryInv, AllExplained, NEW p \in Procs, RollBack(p)
    PROVE  AllExplained'
  <1>1. NoTransaction.pc = "idle"
    BY DEF NoTransaction
  <1>2. Explained(NoTransaction)
    BY <1>1 DEF Explained
  <1> QED
    BY <1>2, ContinueExplained DEF RollBack

\* A transaction starts from its snapshot, with everything to do.
LEMMA SnapshotExplained ==
    ASSUME InventoryInv, NEW c \in Commands, NEW n \in 0..MaxAttempts
    PROVE  Explained(Snapshot(c, n))
  <1> DEFINE t == Snapshot(c, n)
  <1>1. /\ t.pc = "open" /\ t.command = c /\ t.base = db.rows /\ t.view = db /\ t.index = 0
        /\ c.op = "DOCUMENT" => t.todo = c.postings
    BY DEF Snapshot, NoTransaction
  <1>2. db \in Inventories /\ Sound(db)
    BY DEF InventoryInv, TypeOK
  <1> HIDE DEF t
  <1>3. ASSUME NEW b \in Balances
        PROVE  /\ db.rows[b].version \in Nat /\ db.rows[b].version = Len(db.moves[b])
               /\ DOMAIN db.moves[b] = 1..db.rows[b].version
               /\ NonNegative(db.rows[b].quantities)
               /\ db.rows[b].quantities = IF db.rows[b].version = 0 THEN ZERO
                                          ELSE db.moves[b][db.rows[b].version].after
    <2>1. db.rows[b] \in Rows /\ db.moves[b] \in Seq(Movements)
      BY <1>2 DEF Inventories
    <2>2. Chained(db.rows[b], db.moves[b]) /\ NonNegative(db.rows[b].quantities)
      BY <1>2 DEF Sound
    <2> QED
      BY <2>1, <2>2 DEF Chained, Rows
  <1>4. BaseSound(t)
    BY <1>1, <1>3 DEF BaseSound
  <1>5. Present(t.view) = Past(t)
    <2>1. BookOf(db.moves) = BookUpTo(db.rows, db.moves)
      BY <1>3 DEF BookOf, BookUpTo
    <2> QED
      BY <1>1, <2>1 DEF Present, Past
  <1>6. ASSUME c.op = "DOCUMENT"
        PROVE  PartlyPosted(t)
    <2>1. c.postings \in Seq(DocumentPostings)
      BY <1>6, CommandKinds DEF DocumentCommands
    <2>2. 0 \in 0..Len(c.postings) /\ 0 + 1 = 1
      BY <2>1
    <2>3. SubSeq(c.postings, 1, Len(c.postings)) = c.postings /\ SubSeq(c.postings, 1, 0) = <<>>
      BY <2>1
    <2>4. PostAll(Past(t), <<>>) = Present(t.view)
      BY <1>5, PostAllNone
    <2> QED
      BY <1>1, <1>6, <2>2, <2>3, <2>4 DEF PartlyPosted
  <1> QED
    BY <1>1, <1>4, <1>5, <1>6 DEF Explained, t

\* What the handler posts since comes after its snapshot.
LEMMA PastKept ==
    ASSUME NEW t \in Transactions, HandlerSound(t), NEW u \in Transactions, u.base = t.base,
           Extended(t.view.moves, u.view.moves)
    PROVE  /\ Past(u) = Past(t)
           /\ BaseSound(t) => BaseSound(u)
  <1>1. ASSUME NEW b \in Balances, NEW i \in 1..t.base[b].version
        PROVE  u.view.moves[b][i] = t.view.moves[b][i]
    <2>1. t.base[b].version <= Len(t.view.moves[b])
      BY DEF HandlerSound, Agree
    <2>2. t.base[b].version \in Nat /\ Len(t.view.moves[b]) \in Nat
      BY DEF Transactions, Rows, Inventories
    <2>3. i \in 1..Len(t.view.moves[b])
      BY <2>1, <2>2
    <2> QED
      BY <2>3 DEF Extended
  <1>2. BookUpTo(u.base, u.view.moves) = BookUpTo(t.base, t.view.moves)
    BY <1>1 DEF BookUpTo
  <1>3. ASSUME BaseSound(t), NEW b \in Balances
        PROVE  /\ NonNegative(u.base[b].quantities)
               /\ u.base[b].quantities = IF u.base[b].version = 0 THEN ZERO
                                         ELSE u.view.moves[b][u.base[b].version].after
    <2>1. t.base[b].version \in Nat
      BY DEF Transactions, Rows
    <2>2. t.base[b].version # 0 => t.base[b].version \in 1..t.base[b].version
      BY <2>1
    <2> QED
      BY <1>1, <1>3, <2>2 DEF BaseSound
  <1> QED
    BY <1>2, <1>3 DEF Past, BaseSound

\* A ledger goes on from itself.
LEMMA ExtendsItself ==
    ASSUME NEW inv \in Inventories
    PROVE  Extended(inv.moves, inv.moves)
  <1>1. \A b \in Balances : Len(inv.moves[b]) \in Nat
    BY DEF Inventories
  <1>2. \A n \in Nat : n <= n
    OBVIOUS
  <1>3. \A b \in Balances : Len(inv.moves[b]) <= Len(inv.moves[b])
    BY <1>1, <1>2, Zenon
  <1> QED
    BY <1>3, Zenon DEF Extended

\* What goes on from a ledger that goes on from another goes on from that one.
LEMMA ExtendedTwice ==
    ASSUME NEW one \in Inventories, NEW two \in Inventories, NEW three \in Inventories,
           Extended(one.moves, two.moves), Extended(two.moves, three.moves)
    PROVE  Extended(one.moves, three.moves)
  <1> SUFFICES ASSUME NEW b \in Balances
               PROVE  /\ Len(one.moves[b]) <= Len(three.moves[b])
                      /\ \A i \in 1..Len(one.moves[b]) : three.moves[b][i] = one.moves[b][i]
    BY DEF Extended
  <1>1. Len(one.moves[b]) \in Nat /\ Len(two.moves[b]) \in Nat /\ Len(three.moves[b]) \in Nat
    BY DEF Inventories
  <1>2. Len(one.moves[b]) <= Len(two.moves[b]) /\ Len(two.moves[b]) <= Len(three.moves[b])
    BY DEF Extended
  <1>3. \A i \in 1..Len(one.moves[b]) : i \in 1..Len(two.moves[b])
    BY <1>1, <1>2
  <1>4. \A i \in 1..Len(one.moves[b]) : three.moves[b][i] = one.moves[b][i]
    BY <1>3 DEF Extended
  <1> QED
    BY <1>1, <1>2, <1>4

\* A transaction on the same view.
LEMMA SamePast ==
    ASSUME NEW t \in Transactions, HandlerSound(t), NEW u \in Transactions, u.base = t.base, u.view = t.view
    PROVE  Past(u) = Past(t) /\ (BaseSound(t) => BaseSound(u))
  <1>1. t.view \in Inventories
    BY DEF Transactions
  <1>2. Extended(t.view.moves, u.view.moves)
    BY <1>1, ExtendsItself
  <1> QED
    BY <1>2, PastKept

\* A transaction that goes to its commit.
LEMMA DoneExplained ==
    ASSUME NEW t \in Transactions, HandlerSound(t), t.pc # "idle", BaseSound(t), Worked(t)
    PROVE  Explained(Done(t))
  <1>1. /\ Done(t) \in Transactions
        /\ Done(t).pc = "posted" /\ Done(t).command = t.command /\ Done(t).base = t.base /\ Done(t).view = t.view
    BY DEF Done, Transactions
  <1>2. Past(Done(t)) = Past(t) /\ BaseSound(Done(t))
    BY <1>1, SamePast
  <1>3. Worked(Done(t))
    BY <1>1, <1>2 DEF Worked
  <1> QED
    BY <1>1, <1>2, <1>3 DEF Explained

\* One posting made on a view.
LEMMA PostedPast ==
    ASSUME NEW t \in Transactions, HandlerSound(t), BaseSound(t),
           NEW x \in Postings, ReversalAllowed(t.view, x), CanPost(t.view, x),
           NEW u \in Transactions, u.base = t.base, u.view = Post(t.view, x)
    PROVE  /\ Past(u) = Past(t) /\ BaseSound(u)
           /\ Present(u.view) = OneMore(Present(t.view), x)
  <1>1. t.view \in Inventories /\ Sound(t.view)
    BY DEF Transactions, HandlerSound
  <1>2. Extended(t.view.moves, u.view.moves)
    BY <1>1, PostSound
  <1> QED
    BY <1>1, <1>2, PastKept, PostIsOneMore

\* A command of one posting.
LEMMA OnePostingExplained ==
    ASSUME InventoryInv, AllExplained, NEW p \in Procs, tx[p].pc # "idle", Present(tx[p].view) = Past(tx[p]),
           NEW x \in Postings, ReversalAllowed(tx[p].view, x),
           IsOutcome(tx[p].command, Past(tx[p]).posted, <<x>>),
           PostOrFail(p, Done(tx[p]), x)
    PROVE  AllExplained'
  <1> DEFINE t == tx[p]
             u == [Done(t) EXCEPT !.view = Post(Done(t).view, x)]
  <1>1. t \in Transactions /\ HandlerSound(t) /\ BaseSound(t)
    BY HandlerFacts DEF AllExplained, Explained
  <1>2. /\ Done(t) \in Transactions /\ Done(t).view = t.view /\ Done(t).pc = "posted"
        /\ Done(t).command = t.command /\ Done(t).base = t.base
    BY <1>1 DEF Done, Transactions
  <1>3. CASE ~CanPost(Done(t).view, x)
    BY <1>3, RollBackExplained DEF PostOrFail
  <1>4. CASE CanPost(Done(t).view, x)
    <2>1. Continue(p, u)
      BY <1>4 DEF PostOrFail
    <2>2. /\ u \in Transactions /\ u.view = Post(t.view, x) /\ u.pc = "posted"
          /\ u.command = t.command /\ u.base = t.base
      <3>1. Post(t.view, x) \in Inventories
        BY <1>1, PostType DEF Transactions
      <3> QED
        BY <1>2, <3>1 DEF Transactions
    <2> HIDE DEF u
    <2>3. Past(u) = Past(t) /\ BaseSound(u) /\ Present(u.view) = OneMore(Present(t.view), x)
      BY <1>1, <1>2, <1>4, <2>2, PostedPast
    <2>4. PostAll(Past(u), <<x>>) = Present(u.view)
      BY <2>3, PostAllOne
    <2>5. <<x>> \in Seq(Postings)
      OBVIOUS
    <2>6. IsOutcome(u.command, Past(u).posted, <<x>>)
      BY <2>2, <2>3
    <2>7. Worked(u)
      BY <2>4, <2>5, <2>6 DEF Worked
    <2>8. Explained(u)
      BY <2>2, <2>3, <2>7 DEF Explained
    <2> QED
      BY <2>1, <2>8, ContinueExplained
  <1> QED
    BY <1>3, <1>4

\* Taking a command opens a transaction with everything to do.
LEMMA RequestExplained ==
    ASSUME InventoryInv, AllExplained, NEW p \in Procs, NEW c \in Commands, Request(p, c)
    PROVE  AllExplained'
  <1>1. 1 \in 0..MaxAttempts
    BY AttemptsAssumption
  <1> QED
    BY <1>1, SnapshotExplained, ContinueExplained DEF Request

\* So does running it again; giving it up leaves nothing.
LEMMA ConflictExplained ==
    ASSUME InventoryInv, AllExplained, NEW p \in Procs, Conflict(p)
    PROVE  AllExplained'
  <1>1. tx[p] \in Transactions /\ tx[p].command \in Commands
    BY HandlerFacts DEF Conflict
  <1>2. tx[p].attempt \in 0..MaxAttempts
    BY <1>1 DEF Transactions
  <1>3. CASE tx[p].attempt < MaxAttempts
    <2>1. tx[p].attempt + 1 \in 0..MaxAttempts
      BY <1>2, <1>3, AttemptsAssumption
    <2>2. Continue(p, Snapshot(tx[p].command, tx[p].attempt + 1))
      BY <1>3 DEF Conflict
    <2> QED
      BY <1>1, <2>1, <2>2, SnapshotExplained, ContinueExplained
  <1>4. CASE ~(tx[p].attempt < MaxAttempts)
    BY <1>4, RollBackExplained DEF Conflict
  <1> QED
    BY <1>3, <1>4

\* adjust makes its one posting.
LEMMA AdjustExplained ==
    ASSUME InventoryInv, AllExplained, NEW p \in Procs, Adjust(p)
    PROVE  AllExplained'
  <1> DEFINE t == tx[p]
             x == AdjustPosting(t.command)
  <1>1. t.pc = "open" /\ t.command.op = "ADJUST" /\ t.command \in AdjustCommands
    BY HandlerFacts, CommandKinds DEF Adjust, Opened
  <1>2. x \in Postings /\ ReversalAllowed(t.view, x)
    BY <1>1, AdjustPostingType DEF ReversalAllowed
  <1>3. Present(t.view) = Past(t)
    BY <1>1 DEF AllExplained, Explained
  <1>4. IsOutcome(t.command, Past(t).posted, <<x>>)
    BY <1>1 DEF IsOutcome
  <1>5. PostOrFail(p, Done(t), x)
    BY DEF Adjust
  <1> HIDE DEF x
  <1> QED
    BY <1>1, <1>2, <1>3, <1>4, <1>5, OnePostingExplained

\* reverseAdjustment posts the reversal of a movement of the snapshot that was not reversed there.
LEMMA ReverseExplained ==
    ASSUME InventoryInv, AllExplained, NEW p \in Procs, ReverseAdjustment(p)
    PROVE  AllExplained'
  <1> DEFINE t == tx[p]
             target == t.command.target
  <1>1. t.pc = "open" /\ t.command.op = "REVERSE" /\ t.command \in ReverseCommands
    BY HandlerFacts, CommandKinds DEF ReverseAdjustment, Opened
  <1>2. t \in Transactions /\ HandlerSound(t) /\ t.view \in Inventories
    BY HandlerFacts
  <1>3. Present(t.view) = Past(t) /\ BaseSound(t)
    BY <1>1 DEF AllExplained, Explained
  <1>4. CASE RollBack(p)
    BY <1>4, RollBackExplained
  <1>5. CASE Continue(p, Done(t))
    <2>1. Worked(t)
      BY <1>3 DEF Worked
    <2>2. Explained(Done(t))
      BY <1>1, <1>2, <1>3, <2>1, DoneExplained
    <2> QED
      BY <1>5, <2>2, ContinueExplained
  <1>6. ASSUME ~Reversed(t.view, target), NEW b \in Balances, NEW i \in DOMAIN t.view.moves[b],
               ReversibleAt(t.view, target, b, i),
               PostOrFail(p, Done(t), ReversalPosting(t.command, t.view.moves[b][i]))
        PROVE  AllExplained'
    <2> DEFINE original == t.view.moves[b][i]
               x == ReversalPosting(t.command, original)
    <2>1. original \in Movements
      BY <1>2 DEF Inventories
    <2>2. /\ original.posting.balance = b /\ original.posting.key = target
          /\ original.posting.type = "ADJUSTMENT"
      BY <1>2, <1>6 DEF HandlerSound, Sound, ReversibleAt
    <2>3. x \in Postings /\ x.reversalOf = target /\ x.balance = b
      BY <1>1, <2>1, <2>2, ReversalPostingType
    <2>4. ReversalAllowed(t.view, x)
      BY <1>2, <1>6, <2>2, <2>3 DEF ReversalAllowed
    <2>5. PostOrFail(p, Done(t), x)
      BY <1>6
    <2>6. Past(t).posted = BookOf(t.view.moves)
      BY <1>2, <1>3, PresentType
    <2>7. ~ReversedIn(Past(t).posted, target)
      BY <1>6, <2>6 DEF ReversedIn, BookOf, Reversed
    <2>8. original.posting \in Past(t).posted
      BY <2>6 DEF BookOf
    <2>9. x = ReversalPosting(t.command, [posting |-> original.posting])
      BY DEF ReversalPosting, Reversal
    <2>10. IsOutcome(t.command, Past(t).posted, <<x>>)
      BY <1>1, <2>2, <2>7, <2>8, <2>9 DEF IsOutcome
    <2> HIDE DEF x
    <2> QED
      BY <1>1, <1>3, <2>3, <2>4, <2>5, <2>10, OnePostingExplained
  <1> QED
    BY <1>4, <1>5, <1>6 DEF ReverseAdjustment

\* The first of a document's postings that are left.
LEMMA NextPosting ==
    ASSUME NEW S, NEW all \in Seq(S), NEW n \in 0..Len(all), NEW rest, rest = SubSeq(all, n + 1, Len(all)),
           rest # <<>>
    PROVE  /\ n < Len(all) /\ n + 1 \in 0..Len(all)
           /\ Head(rest) = all[n + 1] /\ all[n + 1] \in S
           /\ Tail(rest) = SubSeq(all, (n + 1) + 1, Len(all))
           /\ SubSeq(all, 1, n) \in Seq(S)
           /\ SubSeq(all, 1, n + 1) = Append(SubSeq(all, 1, n), all[n + 1])
  <1> DEFINE m == Len(all)
  <1>1. m \in Nat /\ n \in Nat /\ n <= m
    OBVIOUS
  <1>2. n < m
    BY <1>1
  <1>3. all[n + 1] \in S
    BY <1>1, <1>2, ElementOfSeq
  <1>4. \A i \in 1..m : all[i] \in S
    BY ElementOfSeq
  <1>5. /\ rest \in Seq(S) /\ Len(rest) = m - n /\ \A i \in 1..(m - n) : rest[i] = all[n + i]
    <2>1. \A i \in (n + 1)..m : all[i] \in S
      BY <1>1, <1>4
    <2>2. /\ rest \in Seq(S)
          /\ Len(rest) = IF n + 1 <= m THEN m - (n + 1) + 1 ELSE 0
          /\ \A i \in 1..(m - (n + 1) + 1) : rest[i] = all[(n + 1) + i - 1]
      BY <1>1, <2>1, SubSeqProperties
    <2> HIDE DEF m
    <2> QED
      BY <1>1, <1>2, <2>2
  <1>6. /\ SubSeq(all, 1, n) \in Seq(S) /\ Len(SubSeq(all, 1, n)) = n
        /\ \A i \in 1..n : SubSeq(all, 1, n)[i] = all[i]
    <2>1. /\ SubSeq(all, 1, n) \in Seq(S)
          /\ Len(SubSeq(all, 1, n)) = IF 1 <= n THEN n - 1 + 1 ELSE 0
          /\ \A i \in 1..(n - 1 + 1) : SubSeq(all, 1, n)[i] = all[1 + i - 1]
      <3>1. \A i \in 1..n : all[i] \in S
        BY <1>1, <1>4
      <3> QED
        BY <1>1, <3>1, SubSeqProperties
    <2> HIDE DEF m
    <2> QED
      BY <1>1, <2>1
  <1>7. /\ SubSeq(all, 1, n + 1) \in Seq(S) /\ Len(SubSeq(all, 1, n + 1)) = n + 1
        /\ \A i \in 1..(n + 1) : SubSeq(all, 1, n + 1)[i] = all[i]
    <2>1. /\ SubSeq(all, 1, n + 1) \in Seq(S)
          /\ Len(SubSeq(all, 1, n + 1)) = IF 1 <= n + 1 THEN (n + 1) - 1 + 1 ELSE 0
          /\ \A i \in 1..((n + 1) - 1 + 1) : SubSeq(all, 1, n + 1)[i] = all[1 + i - 1]
      <3>1. \A i \in 1..(n + 1) : all[i] \in S
        BY <1>1, <1>2, <1>4
      <3> QED
        BY <1>1, <1>2, <3>1, SubSeqProperties
    <2> HIDE DEF m
    <2> QED
      BY <1>1, <2>1
  <1>8. /\ SubSeq(all, (n + 1) + 1, m) \in Seq(S) /\ Len(SubSeq(all, (n + 1) + 1, m)) = m - n - 1
        /\ \A i \in 1..(m - n - 1) : SubSeq(all, (n + 1) + 1, m)[i] = all[n + 1 + i]
    <2>1. /\ SubSeq(all, (n + 1) + 1, m) \in Seq(S)
          /\ Len(SubSeq(all, (n + 1) + 1, m)) = IF (n + 1) + 1 <= m THEN m - ((n + 1) + 1) + 1 ELSE 0
          /\ \A i \in 1..(m - ((n + 1) + 1) + 1) : SubSeq(all, (n + 1) + 1, m)[i] = all[((n + 1) + 1) + i - 1]
      <3>1. \A i \in ((n + 1) + 1)..m : all[i] \in S
        BY <1>1, <1>4
      <3> QED
        BY <1>1, <1>2, <3>1, SubSeqProperties
    <2> HIDE DEF m
    <2> QED
      BY <1>1, <1>2, <2>1
  <1> HIDE DEF m
  <1>9. Head(rest) = all[n + 1]
    BY <1>1, <1>2, <1>5
  <1>10. Tail(rest) = SubSeq(all, (n + 1) + 1, m)
    <2>1. /\ Tail(rest) \in Seq(S) /\ Len(Tail(rest)) = m - n - 1
          /\ \A i \in 1..(m - n - 1) : Tail(rest)[i] = rest[i + 1]
      BY <1>1, <1>2, <1>5, HeadTailProperties
    <2>2. \A i \in 1..(m - n - 1) : i + 1 \in 1..(m - n) /\ n + (i + 1) = n + 1 + i
      BY <1>1
    <2>3. \A i \in 1..(m - n - 1) : Tail(rest)[i] = SubSeq(all, (n + 1) + 1, m)[i]
      BY <1>5, <1>8, <2>1, <2>2
    <2> QED
      BY <1>8, <2>1, <2>3, SeqEqual
  <1>11. SubSeq(all, 1, n + 1) = Append(SubSeq(all, 1, n), all[n + 1])
    <2> DEFINE one == Append(SubSeq(all, 1, n), all[n + 1])
    <2>1. /\ one \in Seq(S) /\ Len(one) = n + 1 /\ one[n + 1] = all[n + 1]
          /\ \A i \in 1..n : one[i] = all[i]
      BY <1>1, <1>3, <1>6, AppendProperties
    <2> HIDE DEF one
    <2>2. \A i \in 1..(n + 1) : SubSeq(all, 1, n + 1)[i] = one[i]
      <3>1. \A i \in 1..(n + 1) : i \in 1..n \/ i = n + 1
        BY <1>1
      <3> QED
        BY <1>7, <2>1, <3>1
    <2>3. SubSeq(all, 1, n + 1) = one
      BY <1>7, <2>1, <2>2, SeqEqual
    <2> QED
      BY <2>3 DEF one
  <1> QED
    BY <1>1, <1>2, <1>3, <1>6, <1>9, <1>10, <1>11 DEF m

\* A document's view is what its first postings make of the snapshot.
LEMMA DocumentExplained ==
    ASSUME InventoryInv, AllExplained, NEW p \in Procs, Document(p)
    PROVE  AllExplained'
  <1> DEFINE t   == tx[p]
             all == t.command.postings
             x   == Head(t.todo)
             u   == [t EXCEPT !.todo = Tail(@)]
             v   == [u EXCEPT !.view = Post(u.view, x)]
  <1>1. t.pc = "open" /\ t.command.op = "DOCUMENT" /\ t.command \in DocumentCommands
    BY HandlerFacts, CommandKinds DEF Document, Opened
  <1>2. t \in Transactions /\ HandlerSound(t) /\ t.view \in Inventories
    BY HandlerFacts
  <1>3. PartlyPosted(t) /\ BaseSound(t) /\ t.index = 0
    BY <1>1 DEF AllExplained, Explained
  <1>4. all \in Seq(DocumentPostings) /\ DocumentPostings \subseteq Postings
    BY <1>1 DEF DocumentCommands, DocumentPostings
  <1>5. PICK n \in 0..Len(all) : /\ t.todo = SubSeq(all, n + 1, Len(all))
                                /\ PostAll(Past(t), SubSeq(all, 1, n)) = Present(t.view)
    BY <1>3 DEF PartlyPosted
  <1>6. CASE t.todo = <<>> /\ Continue(p, Done(t))
    <2>1. SubSeq(all, 1, n) = all
      <3>1. n = Len(all)
        <4>1. n \in Nat /\ Len(all) \in Nat /\ n <= Len(all)
          BY <1>4
        <4>2. Len(SubSeq(all, n + 1, Len(all))) = IF n + 1 <= Len(all) THEN Len(all) - (n + 1) + 1 ELSE 0
          <5>1. \A i \in (n + 1)..Len(all) : all[i] \in DocumentPostings
            BY <1>4, <4>1, ElementOfSeq
          <5> HIDE DEF all
          <5> QED
            BY <1>4, <4>1, <5>1, SubSeqProperties
        <4>3. Len(SubSeq(all, n + 1, Len(all))) = 0
          BY <1>5, <1>6
        <4> HIDE DEF all
        <4> QED
          BY <4>1, <4>2, <4>3
      <3> HIDE DEF all
      <3> QED
        BY <1>4, <3>1
    <2>2. all \in Seq(Postings) /\ IsOutcome(t.command, Past(t).posted, all)
      BY <1>1, <1>4 DEF IsOutcome
    <2>3. Worked(t)
      BY <1>5, <2>1, <2>2 DEF Worked
    <2>4. Explained(Done(t))
      BY <1>1, <1>2, <1>3, <2>3, DoneExplained
    <2> QED
      BY <1>6, <2>4, ContinueExplained
  <1>7. CASE t.todo # <<>> /\ PostOrFail(p, u, x)
    <2>1. t.todo \in Seq(DocumentPostings)
      BY <1>2 DEF Transactions
    <2>2. x \in DocumentPostings /\ Tail(t.todo) \in Seq(DocumentPostings)
      BY <1>7, <2>1
    <2>3. /\ u \in Transactions
          /\ u.pc = "open" /\ u.index = t.index
          /\ u.command = t.command /\ u.base = t.base /\ u.view = t.view /\ u.todo = Tail(t.todo)
      BY <1>1, <1>2, <2>2 DEF Transactions
    <2>4. x \in Postings /\ ReversalAllowed(t.view, x)
      BY <2>2 DEF DocumentPostings, ReversalAllowed
    <2>5. /\ n + 1 \in 0..Len(all) /\ x = all[n + 1] /\ Tail(t.todo) = SubSeq(all, (n + 1) + 1, Len(all))
          /\ SubSeq(all, 1, n) \in Seq(Postings)
          /\ SubSeq(all, 1, n + 1) = Append(SubSeq(all, 1, n), x)
      <3>1. all \in Seq(Postings)
        BY <1>4
      <3> HIDE DEF all
      <3> QED
        BY <1>5, <1>7, <3>1, NextPosting
    <2>6. CASE ~CanPost(u.view, x)
      BY <1>7, <2>6, RollBackExplained DEF PostOrFail
    <2>7. CASE CanPost(u.view, x)
      <3>1. Continue(p, v)
        BY <1>7, <2>7 DEF PostOrFail
      <3>2. /\ v \in Transactions /\ v.view = Post(t.view, x) /\ v.todo = Tail(t.todo)
            /\ v.pc = "open" /\ v.index = t.index /\ v.command = t.command /\ v.base = t.base
        <4>1. Post(t.view, x) \in Inventories
          BY <1>2, <2>4, PostType
        <4> HIDE DEF t, x, u
        <4> QED
          BY <2>3, <4>1 DEF Transactions
      <3>3. Past(v) = Past(t) /\ BaseSound(v) /\ Present(v.view) = OneMore(Present(t.view), x)
        <4> HIDE DEF t, x, u, v
        <4> QED
          BY <1>2, <1>3, <2>3, <2>4, <2>7, <3>2, PostedPast
      <3>4. PostAll(Past(v), SubSeq(all, 1, n + 1)) = Present(v.view)
        <4>1. PostAll(Past(t), Append(SubSeq(all, 1, n), x)) = OneMore(PostAll(Past(t), SubSeq(all, 1, n)), x)
          <5> HIDE DEF x, all
          <5> QED
            BY <2>4, <2>5, PostAllAppend
        <4> QED
          BY <1>5, <2>5, <3>3, <4>1
      <3>5. PartlyPosted(v)
        <4> HIDE DEF t, x, u, v
        <4> QED
          BY <2>5, <3>2, <3>4 DEF PartlyPosted
      <3>6. Explained(v)
        <4> HIDE DEF t, x, u, v
        <4> QED
          BY <1>1, <1>3, <3>2, <3>3, <3>5 DEF Explained
      <3> HIDE DEF v
      <3> QED
        BY <3>1, <3>6, ContinueExplained
    <2> QED
      BY <2>6, <2>7
  <1> QED
    BY <1>6, <1>7 DEF Document

\* What source i of a transfer had available at the snapshot.
Available(t) ==
    [i \in DOMAIN t.command.sources |-> t.base[t.command.sources[i]].quantities.available]

\* What the sources from one on have available.
LEMMA RestOfSources ==
    ASSUME NEW t \in Transactions, BaseSound(t), t.command \in TransferCommands
    PROVE  /\ \A i \in 1..Len(t.command.sources) : Available(t)[i] \in Nat
           /\ \A k \in 0..Len(t.command.sources) :
                SumFunctionOnSet(Available(t), (k + 1)..Len(t.command.sources)) \in Nat
           /\ \A k \in 0..Len(t.command.sources) : k < Len(t.command.sources) =>
                SumFunctionOnSet(Available(t), (k + 1)..Len(t.command.sources)) =
                  SumFunctionOnSet(Available(t), ((k + 1) + 1)..Len(t.command.sources)) + Available(t)[k + 1]
           /\ SumFunctionOnSet(Available(t), (Len(t.command.sources) + 1)..Len(t.command.sources)) = 0
  <1> DEFINE all == t.command.sources
             m   == Len(all)
             f   == Available(t)
  <1>1. all \in Seq(Balances) /\ m \in Nat /\ DOMAIN all = 1..m
    BY DEF TransferCommands
  <1>2. \A i \in 1..m : f[i] \in Nat
    <2>1. ASSUME NEW i \in 1..m
          PROVE  f[i] \in Nat
      <3>1. all[i] \in Balances
        BY <1>1, ElementOfSeq
      <3>2. t.base[all[i]].quantities \in Quantities /\ NonNegative(t.base[all[i]].quantities)
        BY <3>1 DEF Transactions, Rows, BaseSound
      <3>3. f[i] = t.base[all[i]].quantities.available
        BY <1>1 DEF Available
      <3> HIDE DEF f
      <3> QED
        BY <3>2, <3>3 DEF NonNegative, Quantities
    <2> QED
      BY <2>1
  <1> HIDE DEF m, f
  <1>3. ASSUME NEW k \in Nat
        PROVE  /\ IsFiniteSet((k + 1)..m) /\ Fold!IsFiniteSet((k + 1)..m)
               /\ \A i \in (k + 1)..m : f[i] \in Nat
               /\ Fold!IntegersOn(f, (k + 1)..m)
    <2>1. k + 1 \in Int /\ m \in Int
      BY <1>1
    <2>2. IsFiniteSet((k + 1)..m)
      BY <2>1, FS_Interval
    <2>3. \A i \in (k + 1)..m : i \in 1..m
      BY <1>1
    <2>4. \A i \in (k + 1)..m : f[i] \in Nat
      BY <1>2, <2>3
    <2> QED
      BY <2>2, <2>4, FiniteIsFinite DEF Fold!IntegersOn
  <1>4. ASSUME NEW k \in 0..m
        PROVE  SumFunctionOnSet(f, (k + 1)..m) \in Nat
    <2>1. k \in Nat
      BY <1>1
    <2> DEFINE S == (k + 1)..m
    <2>2. Fold!IsFiniteSet(S) /\ \A i \in S : f[i] \in Nat
      BY <1>3, <2>1
    <2> HIDE DEF S
    <2>3. Fold!SumFunctionOnSet(f, S) \in Nat
      BY <2>2, Fold!SumOfNaturals
    <2> QED
      BY <2>3, SumIsSum DEF S
  <1>5. ASSUME NEW k \in 0..m, k < m
        PROVE  SumFunctionOnSet(f, (k + 1)..m) = SumFunctionOnSet(f, ((k + 1) + 1)..m) + f[k + 1]
    <2> DEFINE S == ((k + 1) + 1)..m
               x == k + 1
    <2>1. k \in Nat /\ k + 1 \in Nat /\ k + 1 \in 1..m
      BY <1>1, <1>5
    <2>2. Fold!IsFiniteSet(S) /\ Fold!IntegersOn(f, S) /\ x \notin S /\ f[x] \in Int
      <3>1. x \notin S
        BY <2>1
      <3>2. f[x] \in Int
        BY <1>2, <2>1
      <3> HIDE DEF x
      <3> QED
        BY <1>3, <2>1, <3>1, <3>2 DEF x
    <2>3. (k + 1)..m = S \cup {x}
      BY <1>1, <1>5
    <2> HIDE DEF S, x
    <2>4. Fold!SumFunctionOnSet(f, S \cup {x}) = Fold!SumFunctionOnSet(f, S) + f[x]
      BY <2>2, Fold!SumWithOneMore
    <2> QED
      BY <2>3, <2>4, SumIsSum DEF S, x
  <1>6. SumFunctionOnSet(f, (m + 1)..m) = 0
    <2>1. (m + 1)..m = {}
      BY <1>1
    <2> QED
      BY <2>1, SumIsSum, Fold!SumOfNone
  <1> QED
    BY <1>2, <1>4, <1>5, <1>6 DEF f, m

\* The checks of a transfer lead to its loop, with nothing moved yet.
LEMMA TransferExplained ==
    ASSUME InventoryInv, AllExplained, NEW p \in Procs, Transfer(p)
    PROVE  AllExplained'
  <1> DEFINE t == tx[p]
             c == t.command
             u == [t EXCEPT !.pc = "transferring", !.sources = c.sources, !.remaining = c.quantity]
  <1>1. t.pc = "open" /\ c \in TransferCommands /\ c.op = "TRANSFER"
    BY HandlerFacts, CommandKinds DEF Transfer, Opened
  <1>2. t \in Transactions /\ HandlerSound(t) /\ t.view \in Inventories
    BY HandlerFacts
  <1>3. BaseSound(t) /\ t.index = 0 /\ Present(t.view) = Past(t)
    BY <1>1 DEF AllExplained, Explained
  <1>4. CASE RollBack(p)
    BY <1>4, RollBackExplained
  <1>5. CASE Continue(p, Done(t))
    <2>1. Worked(t)
      BY <1>3 DEF Worked
    <2>2. Explained(Done(t))
      BY <1>1, <1>2, <1>3, <2>1, DoneExplained
    <2> QED
      BY <1>5, <2>2, ContinueExplained
  <1>6. CASE /\ ~TransferDone(t.view, c) /\ c.quantity > 0 /\ TotalAvailable(t.base, c.sources) >= c.quantity
             /\ Continue(p, u)
    <2>1. c.sources \in Seq(Balances) /\ c.quantity \in Int
      BY <1>1 DEF TransferCommands
    <2>2. /\ u \in Transactions /\ u.pc = "transferring" /\ u.command = c /\ u.base = t.base /\ u.view = t.view
          /\ u.index = 0 /\ u.sources = c.sources /\ u.remaining = c.quantity
      BY <1>2, <1>3, <2>1 DEF Transactions
    <2> HIDE DEF u
    <2>3. Past(u) = Past(t) /\ BaseSound(u)
      BY <1>2, <1>3, <2>2, SamePast
    <2>4. NotStarted(Past(u).posted, c)
      <3>1. Past(t).posted = BookOf(t.view.moves)
        BY <1>2, <1>3, PresentType
      <3>2. ASSUME NEW x \in Past(u).posted, x.key.kind \in {"TRANSFER_OUT", "TRANSFER_IN"}, x.key.client = c.client
            PROVE  FALSE
        <4>1. PICK b \in Balances : \E i \in DOMAIN t.view.moves[b] : x = t.view.moves[b][i].posting
          BY <2>3, <3>1 DEF BookOf
        <4>2. PICK i \in DOMAIN t.view.moves[b] : x = t.view.moves[b][i].posting
          BY <4>1
        <4> HIDE DEF t, c
        <4>3. TransferDone(t.view, c)
          BY <3>2, <4>2 DEF TransferDone
        <4> QED
          BY <1>6, <4>3
      <3> QED
        BY <3>2 DEF NotStarted
    <2>5. <<>> \in Legs(c, 0) /\ Abstract!Pairs(c, <<>>) = <<>> /\ MovedBy(<<>>, 0) = 0
      BY NoLegs
    <2>6. InOrder(<<>>, 0) /\ \A i \in 1..0 : <<>>[i].at <= 0
      BY DEF InOrder
    <2>7. /\ SubSeq(c.sources, 0 + 1, Len(c.sources)) = c.sources
          /\ 0 \in 0..Len(c.sources) /\ DOMAIN c.sources = (0 + 1)..Len(c.sources)
      BY <2>1
    <2>8. c.quantity <= SumFunctionOnSet(Available(u), (0 + 1)..Len(c.sources))
      <3>1. TotalAvailable(t.base, c.sources) = SumFunctionOnSet(Available(u), (0 + 1)..Len(c.sources))
        BY <2>2, <2>7 DEF TotalAvailable, Available
      <3>2. SumFunctionOnSet(Available(u), (0 + 1)..Len(c.sources)) \in Nat
        BY <1>1, <2>2, <2>3, <2>7, RestOfSources
      <3> QED
        BY <1>6, <2>1, <3>1, <3>2
    <2>9. UnderWay(u, 0, <<>>)
      <3>1. c.quantity = c.quantity - 0 /\ c.quantity >= 0 /\ 0 <= 0
        BY <1>6, <2>1
      <3>2. PostAll(Past(u), Abstract!Pairs(c, <<>>)) = Present(u.view)
        BY <1>3, <2>2, <2>3, <2>5, PostAllNone
      <3> QED
        BY <2>2, <2>5, <2>6, <2>7, <2>8, <3>1, <3>2 DEF UnderWay, Available
    <2>10. InLoop(u)
      BY <1>6, <2>2, <2>4, <2>5, <2>7, <2>9 DEF InLoop
    <2>11. Explained(u)
      BY <2>2, <2>3, <2>10 DEF Explained
    <2> QED
      BY <1>6, <2>11, ContinueExplained
  <1> HIDE DEF t, u
  <1> QED
    BY <1>4, <1>5, <1>6 DEF Transfer, t, u

\* The loop ends with all of the quantity moved.
LEMMA TransferEndExplained ==
    ASSUME InventoryInv, AllExplained, NEW p \in Procs, TransferEnd(p)
    PROVE  AllExplained'
  <1> DEFINE t == tx[p]
             c == t.command
             n == t.index
  <1>1. t.pc = "transferring" /\ (t.sources = <<>> \/ t.remaining <= 0) /\ Continue(p, Done(t))
    BY DEF TransferEnd
  <1>2. t \in Transactions /\ HandlerSound(t) /\ t.view \in Inventories /\ n \in Nat /\ t.remaining \in Int
    BY HandlerFacts DEF Transactions
  <1>3. c \in TransferCommands /\ c.op = "TRANSFER"
    <2>1. c \in Commands /\ c.op = "TRANSFER"
      BY <1>1, HandlerFacts
    <2> QED
      BY <2>1, CommandKinds
  <1>4. BaseSound(t) /\ InLoop(t)
    BY <1>1 DEF AllExplained, Explained
  <1>5. c.sources \in Seq(Balances) /\ Len(c.sources) \in Nat /\ c.quantity \in Int /\ c.quantity > 0
    BY <1>3, <1>4 DEF TransferCommands, InLoop
  <1>6. PICK k \in 0..Len(c.sources) : \E legs \in Legs(c, n) : UnderWay(t, k, legs)
    BY <1>4 DEF InLoop
  <1>7. PICK legs \in Legs(c, n) : UnderWay(t, k, legs)
    BY <1>6
  <1> HIDE DEF t
  <1>8. t.remaining = 0
    <2>1. t.remaining >= 0
      BY <1>7 DEF UnderWay
    <2>2. CASE t.sources = <<>>
      <3>1. k = Len(c.sources)
        <4>1. SubSeq(c.sources, k + 1, Len(c.sources)) = <<>>
          BY <1>7, <2>2 DEF UnderWay
        <4>2. Len(SubSeq(c.sources, k + 1, Len(c.sources))) =
                IF k + 1 <= Len(c.sources) THEN Len(c.sources) - (k + 1) + 1 ELSE 0
          <5>1. k + 1 \in 1..(Len(c.sources) + 1)
            BY <1>5
          <5>2. \A i \in (k + 1)..Len(c.sources) : c.sources[i] \in Balances
            BY <1>5, ElementOfSeq
          <5> HIDE DEF c
          <5> QED
            BY <1>5, <5>1, <5>2, SubSeqProperties
        <4>3. Len(SubSeq(c.sources, k + 1, Len(c.sources))) = 0
          BY <4>1
        <4>4. \A m \in Nat : k \in 0..m /\ 0 = (IF k + 1 <= m THEN m - (k + 1) + 1 ELSE 0) => k = m
          OBVIOUS
        <4> QED
          BY <1>5, <4>2, <4>3, <4>4
      <3>2. SumFunctionOnSet(Available(t), (k + 1)..Len(c.sources)) = 0
        BY <1>2, <1>3, <1>4, <3>1, RestOfSources
      <3>3. t.remaining <= SumFunctionOnSet(Available(t), (k + 1)..Len(c.sources))
        BY <1>7 DEF UnderWay, Available
      <3> QED
        BY <1>2, <2>1, <3>2, <3>3
    <2>3. CASE t.remaining <= 0
      BY <1>2, <2>1, <2>3
    <2> QED
      BY <1>1, <2>2, <2>3
  <1>9. MovedBy(legs, n) \in Int /\ MovedBy(legs, n) = c.quantity
    <2>1. t.remaining = c.quantity - MovedBy(legs, n)
      BY <1>7 DEF UnderWay
    <2>2. MovedBy(legs, n) \in Int
      BY <1>2, MovedByType
    <2> HIDE DEF c, n
    <2> QED
      BY <1>5, <1>8, <2>1, <2>2
  <1>10. n \in 1..Len(c.sources)
    <2>1. n # 0
      <3>1. SUFFICES ASSUME n = 0 PROVE FALSE
        OBVIOUS
      <3>2. legs \in [1..0 -> Leg(c)] /\ 1..0 = {}
        BY <3>1 DEF Legs, Leg
      <3>3. MovedBy(legs, n) = 0
        BY <3>1, <3>2, SumIsSum, Fold!SumOfNone DEF MovedBy
      <3> QED
        BY <1>5, <1>9, <3>3
    <2>2. n <= k
      BY <1>7 DEF UnderWay
    <2> HIDE DEF n, c
    <2> QED
      BY <1>2, <1>5, <2>1, <2>2
  <1>11. AllMoved(c, n, legs)
    BY <1>7, <1>9, <1>10 DEF AllMoved, UnderWay
  <1>12. Abstract!Pairs(c, legs) \in Seq(Postings)
    <2>1. legs[1] \in Leg(c)
      BY <1>10, <1>5 DEF Legs, Leg
    <2> HIDE DEF c, n
    <2> QED
      BY <1>2, <1>3, <1>7, <2>1, OneMoreLeg
  <1>13. ~Taken(Past(t).posted, TransferIn(c, c.quantity, 0).key)
    <2>1. NotStarted(Past(t).posted, c)
      BY <1>4 DEF InLoop
    <2>2. TransferIn(c, c.quantity, 0).key.kind = "TRANSFER_IN" /\ TransferIn(c, c.quantity, 0).key.client = c.client
      BY DEF TransferIn, Posting, Key
    <2> QED
      BY <2>1, <2>2 DEF NotStarted, Taken
  <1>14. IsOutcome(c, Past(t).posted, Abstract!Pairs(c, legs))
    BY <1>3, <1>10, <1>11, <1>13 DEF IsOutcome
  <1>15. Worked(t)
    BY <1>7, <1>12, <1>14 DEF Worked, UnderWay
  <1>16. Explained(Done(t))
    BY <1>1, <1>2, <1>4, <1>15, DoneExplained
  <1> QED
    BY <1>1, <1>16, ContinueExplained DEF t

\* The source the loop is at.
LEMMA AtSource ==
    ASSUME NEW t \in Transactions, t.command \in TransferCommands,
           NEW k \in 0..Len(t.command.sources), NEW legs, UnderWay(t, k, legs), t.sources # <<>>
    PROVE  /\ k < Len(t.command.sources) /\ k + 1 \in 0..Len(t.command.sources)
           /\ k + 1 \in DOMAIN t.command.sources
           /\ Head(t.sources) = t.command.sources[k + 1] /\ Head(t.sources) \in Balances
           /\ Tail(t.sources) = SubSeq(t.command.sources, (k + 1) + 1, Len(t.command.sources))
           /\ Available(t)[k + 1] = t.base[Head(t.sources)].quantities.available
  <1> DEFINE all == t.command.sources
  <1>1. all \in Seq(Balances) /\ t.sources = SubSeq(all, k + 1, Len(all))
    BY DEF TransferCommands, UnderWay
  <1>2. /\ k < Len(all) /\ k + 1 \in 0..Len(all)
        /\ Head(t.sources) = all[k + 1] /\ all[k + 1] \in Balances
        /\ Tail(t.sources) = SubSeq(all, (k + 1) + 1, Len(all))
    <2> HIDE DEF all
    <2>1. k \in 0..Len(all)
      BY DEF all
    <2> QED
      BY <1>1, <2>1, NextPosting
  <1>3. k + 1 \in DOMAIN all
    BY <1>1, <1>2
  <1> QED
    BY <1>1, <1>2, <1>3 DEF Available

\* A source that has nothing adds nothing to what is left.
LEMMA SkipExplained ==
    ASSUME NEW t \in Transactions, HandlerSound(t), Explained(t), t.pc = "transferring",
           t.command \in TransferCommands, t.sources # <<>>, t.remaining > 0,
           Lesser(t.base[Head(t.sources)].quantities.available, t.remaining) <= 0,
           NEW u \in Transactions, u.pc = t.pc, u.command = t.command, u.base = t.base, u.view = t.view,
           u.index = t.index, u.remaining = t.remaining, u.sources = Tail(t.sources)
    PROVE  Explained(u)
  <1> DEFINE c == t.command
  <1>1. BaseSound(t) /\ InLoop(t)
    BY DEF Explained
  <1>2. PICK k \in 0..Len(c.sources) : \E legs \in Legs(c, t.index) : UnderWay(t, k, legs)
    BY <1>1 DEF InLoop
  <1>3. PICK legs \in Legs(c, t.index) : UnderWay(t, k, legs)
    BY <1>2
  <1>4. /\ k < Len(c.sources) /\ k + 1 \in 0..Len(c.sources) /\ Head(t.sources) = c.sources[k + 1]
        /\ k + 1 \in DOMAIN c.sources /\ Head(t.sources) \in Balances
        /\ Tail(t.sources) = SubSeq(c.sources, (k + 1) + 1, Len(c.sources))
        /\ Available(t)[k + 1] = t.base[Head(t.sources)].quantities.available
    BY <1>3, AtSource
  <1>5. /\ Past(u) = Past(t) /\ BaseSound(u)
    BY <1>1, SamePast
  <1>6. t.remaining \in Int /\ t.index \in Nat /\ c.sources \in Seq(Balances) /\ Len(c.sources) \in Nat
    BY DEF Transactions, TransferCommands
  <1>7. /\ Available(t)[k + 1] \in Nat
        /\ SumFunctionOnSet(Available(t), ((k + 1) + 1)..Len(c.sources)) \in Nat
        /\ SumFunctionOnSet(Available(t), (k + 1)..Len(c.sources)) =
             SumFunctionOnSet(Available(t), ((k + 1) + 1)..Len(c.sources)) + Available(t)[k + 1]
    <2>1. k + 1 \in 1..Len(c.sources)
      BY <1>4, <1>6
    <2> QED
      BY <1>1, <1>4, <2>1, RestOfSources
  <1> HIDE DEF c
  <1>8. Available(t)[k + 1] = 0
    BY <1>4, <1>6, <1>7 DEF Lesser
  <1>9. t.remaining <= SumFunctionOnSet(Available(t), ((k + 1) + 1)..Len(c.sources))
    <2>1. t.remaining <= SumFunctionOnSet(Available(t), (k + 1)..Len(c.sources))
      BY <1>3 DEF UnderWay, Available, c
    <2> QED
      BY <1>7, <1>8, <2>1
  <1>10. /\ t.index <= k + 1
         /\ \A i \in 1..t.index : legs[i].at <= k + 1
    <2>1. t.index <= k /\ \A i \in 1..t.index : legs[i].at <= k
      BY <1>3 DEF UnderWay
    <2>2. \A i \in 1..t.index : legs[i].at \in Int
      BY <1>6 DEF Legs, c
    <2> QED
      BY <1>6, <2>1, <2>2
  <1>11. UnderWay(u, k + 1, legs)
    BY <1>3, <1>4, <1>5, <1>9, <1>10 DEF UnderWay, Available, c
  <1>12. InLoop(u)
    <2>1. u.command.quantity > 0 /\ NotStarted(Past(u).posted, u.command)
      BY <1>1, <1>5 DEF InLoop
    <2> QED
      BY <1>3, <1>4, <1>11, <2>1 DEF InLoop, c
  <1> QED
    BY <1>5, <1>12 DEF Explained

\* A round of the loop moves q and is not refused.
LegDue(t, q, out, into) ==
    /\ q \in Int /\ q > 0 /\ q = Lesser(t.base[Head(t.sources)].quantities.available, t.remaining)
    /\ out = TransferOut(t.command, Head(t.sources), q, t.index)
    /\ into = TransferIn(t.command, q, t.index)
    /\ CanPost(t.view, out) /\ CanPost(Post(t.view, out), into)

\* The transaction after it.
LegMade(t, q, out, into, u) ==
    /\ u.pc = t.pc /\ u.command = t.command /\ u.base = t.base
    /\ u.view = Post(Post(t.view, out), into)
    /\ u.index = t.index + 1 /\ u.remaining = t.remaining - q /\ u.sources = Tail(t.sources)

\* A source that has something makes one more leg.
LEMMA LegExplained ==
    ASSUME InventoryInv, NEW t \in Transactions, HandlerSound(t), Explained(t), t.pc = "transferring",
           t.command \in TransferCommands, t.command.op = "TRANSFER", t.sources # <<>>, t.remaining > 0,
           NEW q, NEW out, NEW into, LegDue(t, q, out, into), NEW u \in Transactions, LegMade(t, q, out, into, u)
    PROVE  Explained(u)
  <1> DEFINE c == t.command
             n == t.index
  <1>1. BaseSound(t) /\ InLoop(t)
    BY DEF Explained
  <1>2. PICK k \in 0..Len(c.sources) : \E legs \in Legs(c, n) : UnderWay(t, k, legs)
    BY <1>1 DEF InLoop
  <1>3. PICK legs \in Legs(c, n) : UnderWay(t, k, legs)
    BY <1>2
  <1>4. /\ k < Len(c.sources) /\ k + 1 \in 0..Len(c.sources) /\ Head(t.sources) = c.sources[k + 1]
        /\ k + 1 \in DOMAIN c.sources /\ Head(t.sources) \in Balances
        /\ Tail(t.sources) = SubSeq(c.sources, (k + 1) + 1, Len(c.sources))
        /\ Available(t)[k + 1] = t.base[Head(t.sources)].quantities.available
    BY <1>3, AtSource
  <1>5. /\ t.remaining \in Int /\ n \in Nat /\ c.sources \in Seq(Balances) /\ Len(c.sources) \in Nat
        /\ c.quantity \in Int /\ t.view \in Inventories /\ k \in Int
    BY DEF Transactions, TransferCommands
  <1>6. /\ Available(t)[k + 1] \in Nat
        /\ SumFunctionOnSet(Available(t), ((k + 1) + 1)..Len(c.sources)) \in Nat
        /\ SumFunctionOnSet(Available(t), (k + 1)..Len(c.sources)) =
             SumFunctionOnSet(Available(t), ((k + 1) + 1)..Len(c.sources)) + Available(t)[k + 1]
    <2>1. k + 1 \in 1..Len(c.sources)
      BY <1>4, <1>5
    <2> QED
      BY <1>1, <1>4, <2>1, RestOfSources
  <1>7. MovedBy(legs, n) \in Nat
    BY <1>5, MovedByType
  <1> HIDE DEF c, n
  <1>8. /\ t.remaining = c.quantity - MovedBy(legs, n)
        /\ t.remaining <= SumFunctionOnSet(Available(t), (k + 1)..Len(c.sources))
        /\ n <= k /\ InOrder(legs, n) /\ \A i \in 1..n : legs[i].at <= k
        /\ PostAll(Past(t), Abstract!Pairs(c, legs)) = Present(t.view)
    BY <1>3 DEF UnderWay, Available, c, n
  <1>9. /\ q \in 1..c.quantity /\ q \in Int
        /\ t.remaining - q >= 0
        /\ t.remaining - q <= SumFunctionOnSet(Available(t), ((k + 1) + 1)..Len(c.sources))
    <2>1. q = Lesser(Available(t)[k + 1], t.remaining)
      BY <1>4 DEF LegDue
    <2>2. q \in Int /\ q > 0 /\ q <= t.remaining /\ (q = Available(t)[k + 1] \/ q = t.remaining)
      <3>1. q > 0
        BY DEF LegDue
      <3>2. q \in Int /\ q <= t.remaining /\ (q = Available(t)[k + 1] \/ q = t.remaining)
        BY <1>5, <1>6, <2>1 DEF Lesser
      <3> QED
        BY <3>1, <3>2
    <2>3. q <= c.quantity
      BY <1>5, <1>7, <1>8, <2>2
    <2> QED
      BY <1>5, <1>6, <1>8, <2>2, <2>3
  \* The leg is added to those made so far.
  <1> DEFINE leg  == [at |-> k + 1, quantity |-> q]
             more == Append(legs, leg)
  <1>10. leg \in Leg(c) /\ leg.at = k + 1 /\ leg.quantity = q
    BY <1>4, <1>9 DEF Leg
  <1>11. out = TransferOut(c, c.sources[leg.at], leg.quantity, n) /\ into = TransferIn(c, leg.quantity, n)
    BY <1>4, <1>10 DEF LegDue, c, n
  <1> HIDE DEF leg
  <1>12. /\ Abstract!Pairs(c, legs) \in Seq(Postings)
         /\ more \in Legs(c, n + 1)
         /\ \A i \in 1..n : more[i] = legs[i]
         /\ more[n + 1] = leg
         /\ Abstract!Pairs(c, more) = Append(Append(Abstract!Pairs(c, legs), out), into)
    <2>1. c \in TransferCommands
      BY DEF c
    <2> QED
      BY <1>3, <1>5, <1>10, <1>11, <2>1, OneMoreLeg
  <1> HIDE DEF more
  <1>13. MovedBy(more, n + 1) = MovedBy(legs, n) + q
    <2>1. MovedBy(more, n + 1) = MovedBy(legs, n) + more[n + 1].quantity
      BY <1>3, <1>5, <1>12, MovedByOneMore DEF c, n
    <2> QED
      BY <1>10, <1>12, <2>1
  <1>14. t.remaining - q = c.quantity - MovedBy(more, n + 1)
    BY <1>5, <1>7, <1>8, <1>9, <1>13
  <1>15. /\ InOrder(more, n + 1)
         /\ \A i \in 1..(n + 1) : more[i].at <= k + 1
         /\ n + 1 <= k + 1
    <2>1. \A i \in 1..n : legs[i].at \in Int
      BY <1>3, <1>5 DEF Legs, c, n
    <2>2. \A i \in 1..(n + 1) : i \in 1..n \/ i = n + 1
      BY <1>5
    <2>3. \A i \in 1..n : more[i].at <= k + 1 /\ more[i].at < k + 1 /\ more[i].at = legs[i].at
      BY <1>5, <1>8, <1>12, <2>1
    <2>4. more[n + 1].at = k + 1
      BY <1>10, <1>12
    <2>5. ASSUME NEW i \in 1..(n + 1), NEW j \in 1..(n + 1), i < j
          PROVE  more[i].at < more[j].at
      <3>1. i \in 1..n
        BY <1>5, <2>5
      <3>2. CASE j \in 1..n
        BY <1>8, <2>3, <2>5, <3>1, <3>2 DEF InOrder
      <3>3. CASE j = n + 1
        BY <2>3, <2>4, <3>1, <3>3
      <3> QED
        BY <2>2, <3>2, <3>3
    <2>6. \A i \in 1..(n + 1) : more[i].at <= k + 1
      BY <1>5, <2>2, <2>3, <2>4
    <2> QED
      BY <1>5, <1>8, <2>5, <2>6 DEF InOrder
  \* Both postings of the leg go on from what was posted.
  <1>16. out \in Postings /\ out.reversalOf = NoKey /\ into \in Postings /\ into.reversalOf = NoKey
    <2>1. c.sources[leg.at] \in Balances /\ leg.quantity \in Int /\ c \in TransferCommands
      BY <1>4, <1>9, <1>10 DEF c
    <2> QED
      BY <1>5, <1>11, <2>1, TransferPostingTypes
  <1>17. /\ Past(u) = Past(t) /\ BaseSound(u)
         /\ Present(u.view) = OneMore(OneMore(Present(t.view), out), into)
    <2>1. ReversalAllowed(t.view, out) /\ ReversalAllowed(Post(t.view, out), into)
      BY <1>16 DEF ReversalAllowed
    <2>2. /\ Post(t.view, out) \in Inventories /\ Sound(Post(t.view, out))
          /\ Extended(t.view.moves, Post(t.view, out).moves)
      BY <1>5, <1>16, <2>1, PostSound DEF HandlerSound, LegDue
    <2>3. /\ u.view \in Inventories /\ Extended(Post(t.view, out).moves, u.view.moves)
      BY <1>16, <2>1, <2>2, PostSound DEF LegMade, LegDue
    <2>4. Extended(t.view.moves, u.view.moves)
      BY <1>5, <2>2, <2>3, ExtendedTwice
    <2>5. Past(u) = Past(t) /\ BaseSound(u)
      BY <1>1, <2>4, PastKept DEF LegMade
    <2>6. Present(Post(t.view, out)) = OneMore(Present(t.view), out)
      BY <1>5, <1>16, PostIsOneMore DEF LegDue
    <2>7. Present(u.view) = OneMore(Present(Post(t.view, out)), into)
      BY <1>16, <2>2, PostIsOneMore DEF LegMade, LegDue
    <2> QED
      BY <2>5, <2>6, <2>7
  <1>18. PostAll(Past(u), Abstract!Pairs(c, more)) = Present(u.view)
    <2> DEFINE made == Abstract!Pairs(c, legs)
    <2>1. /\ made \in Seq(Postings) /\ Append(made, out) \in Seq(Postings)
          /\ PostAll(Past(t), made) = Present(t.view)
      BY <1>8, <1>12, <1>16
    <2> HIDE DEF made
    <2>2. PostAll(Past(t), Append(made, out)) = OneMore(PostAll(Past(t), made), out)
      BY <1>16, <2>1, PostAllAppend
    <2>3. PostAll(Past(t), Append(Append(made, out), into)) = OneMore(PostAll(Past(t), Append(made, out)), into)
      BY <1>16, <2>1, PostAllAppend
    <2> QED
      BY <1>12, <1>17, <2>1, <2>2, <2>3 DEF made
  <1>19. UnderWay(u, k + 1, more)
    BY <1>4, <1>9, <1>14, <1>15, <1>18 DEF UnderWay, Available, LegMade, c, n
  <1>20. InLoop(u)
    <2>1. u.command.quantity > 0 /\ NotStarted(Past(u).posted, u.command)
      BY <1>1, <1>17 DEF InLoop, LegMade
    <2>2. more \in Legs(u.command, u.index) /\ k + 1 \in 0..Len(u.command.sources)
      BY <1>4, <1>12 DEF LegMade, c, n
    <2> QED
      BY <1>19, <2>1, <2>2 DEF InLoop
  <1> QED
    BY <1>17, <1>20 DEF Explained, LegMade

\* A round of the transfer loop keeps the loop explained, or rolls back.
LEMMA TransferLegExplained ==
    ASSUME InventoryInv, AllExplained, NEW p \in Procs, TransferLeg(p)
    PROVE  AllExplained'
  <1> DEFINE t    == tx[p]
             q    == Lesser(t.base[Head(t.sources)].quantities.available, t.remaining)
             out  == TransferOut(t.command, Head(t.sources), q, t.index)
             into == TransferIn(t.command, q, t.index)
             skip == [t EXCEPT !.sources = Tail(@)]
             moved == [t EXCEPT !.sources = Tail(@), !.remaining = @ - q, !.index = @ + 1,
                                !.view = Post(@, out)]
  <1>1. t.pc = "transferring" /\ t.sources # <<>> /\ t.remaining > 0
    BY DEF TransferLeg
  <1>2. t \in Transactions /\ HandlerSound(t) /\ t.view \in Inventories /\ Explained(t)
    BY HandlerFacts DEF AllExplained
  <1>3. t.command \in TransferCommands /\ t.command.op = "TRANSFER"
    <2>1. t.command \in Commands /\ t.command.op = "TRANSFER"
      BY <1>1, HandlerFacts
    <2> QED
      BY <2>1, CommandKinds
  <1>4. /\ t.sources \in Seq(Balances) /\ t.base \in [Balances -> Rows]
        /\ t.remaining \in Int /\ t.index \in Nat
    BY <1>2 DEF Transactions
  <1>5. Head(t.sources) \in Balances /\ Tail(t.sources) \in Seq(Balances)
    BY <1>1, <1>4
  <1>6. q \in Int
    <2>1. t.base[Head(t.sources)].quantities.available \in Int
      BY <1>4, <1>5 DEF Rows, Quantities
    <2> QED
      BY <1>4, <2>1 DEF Lesser
  <1>7. CASE q <= 0 /\ Continue(p, skip)
    <2>1. /\ skip \in Transactions
          /\ skip.pc = t.pc /\ skip.command = t.command /\ skip.base = t.base /\ skip.view = t.view
          /\ skip.index = t.index /\ skip.remaining = t.remaining /\ skip.sources = Tail(t.sources)
      <3> HIDE DEF t
      <3> QED
        BY <1>2, <1>5 DEF Transactions
    <2> HIDE DEF skip, t
    <2>2. Explained(skip)
      BY <1>1, <1>2, <1>3, <1>7, <2>1, SkipExplained
    <2> QED
      BY <1>7, <2>2, ContinueExplained
  <1>8. CASE q > 0 /\ CanPost(t.view, out) /\ PostOrFail(p, moved, into)
    <2>1. out \in Postings /\ into \in Postings
      BY <1>4, <1>3, <1>5, <1>6, TransferPostingTypes
    <2>2. Post(t.view, out) \in Inventories
      BY <1>2, <2>1, PostType
    <2>3. Post(Post(t.view, out), into) \in Inventories
      BY <2>1, <2>2, PostType
    <2>4. q = Lesser(t.base[Head(t.sources)].quantities.available, t.remaining)
      OBVIOUS
    <2>5. out = TransferOut(t.command, Head(t.sources), q, t.index) /\ into = TransferIn(t.command, q, t.index)
      OBVIOUS
    <2> HIDE DEF t, q, out, into
    <2> DEFINE u == [moved EXCEPT !.view = Post(moved.view, into)]
    <2>6. moved.view = Post(t.view, out)
      BY <1>2 DEF Transactions
    <2>7. u \in Transactions /\ LegMade(t, q, out, into, u)
      <3>1. t.remaining - q \in Int /\ t.index + 1 \in Nat
        BY <1>4, <1>6
      <3>2. moved = [t EXCEPT !.sources = Tail(t.sources), !.remaining = t.remaining - q,
                              !.index = t.index + 1, !.view = Post(t.view, out)]
        BY <1>2 DEF Transactions
      <3>3. u = [t EXCEPT !.sources = Tail(t.sources), !.remaining = t.remaining - q,
                          !.index = t.index + 1, !.view = Post(Post(t.view, out), into)]
        BY <1>2, <2>6, <3>2 DEF Transactions
      <3> HIDE DEF u, moved
      <3> QED
        BY <1>2, <1>5, <2>3, <3>1, <3>3 DEF Transactions, LegMade
    <2> HIDE DEF u, moved
    <2>8. CASE ~CanPost(moved.view, into)
      BY <1>8, <2>8, RollBackExplained DEF PostOrFail
    <2>9. CASE CanPost(moved.view, into)
      <3>1. Continue(p, u)
        BY <1>8, <2>9 DEF PostOrFail, u
      <3>2. Explained(u)
        <4>1. LegDue(t, q, out, into)
          BY <1>6, <1>8, <2>4, <2>5, <2>6, <2>9 DEF LegDue
        <4> QED
          BY <1>1, <1>2, <1>3, <2>7, <4>1, LegExplained
      <3> QED
        BY <3>1, <3>2, ContinueExplained
    <2> QED
      BY <2>8, <2>9
  <1>9. CASE RollBack(p)
    BY <1>9, RollBackExplained
  <1> QED
    BY <1>7, <1>8, <1>9 DEF TransferLeg

----------------------------------------------------------------------------
(* The commit.                                                             *)

\* What transaction t posted.
New(t) == Present(t.view).posted \ Past(t).posted

\* The snapshot is an inventory whose postings the view and the database have.
LEMMA PastFacts ==
    ASSUME InventoryInv, NEW p \in Procs
    PROVE  /\ Past(tx[p]) \in Books
           /\ Past(tx[p]).posted \subseteq BookOf(db.moves)
           /\ \A b \in Balances : Past(tx[p]).stock[b] = tx[p].base[b].quantities
           /\ \A b \in Balances : \A i \in 1..tx[p].base[b].version :
                 /\ tx[p].view.moves[b][i].posting \in Past(tx[p]).posted
                 /\ i \in DOMAIN db.moves[b] /\ tx[p].view.moves[b][i] = db.moves[b][i]
           /\ \A x \in Past(tx[p]).posted :
                 \E b \in Balances : \E i \in 1..tx[p].base[b].version : tx[p].view.moves[b][i].posting = x
  <1> DEFINE t == tx[p]
  <1>1. t \in Transactions /\ HandlerSound(t) /\ t.base \in [Balances -> Rows] /\ db \in Inventories
    BY HandlerFacts DEF InventoryInv, TypeOK
  <1> HIDE DEF t
  <1>2. /\ Past(t).stock = StockOf(t.base) /\ Past(t).posted = BookUpTo(t.base, t.view.moves)
        /\ Past(t).ok = TRUE /\ Past(t) = [stock |-> Past(t).stock, posted |-> Past(t).posted, ok |-> TRUE]
    BY DEF Past
  <1>3. ASSUME NEW b \in Balances, NEW i \in 1..t.base[b].version
        PROVE  /\ i \in DOMAIN db.moves[b] /\ t.view.moves[b][i] = db.moves[b][i]
               /\ db.moves[b][i].posting \in Postings
    <2>1. t.base[b].version <= Len(db.moves[b]) /\ t.view.moves[b][i] = db.moves[b][i]
      BY <1>1 DEF HandlerSound, Agree
    <2>2. db.moves[b] \in Seq(Movements) /\ t.base[b].version \in Nat
      BY <1>1 DEF Inventories, Rows
    <2>3. i \in DOMAIN db.moves[b]
      BY <2>1, <2>2
    <2>4. db.moves[b][i] \in Movements
      BY <2>2, <2>3, ElementOfSeq
    <2> QED
      BY <2>1, <2>3, <2>4 DEF Movements
  <1>4. Past(t).posted \subseteq BookOf(db.moves) /\ Past(t).posted \subseteq Postings
    BY <1>2, <1>3 DEF BookUpTo, BookOf
  <1>5. StockOf(t.base) \in [Balances -> Quantities]
    BY <1>1 DEF StockOf, Rows
  <1>6. Past(t) \in Books
    BY <1>2, <1>4, <1>5 DEF Books
  <1>7. \A b \in Balances : Past(t).stock[b] = t.base[b].quantities
    BY <1>2 DEF StockOf
  <1>8. \A b \in Balances : \A i \in 1..t.base[b].version : t.view.moves[b][i].posting \in Past(t).posted
    BY <1>2 DEF BookUpTo
  <1>9. \A x \in Past(t).posted :
            \E b \in Balances : \E i \in 1..t.base[b].version : t.view.moves[b][i].posting = x
    BY <1>2 DEF BookUpTo
  <1> QED
    BY <1>3, <1>4, <1>6, <1>7, <1>8, <1>9 DEF t

\* What a transaction posted is what its view has after the snapshot.
LEMMA NewPosting ==
    ASSUME InventoryInv, NEW p \in Procs, NEW x \in New(tx[p])
    PROVE  \E i \in DOMAIN tx[p].view.moves[x.balance] :
              /\ x.balance \in Balances /\ tx[p].view.moves[x.balance][i].posting = x
              /\ i > tx[p].base[x.balance].version
              /\ Touched(p, x.balance)
  <1> DEFINE t == tx[p]
  <1>1. t \in Transactions /\ HandlerSound(t) /\ t.view \in Inventories /\ t.base \in [Balances -> Rows]
    BY HandlerFacts
  <1>2. x \in BookOf(t.view.moves) /\ x \notin Past(t).posted
    BY <1>1, PresentType DEF New
  <1>3. PICK b \in Balances : \E i \in DOMAIN t.view.moves[b] : x = t.view.moves[b][i].posting
    BY <1>2 DEF BookOf
  <1>4. PICK i \in DOMAIN t.view.moves[b] : x = t.view.moves[b][i].posting
    BY <1>3
  <1>5. x.balance = b
    BY <1>1, <1>4 DEF HandlerSound, Sound
  <1>6. /\ t.view.moves[b] \in Seq(Movements) /\ t.base[b].version \in Nat /\ t.view.rows[b].version \in Nat
        /\ t.view.rows[b].version = Len(t.view.moves[b])
    BY <1>1 DEF Inventories, Rows, HandlerSound, Sound, Chained
  <1>7. i \notin 1..t.base[b].version
    BY <1>2, <1>4, PastFacts
  <1> HIDE DEF t
  <1>8. i \in 1..Len(t.view.moves[b])
    BY <1>6
  <1>9. i > t.base[b].version /\ t.view.rows[b].version # t.base[b].version
    BY <1>6, <1>7, <1>8
  <1> QED
    BY <1>3, <1>4, <1>5, <1>9 DEF Touched, t

\* A row is touched by a posting on it.
LEMMA TouchedByPosting ==
    ASSUME InventoryInv, NEW p \in Procs, NEW b \in Balances, Touched(p, b)
    PROVE  \E x \in New(tx[p]) : x.balance = b
  <1> DEFINE t == tx[p]
             n == Len(t.view.moves[b])
             x == t.view.moves[b][n].posting
  <1>1. t \in Transactions /\ HandlerSound(t) /\ t.view \in Inventories /\ t.base \in [Balances -> Rows]
    BY HandlerFacts
  <1>2. /\ t.view.moves[b] \in Seq(Movements) /\ t.base[b].version \in Nat /\ t.view.rows[b].version \in Nat
        /\ t.view.rows[b].version = n /\ t.base[b].version <= n
    BY <1>1 DEF Inventories, Rows, HandlerSound, Sound, Chained, Agree
  <1>3. t.view.rows[b].version # t.base[b].version
    BY DEF Touched
  <1> HIDE DEF t
  <1>4. n \in DOMAIN t.view.moves[b] /\ n > t.base[b].version
    BY <1>2, <1>3
  <1> HIDE DEF n
  <1>5. x.balance = b /\ x \in BookOf(t.view.moves)
    BY <1>1, <1>4 DEF HandlerSound, Sound, BookOf
  <1>6. x \notin Past(t).posted
    <2> SUFFICES ASSUME x \in Past(t).posted PROVE FALSE
      OBVIOUS
    <2>1. PICK c \in Balances : \E i \in 1..t.base[c].version : t.view.moves[c][i].posting = x
      BY PastFacts DEF t
    <2>2. PICK i \in 1..t.base[c].version : t.view.moves[c][i].posting = x
      BY <2>1
    <2>3. i \in DOMAIN t.view.moves[c]
      <3>1. /\ t.view.moves[c] \in Seq(Movements) /\ t.base[c].version \in Nat
            /\ t.base[c].version <= Len(t.view.moves[c])
        BY <1>1 DEF Inventories, Rows, HandlerSound, Agree
      <3> QED
        BY <3>1
    <2>4. c = b /\ i = n
      BY <1>1, <1>4, <2>2, <2>3 DEF HandlerSound, Sound, KeysDistinct
    <2> QED
      BY <1>2, <1>4, <2>2, <2>4
  <1> QED
    BY <1>1, <1>5, <1>6, PresentType DEF New, t

\* A row nobody updated since the snapshot is the snapshot's.
LEMMA UnchangedRow ==
    ASSUME InventoryInv, AllExplained, NEW p \in Procs, tx[p].pc # "idle", RowsUnchanged(p),
           NEW b \in Balances, Touched(p, b)
    PROVE  /\ tx[p].base[b].quantities = db.rows[b].quantities
           /\ tx[p].base[b].version = Len(db.moves[b])
  <1> DEFINE t == tx[p]
             n == t.base[b].version
  <1>1. /\ n = Len(db.moves[b]) /\ n \in Nat
        /\ \A i \in 1..Len(db.moves[b]) : t.view.moves[b][i] = db.moves[b][i]
    BY MergedBalance DEF Rows
  <1>2. db.rows[b].quantities = IF Len(db.moves[b]) = 0 THEN ZERO ELSE db.moves[b][Len(db.moves[b])].after
    BY DEF InventoryInv, Sound, Chained
  <1>3. t.base[b].quantities = IF n = 0 THEN ZERO ELSE t.view.moves[b][n].after
    BY DEF AllExplained, Explained, BaseSound
  <1>4. n # 0 => n \in 1..n
    BY <1>1
  <1> QED
    BY <1>1, <1>2, <1>3, <1>4

\* A commit of nothing new leaves the database alone.
LEMMA NothingNew ==
    ASSUME InventoryInv, NEW p \in Procs, New(tx[p]) = {}
    PROVE  Merged(p) = db
  <1>1. \A b \in Balances : ~Touched(p, b)
    BY TouchedByPosting
  <1>2. Merged(p) = [rows |-> [b \in Balances |-> db.rows[b]], moves |-> [b \in Balances |-> db.moves[b]]]
    BY <1>1 DEF Merged
  <1>3. \A inv \in Inventories :
          inv = [rows |-> [b \in Balances |-> inv.rows[b]], moves |-> [b \in Balances |-> inv.moves[b]]]
    BY DEF Inventories
  <1>4. db \in Inventories
    BY DEF InventoryInv, TypeOK
  <1> QED
    BY <1>2, <1>3, <1>4

\* The postings of a command have at its commit the effect they had on its snapshot.
LEMMA SameAtCommit ==
    ASSUME InventoryInv, AllExplained, NEW p \in Procs, tx[p].pc # "idle", RowsUnchanged(p), KeysFree(p),
           NEW postings \in Seq(Postings), PostAll(Past(tx[p]), postings) = Present(tx[p].view)
    PROVE  PostAll(Present(db), postings) = Present(Merged(p))
  <1> DEFINE t   == tx[p]
             s   == Past(t)
             d   == Present(db)
             end == Present(t.view)
             now == PostAll(d, postings)
  <1>1. t.view \in Inventories /\ db \in Inventories /\ Merged(p) \in Inventories
    BY HandlerFacts, MergedType DEF InventoryInv, TypeOK
  <1>2. /\ s \in Books /\ d \in Books /\ s.ok /\ d.ok /\ end.ok /\ s.posted \subseteq d.posted
        /\ d.posted = BookOf(db.moves) /\ end.posted = BookOf(t.view.moves)
        /\ d.stock = StockOf(db.rows) /\ end.stock = StockOf(t.view.rows)
    BY <1>1, PastFacts, PresentType DEF Past
  <1>3. ASSUME NEW x \in New(t)
        PROVE  /\ d.stock[x.balance] = s.stock[x.balance] /\ ~Taken(d.posted, x.key)
               /\ Touched(p, x.balance) /\ x.balance \in Balances
    <2>1. PICK i \in DOMAIN t.view.moves[x.balance] :
                /\ x.balance \in Balances /\ t.view.moves[x.balance][i].posting = x
                /\ i > t.base[x.balance].version
                /\ Touched(p, x.balance)
      BY NewPosting
    <2>2. d.stock[x.balance] = db.rows[x.balance].quantities /\ s.stock[x.balance] = t.base[x.balance].quantities
      BY <1>2, <2>1, PastFacts DEF StockOf
    <2>3. d.stock[x.balance] = s.stock[x.balance]
      BY <2>1, <2>2, UnchangedRow
    <2>4. ~KeyUsed(db, x.key)
      BY <2>1 DEF KeysFree
    <2>5. ~Taken(BookOf(db.moves), x.key)
      BY <2>4 DEF KeyUsed, Taken, BookOf
    <2> QED
      BY <1>2, <2>1, <2>3, <2>5
  <1>4. New(t) = end.posted \ s.posted
    BY DEF New
  <1>5. end = PostAll(s, postings)
    OBVIOUS
  <1> HIDE DEF t, s, d, end
  <1>6. /\ now \in Books /\ now.ok
        /\ now.posted = d.posted \cup New(t)
        /\ \A b \in Balances : now.stock[b] = IF \E x \in New(t) : x.balance = b THEN end.stock[b] ELSE d.stock[b]
    <2>1. \A x \in end.posted \ s.posted : d.stock[x.balance] = s.stock[x.balance] /\ ~Taken(d.posted, x.key)
      BY <1>3, <1>4
    <2> QED
      BY <1>2, <1>4, <1>5, <2>1, SameEffect
  <1>7. now.posted = BookOf(Merged(p).moves)
    <2>1. ASSUME NEW x \in BookOf(Merged(p).moves)
          PROVE  x \in d.posted \cup New(t)
      <3>1. PICK b \in Balances : \E i \in DOMAIN Merged(p).moves[b] : x = Merged(p).moves[b][i].posting
        BY <2>1 DEF BookOf
      <3>2. Merged(p).moves[b] = db.moves[b] \/ Merged(p).moves[b] = t.view.moves[b]
        BY MergedBalance DEF t
      <3>3. x \in BookOf(db.moves) \/ x \in BookOf(t.view.moves)
        BY <3>1, <3>2 DEF BookOf
      <3> QED
        BY <1>2, <1>4, <3>3
    <2>2. ASSUME NEW x \in BookOf(db.moves)
          PROVE  x \in BookOf(Merged(p).moves)
      <3>1. PICK b \in Balances : \E i \in DOMAIN db.moves[b] : x = db.moves[b][i].posting
        BY <2>2 DEF BookOf
      <3>2. PICK i \in DOMAIN db.moves[b] : x = db.moves[b][i].posting
        BY <3>1
      <3>3. /\ Len(db.moves[b]) \in Nat /\ Len(Merged(p).moves[b]) \in Nat
            /\ DOMAIN db.moves[b] = 1..Len(db.moves[b])
            /\ DOMAIN Merged(p).moves[b] = 1..Len(Merged(p).moves[b])
        BY <1>1 DEF Inventories
      <3>4. /\ Len(db.moves[b]) <= Len(Merged(p).moves[b])
            /\ Merged(p).moves[b][i] = db.moves[b][i]
        BY <3>3, MergedExtends DEF Extended
      <3>5. i \in DOMAIN Merged(p).moves[b]
        BY <3>3, <3>4
      <3> QED
        BY <3>2, <3>4, <3>5 DEF BookOf
    <2>3. ASSUME NEW x \in New(t)
          PROVE  x \in BookOf(Merged(p).moves)
      <3>1. PICK i \in DOMAIN t.view.moves[x.balance] : t.view.moves[x.balance][i].posting = x
        BY NewPosting DEF t
      <3>2. Merged(p).moves[x.balance] = t.view.moves[x.balance]
        BY <1>3, MergedBalance DEF t
      <3> QED
        BY <1>3, <3>1, <3>2 DEF BookOf
    <2> QED
      BY <1>2, <1>6, <2>1, <2>2, <2>3
  <1>8. now.stock = StockOf(Merged(p).rows)
    <2>1. now.stock \in [Balances -> Quantities] /\ StockOf(Merged(p).rows) \in [Balances -> Quantities]
      BY <1>1, <1>6, PresentType DEF Books
    <2>2. ASSUME NEW b \in Balances
          PROVE  now.stock[b] = StockOf(Merged(p).rows)[b]
      <3>1. /\ end.stock[b] = t.view.rows[b].quantities /\ d.stock[b] = db.rows[b].quantities
            /\ StockOf(Merged(p).rows)[b] = Merged(p).rows[b].quantities
        BY <1>2 DEF StockOf
      <3>2. CASE Touched(p, b)
        <4>1. \E x \in New(t) : x.balance = b
          BY <3>2, TouchedByPosting DEF t
        <4>2. Merged(p).rows[b] = t.view.rows[b]
          BY <3>2, MergedBalance DEF t
        <4> QED
          BY <1>6, <3>1, <4>1, <4>2
      <3>3. CASE ~Touched(p, b)
        <4>1. ~\E x \in New(t) : x.balance = b
          BY <1>3, <3>3
        <4>2. Merged(p).rows[b] = db.rows[b]
          BY <3>3, MergedBalance
        <4> QED
          BY <1>6, <3>1, <4>1, <4>2
      <3> QED
        BY <3>2, <3>3
    <2> QED
      BY <2>1, <2>2
  <1>9. /\ Present(Merged(p)) \in Books /\ Present(Merged(p)).ok = TRUE
        /\ Present(Merged(p)).stock = StockOf(Merged(p).rows)
        /\ Present(Merged(p)).posted = BookOf(Merged(p).moves)
    BY <1>1, PresentType
  <1>10. now.ok = TRUE
    BY <1>6 DEF Books
  <1>11. now = Present(Merged(p))
    <2> HIDE DEF now
    <2> QED
      BY <1>6, <1>7, <1>8, <1>9, <1>10, SameBooks
  <1> QED
    BY <1>11 DEF d

\* Every posting of a command has its key in the ledger in the end.
LEMMA AllTaken ==
    ASSUME NEW s \in Books, NEW postings \in Seq(Postings)
    PROVE  \A i \in 1..Len(postings) : Taken(PostAll(s, postings).posted, postings[i].key)
  <1> DEFINE n == Len(postings)
  <1>1. PICK f : Fold!Steps(f, s, postings)
    BY Fold!FoldLeftSteps
  <1>2. n \in Nat /\ n <= n /\ PostAll(s, postings) = f[n]
    <2>1. Fold!Folded(s, postings) = f[n]
      BY <1>1, Fold!FoldLeftIs
    <2>2. n \in Nat
      OBVIOUS
    <2> HIDE DEF n
    <2>3. n <= n
      BY <2>2
    <2> QED
      BY <2>1, <2>2, <2>3, PostAllIsFold
  <1>3. f[0] = s
    BY <1>1 DEF Fold!Steps
  <1>4. ASSUME NEW m \in Nat, m + 1 <= n
        PROVE  postings[m + 1] \in Postings /\ f[m + 1] = OneMore(f[m], postings[m + 1])
    <2>1. m + 1 \in 1..n /\ (m + 1) - 1 = m
      BY <1>2, <1>4
    <2>2. postings[m + 1] \in Postings
      BY <2>1, ElementOfSeq
    <2>3. f[m + 1] = OneMore(f[(m + 1) - 1], postings[m + 1])
      BY <1>1, <2>1 DEF Fold!Steps
    <2> QED
      BY <2>1, <2>2, <2>3
  <1> HIDE DEF n
  <1> DEFINE Run == {m \in Nat : m <= n => f[m] \in Books /\ \A i \in 1..m : Taken(f[m].posted, postings[i].key)}
  <1>5. 0 \in Run
    BY <1>3
  <1>6. ASSUME NEW m \in Nat, m \in Run
        PROVE  m + 1 \in Run
    <2> SUFFICES ASSUME m + 1 <= n
                 PROVE  f[m + 1] \in Books /\ \A i \in 1..(m + 1) : Taken(f[m + 1].posted, postings[i].key)
      OBVIOUS
    <2>1. m <= n
      BY <1>2
    <2>2. f[m] \in Books /\ \A i \in 1..m : Taken(f[m].posted, postings[i].key)
      BY <1>6, <2>1
    <2> DEFINE x == postings[m + 1]
    <2>3. x \in Postings /\ f[m + 1] = OneMore(f[m], x)
      BY <1>4
    <2> HIDE DEF x
    <2>4. f[m + 1] \in Books /\ f[m].posted \subseteq f[m + 1].posted /\ Taken(f[m + 1].posted, x.key)
      <3>1. /\ OneMore(f[m], x) \in Books
            /\ \/ OneMore(f[m], x).posted = f[m].posted /\ Taken(f[m].posted, x.key)
               \/ OneMore(f[m], x).posted = f[m].posted \cup {x}
        BY <2>2, <2>3, OneMoreEffect
      <3> QED
        BY <2>3, <3>1 DEF Taken
    <2>5. \A i \in 1..(m + 1) : i \in 1..m \/ i = m + 1
      OBVIOUS
    <2> QED
      BY <2>2, <2>4, <2>5 DEF Taken, x
  <1> HIDE DEF Run
  <1>7. n \in Run
    BY <1>2, <1>5, <1>6, Fold!NaturalInduction
  <1>8. \A i \in 1..n : Taken(f[n].posted, postings[i].key)
    BY <1>2, <1>7 DEF Run
  <1> QED
    BY <1>2, <1>8 DEF n

----------------------------------------------------------------------------
\* The operators of AtomicInventory are those of this module.
LEMMA AbstractOperators ==
    /\ \A s, postings : Abstract!PostAll(s, postings) = PostAll(s, postings)
    /\ \A f, S : Abstract!SumFunctionOnSet(f, S) = SumFunctionOnSet(f, S)
    /\ \A c : Abstract!AdjustPosting(c) = AdjustPosting(c)
    /\ \A c, original : Abstract!ReversalPosting(c, original) = ReversalPosting(c, original)
    /\ \A c, q, n : Abstract!TransferIn(c, q, n) = TransferIn(c, q, n)
    /\ \A posted, key : /\ Abstract!Taken(posted, key) <=> Taken(posted, key)
                        /\ Abstract!ReversedIn(posted, key) <=> ReversedIn(posted, key)
  <1>1. \A s, postings : Abstract!PostAll(s, postings) = PostAll(s, postings)
    BY DEF PostAll, FoldLeft, MapThenFoldSet, Max, Abstract!PostAll, Abstract!FoldLeft, Abstract!MapThenFoldSet,
           Abstract!Max, OneMore, Abstract!OneMore, After, Abstract!After, Taken, Abstract!Taken,
           NonNegative, Abstract!NonNegative
  <1>2. \A f, S : Abstract!SumFunctionOnSet(f, S) = SumFunctionOnSet(f, S)
    BY DEF SumFunctionOnSet, FoldFunctionOnSet, MapThenFoldSet,
           Abstract!SumFunctionOnSet, Abstract!FoldFunctionOnSet, Abstract!MapThenFoldSet
  <1>3. \A c : Abstract!AdjustPosting(c) = AdjustPosting(c)
    BY DEF AdjustPosting, Abstract!AdjustPosting, Posting, Abstract!Posting, AdjustKey, Abstract!AdjustKey,
           Key, Abstract!Key, Abs, Abstract!Abs, OnHand, Abstract!OnHand
  <1>4. \A c, original : Abstract!ReversalPosting(c, original) = ReversalPosting(c, original)
    BY DEF ReversalPosting, Abstract!ReversalPosting, Reversal, Abstract!Reversal, Posting, Abstract!Posting,
           Key, Abstract!Key, Negated, Abstract!Negated
  <1>5. \A c, q, n : Abstract!TransferIn(c, q, n) = TransferIn(c, q, n)
    BY DEF TransferIn, Abstract!TransferIn, Posting, Abstract!Posting, Key, Abstract!Key, OnHand, Abstract!OnHand
  <1>6. \A posted, key : /\ Abstract!Taken(posted, key) <=> Taken(posted, key)
                         /\ Abstract!ReversedIn(posted, key) <=> ReversedIn(posted, key)
    BY DEF Taken, Abstract!Taken, ReversedIn, Abstract!ReversedIn
  <1> QED
    BY <1>1, <1>2, <1>3, <1>4, <1>5, <1>6

\* What a transaction posted, its commit does to the database in one step of AtomicInventory.
LEMMA CommitExecutes ==
    ASSUME InventoryInv, AllExplained, NEW p \in Procs, Commit(p),
           NEW postings \in Seq(Postings), PostAll(Past(tx[p]), postings) = Present(tx[p].view)
    PROVE  Abstract!Execute(postings)
  <1>1. RowsUnchanged(p) /\ KeysFree(p) /\ db' = Merged(p) /\ tx[p].pc # "idle"
    BY DEF Commit
  <1>2. PostAll(Present(db), postings) = Present(db')
    BY <1>1, SameAtCommit
  <1>3. db \in Inventories /\ db' \in Inventories
    BY <1>1, MergedType DEF InventoryInv, TypeOK
  <1>4. Present(db) = [stock |-> [b \in Balances |-> db.rows[b].quantities], posted |-> BookOf(db.moves), ok |-> TRUE]
    BY DEF Present, StockOf
  <1>5. /\ Present(db').ok
        /\ Present(db').stock = [b \in Balances |-> db'.rows[b].quantities]
        /\ Present(db').posted = BookOf(db'.moves)
    BY DEF Present, StockOf
  <1>6. Abstract!PostAll(Present(db), postings) = Present(db')
    BY <1>2, AbstractOperators
  <1> QED
    BY <1>4, <1>5, <1>6 DEF Abstract!Execute

\* A reversal at its commit: nobody else reversed the movement since the snapshot.
LEMMA ReversalAtCommit ==
    ASSUME InventoryInv, AllExplained, NEW p \in Procs, Commit(p), NEW c, c = tx[p].command, c.op = "REVERSE",
           NEW original, original \in Past(tx[p]).posted, original.key = c.target, original.type = "ADJUSTMENT",
           ~ReversedIn(Past(tx[p]).posted, c.target),
           PostAll(Past(tx[p]), <<ReversalPosting(c, [posting |-> original])>>) = Present(tx[p].view)
    PROVE  db' = db \/ Abstract!ExecuteReversal(c)
  <1> DEFINE t == tx[p]
             x == ReversalPosting(c, [posting |-> original])
  <1>1. RowsUnchanged(p) /\ KeysFree(p) /\ db' = Merged(p) /\ t.pc # "idle"
    BY DEF Commit
  <1>2. t \in Transactions /\ t.view \in Inventories /\ c \in ReverseCommands /\ HandlerSound(t)
    BY <1>1, HandlerFacts, CommandKinds
  <1>3. /\ Past(t) \in Books /\ original \in Postings /\ original \in BookOf(db.moves)
        /\ c.target \in Keys /\ c.target # NoKey
    BY <1>2, PastFacts, NoKeyAssumption DEF Books, ReverseCommands
  <1>4. x \in Postings /\ x.reversalOf = c.target /\ x.balance = original.balance
    <2>1. original.key \in Keys /\ original.balance \in Balances /\ original.quantity \in Int /\ original.delta \in Deltas
      BY <1>3 DEF Postings
    <2>2. Key("REVERSAL", c.client, 0) \in Keys
      BY <1>2, KeyType DEF ReverseCommands, KeyKinds
    <2>3. Negated(original.delta) \in Deltas
      BY <2>1, DeltaType
    <2>4. x = Posting(original.balance, Key("REVERSAL", c.client, 0), "REVERSAL", original.quantity,
                      Negated(original.delta), original.key)
      BY DEF ReversalPosting, Reversal
    <2>5. "REVERSAL" \in MovementTypes
      BY DEF MovementTypes
    <2> HIDE DEF x
    <2> QED
      BY <1>3, <2>1, <2>2, <2>3, <2>4, <2>5, PostingType
  <1> HIDE DEF x
  <1>5. Present(t.view) = OneMore(Past(t), x)
    BY <1>4, PostAllOne DEF x
  <1>6. CASE Taken(Past(t).posted, x.key)
    <2>1. New(t) = {}
      BY <1>3, <1>4, <1>5, <1>6, OneMoreEffect DEF New
    <2> QED
      BY <1>1, <2>1, NothingNew
  <1>7. CASE ~Taken(Past(t).posted, x.key)
    <2>1. x \in New(t)
      <3>1. OneMore(Past(t), x).posted = Past(t).posted \cup {x}
        BY <1>3, <1>4, <1>7, OneMoreEffect
      <3> QED
        BY <1>5, <1>7, <3>1 DEF New, Taken
    <2>2. Touched(p, x.balance) /\ x.balance \in Balances
      BY <2>1, NewPosting
    <2> DEFINE b == original.balance
    <2>3. t.base[b].version = Len(db.moves[b])
      BY <1>1, <1>4, <2>2, UnchangedRow
    \* A reversal of the movement in the database is on its row, so the snapshot has it.
    <2>4. ~ReversedIn(BookOf(db.moves), c.target)
      <3> SUFFICES ASSUME NEW y \in BookOf(db.moves), y.reversalOf = c.target PROVE FALSE
        BY DEF ReversedIn
      <3>1. PICK b1 \in Balances : \E i \in DOMAIN db.moves[b1] : y = db.moves[b1][i].posting
        BY DEF BookOf
      <3>2. PICK i1 \in DOMAIN db.moves[b1] : y = db.moves[b1][i1].posting
        BY <3>1
      <3>3. PICK b2 \in Balances : \E i \in DOMAIN db.moves[b2] : original = db.moves[b2][i].posting
        BY <1>3 DEF BookOf
      <3>4. PICK i2 \in DOMAIN db.moves[b2] : original = db.moves[b2][i2].posting
        BY <3>3
      <3>5. Sound(db)
        BY DEF InventoryInv
      <3>6. PICK j \in DOMAIN db.moves[b1] : db.moves[b1][j].posting.key = c.target
        BY <1>3, <3>2, <3>5 DEF Sound, ReversalsBesideOriginals
      <3>7. b1 = b2 /\ b = b2
        BY <3>4, <3>5, <3>6 DEF Sound, KeysDistinct
      <3>8. i1 \in 1..t.base[b].version
        <4>1. db.moves[b] \in Seq(Movements)
          BY <1>4, <2>2 DEF InventoryInv, TypeOK, Inventories
        <4> QED
          BY <2>3, <3>7, <4>1
      <3>9. y \in Past(t).posted
        BY <3>2, <3>7, <3>8, PastFacts
      <3> QED
        BY <3>9 DEF ReversedIn
    <2>5. Abstract!Execute(<<x>>)
      <3>1. <<x>> \in Seq(Postings)
        BY <1>4
      <3> QED
        BY <3>1, CommitExecutes DEF x
    <2>6. x = Abstract!ReversalPosting(c, [posting |-> original])
      BY AbstractOperators DEF x
    <2> QED
      BY <1>3, <2>4, <2>5, <2>6, AbstractOperators DEF Abstract!ExecuteReversal
  <1> QED
    BY <1>6, <1>7

\* The first pair of a transfer has the keys its correlation id is looked up by.
LEMMA FirstPairPosted ==
    ASSUME NEW c, NEW n \in Nat, n >= 1, NEW legs \in [1..n -> Leg(c)]
    PROVE  /\ Len(Abstract!Pairs(c, legs)) = 2 * n
           /\ Abstract!Pairs(c, legs)[2].key = TransferIn(c, c.quantity, 0).key
  <1> DEFINE postings == Abstract!Pairs(c, legs)
  <1>1. postings = [j \in 1..(2 * n) |->
              IF j % 2 = 1
              THEN TransferOut(c, c.sources[legs[(j + 1) \div 2].at], legs[(j + 1) \div 2].quantity, (j + 1) \div 2 - 1)
              ELSE TransferIn(c, legs[(j + 1) \div 2].quantity, (j + 1) \div 2 - 1)]
    BY PairsAre
  <1>2. 2 \in 1..(2 * n) /\ 2 % 2 # 1 /\ (2 + 1) \div 2 = 1 /\ 1 - 1 = 0
    OBVIOUS
  <1>3. postings[2] = TransferIn(c, legs[1].quantity, 0)
    BY <1>1, <1>2
  <1>4. \A q : TransferIn(c, q, 0).key = Key("TRANSFER_IN", c.client, 0)
    BY DEF TransferIn, Posting
  <1>5. Len(postings) = 2 * n
    BY <1>1
  <1> QED
    BY <1>3, <1>4, <1>5

\* A transfer at its commit: nobody else used its correlation id since the snapshot.
LEMMA TransferAtCommit ==
    ASSUME InventoryInv, AllExplained, NEW p \in Procs, Commit(p), NEW c, c = tx[p].command, c.op = "TRANSFER",
           ~Taken(Past(tx[p]).posted, TransferIn(c, c.quantity, 0).key),
           NEW n \in 1..Len(c.sources), NEW legs \in Legs(c, n), AllMoved(c, n, legs),
           Abstract!Pairs(c, legs) \in Seq(Postings),
           PostAll(Past(tx[p]), Abstract!Pairs(c, legs)) = Present(tx[p].view)
    PROVE  Abstract!ExecuteTransfer(c)
  <1> DEFINE t == tx[p]
             postings == Abstract!Pairs(c, legs)
             key == TransferIn(c, c.quantity, 0).key
  <1>1. RowsUnchanged(p) /\ KeysFree(p) /\ t.pc # "idle" /\ t.view \in Inventories
    BY HandlerFacts DEF Commit
  <1>2. n \in Nat /\ n >= 1 /\ legs \in [1..n -> Leg(c)]
    <2>1. c \in TransferCommands
      BY <1>1, HandlerFacts, CommandKinds
    <2>2. c.sources \in Seq(Balances)
      BY <2>1 DEF TransferCommands
    <2> QED
      BY <2>2 DEF Legs, Leg
  <1>3. Len(postings) = 2 * n /\ postings[2].key = key
    BY <1>2, FirstPairPosted
  <1>4. Taken(Present(t.view).posted, key)
    <2>1. 2 \in 1..(2 * n)
      BY <1>2
    <2>2. Taken(PostAll(Past(t), postings).posted, postings[2].key)
      <3> HIDE DEF postings
      <3>1. postings \in Seq(Postings)
        BY DEF postings
      <3> QED
        BY <1>3, <2>1, <3>1, PastFacts, AllTaken
    <2> QED
      BY <1>3, <2>2
  <1>5. PICK z \in Present(t.view).posted : z.key = key
    BY <1>4 DEF Taken
  <1>6. z \in New(t)
    BY <1>5 DEF New, Taken
  <1>7. ~KeyUsed(db, key)
    <2>1. PICK i \in DOMAIN t.view.moves[z.balance] :
                /\ z.balance \in Balances /\ t.view.moves[z.balance][i].posting = z
                /\ i > t.base[z.balance].version
                /\ Touched(p, z.balance)
      BY <1>6, NewPosting
    <2> QED
      BY <1>1, <1>5, <2>1 DEF KeysFree
  <1>8. ~Taken(BookOf(db.moves), key)
    BY <1>7 DEF KeyUsed, Taken, BookOf
  <1>9. Abstract!Execute(postings)
    BY CommitExecutes
  <1>10. /\ \A i, j \in 1..n : i < j => legs[i].at < legs[j].at
         /\ Abstract!SumFunctionOnSet([i \in 1..n |-> legs[i].quantity], 1..n) = c.quantity
    BY AbstractOperators DEF AllMoved, InOrder, MovedBy
  <1>11. ~Abstract!Taken(BookOf(db.moves), Abstract!TransferIn(c, c.quantity, 0).key)
    BY <1>8, AbstractOperators
  <1> HIDE DEF postings, key, t
  <1>12. legs \in [1..n -> [at : DOMAIN c.sources, quantity : 1..c.quantity]]
    BY <1>2 DEF Leg
  <1> QED
    BY <1>9, <1>10, <1>11, <1>12 DEF Abstract!ExecuteTransfer, postings, t

----------------------------------------------------------------------------
\* A commit is one step of AtomicInventory, or none.
LEMMA CommitIsAtomic ==
    ASSUME InventoryInv, AllExplained, NEW p \in Procs, Commit(p)
    PROVE  db' = db \/ Abstract!Next
  <1> DEFINE t == tx[p]
  <1>1. RowsUnchanged(p) /\ KeysFree(p) /\ db' = Merged(p) /\ t.pc = "posted" /\ t.view \in Inventories
    BY HandlerFacts DEF Commit
  <1>2. PICK c \in Commands : c = t.command
    BY <1>1, HandlerFacts
  <1>3. Worked(t)
    BY <1>1 DEF AllExplained, Explained
  <1>4. CASE Present(t.view) = Past(t)
    <2>1. New(t) = {}
      BY <1>4 DEF New
    <2> QED
      BY <1>1, <2>1, NothingNew
  <1>5. ASSUME NEW postings \in Seq(Postings), IsOutcome(c, Past(t).posted, postings),
               PostAll(Past(t), postings) = Present(t.view)
        PROVE  db' = db \/ Abstract!Next
    <2>1. Abstract!Execute(postings)
      BY <1>5, CommitExecutes
    <2>2. CASE c.op = "ADJUST" /\ postings = <<AdjustPosting(c)>>
      <3>1. Abstract!Execute(<<Abstract!AdjustPosting(c)>>)
        BY <2>1, <2>2, AbstractOperators
      <3> QED
        BY <1>2, <2>2, <3>1 DEF Abstract!Next
    <2>3. CASE /\ c.op = "REVERSE"
               /\ ~ReversedIn(Past(t).posted, c.target)
               /\ \E original \in Past(t).posted :
                     /\ original.key = c.target /\ original.type = "ADJUSTMENT"
                     /\ postings = <<ReversalPosting(c, [posting |-> original])>>
      <3>1. db' = db \/ Abstract!ExecuteReversal(c)
        BY <1>2, <1>5, <2>3, ReversalAtCommit
      <3> QED
        BY <1>2, <2>3, <3>1 DEF Abstract!Next
    <2>4. CASE /\ c.op = "TRANSFER"
               /\ ~Taken(Past(t).posted, TransferIn(c, c.quantity, 0).key)
               /\ \E n \in 1..Len(c.sources) : \E legs \in Legs(c, n) :
                     AllMoved(c, n, legs) /\ postings = Abstract!Pairs(c, legs)
      <3>1. Abstract!ExecuteTransfer(c)
        BY <1>2, <1>5, <2>4, TransferAtCommit
      <3> QED
        BY <1>2, <2>4, <3>1 DEF Abstract!Next
    <2>5. CASE c.op = "DOCUMENT" /\ postings = c.postings
      BY <1>2, <2>1, <2>5 DEF Abstract!Next
    <2> HIDE DEF t
    <2> QED
      BY <1>5, <2>2, <2>3, <2>4, <2>5 DEF IsOutcome
  <1> QED
    BY <1>2, <1>3, <1>4, <1>5 DEF Worked

\* A handler that has committed has nothing more to explain.
LEMMA CommitExplained ==
    ASSUME InventoryInv, AllExplained, NEW p \in Procs, Commit(p)
    PROVE  AllExplained'
  <1>1. \A q \in Procs : tx'[q] = IF q = p THEN NoTransaction ELSE tx[q]
    BY DEF Commit, InventoryInv, TypeOK
  <1>2. NoTransaction.pc = "idle"
    BY DEF NoTransaction
  <1>3. Explained(NoTransaction)
    BY <1>2 DEF Explained
  <1>4. \A q \in Procs : Explained(tx'[q])
    BY <1>1, <1>3 DEF AllExplained
  <1> QED
    BY <1>4 DEF AllExplained

\* Every step keeps the handlers' views explained.
LEMMA StepExplained == InventoryInv /\ AllExplained /\ [Next]_vars => AllExplained'
  <1> SUFFICES ASSUME InventoryInv, AllExplained, [Next]_vars PROVE AllExplained'
    OBVIOUS
  <1>1. ASSUME NEW p \in Procs, NEW c \in Commands, Request(p, c) PROVE AllExplained'
    BY <1>1, RequestExplained
  <1>2. ASSUME NEW p \in Procs, Step(p) PROVE AllExplained'
    BY <1>2, AdjustExplained, ReverseExplained, TransferExplained, TransferLegExplained, TransferEndExplained,
       DocumentExplained, CommitExplained, ConflictExplained DEF Step
  <1>3. ASSUME NEW p \in Procs, Crash(p) PROVE AllExplained'
    BY <1>3, RollBackExplained DEF Crash
  <1>4. CASE UNCHANGED vars
    BY <1>4 DEF vars, AllExplained
  <1> QED
    BY <1>1, <1>2, <1>3, <1>4 DEF Next

\* Nothing is to be explained at first.
LEMMA InitExplained == Init => AllExplained
  <1>1. NoTransaction.pc = "idle"
    BY DEF NoTransaction
  <1>2. Explained(NoTransaction)
    BY <1>1 DEF Explained
  <1> QED
    BY <1>2 DEF Init, AllExplained

\* In every reachable state every handler's view is what its command makes of its snapshot.
THEOREM RefinementInvariant == Spec => []RefinementInv
  <1>1. Init => AllExplained
    BY InitExplained
  <1>2. InventoryInv /\ AllExplained /\ [Next]_vars => AllExplained'
    BY StepExplained
  <1>3. InventoryInv /\ AllExplained => RefinementInv
    BY DEF RefinementInv, AllExplained
  <1> QED
    BY <1>1, <1>2, <1>3, InventoryInvariant, PTL DEF Spec

\* The empty database is AtomicInventory's.
LEMMA InitIsAtomic == Init => Abstract!Init
  <1> SUFFICES ASSUME Init PROVE Abstract!Init
    OBVIOUS
  <1>1. \A b \in Balances : db.rows[b].quantities = ZERO /\ db.moves[b] = <<>>
    BY DEF Init, EmptyInventory
  <1>2. BookOf(db.moves) = {}
    <2>1. DOMAIN <<>> = {}
      OBVIOUS
    <2> QED
      BY <1>1, <2>1 DEF BookOf
  <1>3. [b \in Balances |-> db.rows[b].quantities] = [b \in Balances |-> ZERO]
    BY <1>1
  <1>4. Abstract!ZERO = ZERO
    BY DEF Abstract!ZERO, ZERO
  <1> QED
    BY <1>2, <1>3, <1>4 DEF Abstract!Init

\* Whatever the interleaving of handlers, snapshots, conflicts, retries and crashes, the database
\* changes only as one command of AtomicInventory would change it in one step.
THEOREM CommandsAlwaysAtomic == Spec => CommandsAreAtomic
  <1>1. RefinementInv /\ [Next]_vars => [db' = db \/ Abstract!Next]_db
    <2> SUFFICES ASSUME RefinementInv, [Next]_vars PROVE db' = db \/ Abstract!Next
      OBVIOUS
    <2>1. InventoryInv /\ AllExplained
      BY DEF RefinementInv, AllExplained
    <2> QED
      BY <2>1, OnlyCommitWrites, CommitIsAtomic
  <1> QED
    BY <1>1, InitIsAtomic, RefinementInvariant, PTL DEF Spec, CommandsAreAtomic

\* The concurrent handlers implement the atomic inventory.
THEOREM ImplementsAtomicInventory == Spec => Abstract!Spec
  <1> DEFINE mapped == <<[b \in Balances |-> db.rows[b].quantities], BookOf(db.moves)>>
  <1>1. [db' = db \/ Abstract!Next]_db => Abstract!Next \/ UNCHANGED mapped
    <2>1. db' = db => UNCHANGED mapped
      BY DEF BookOf
    <2> QED
      BY <2>1
  <1>2. Abstract!Next \/ UNCHANGED mapped => [Abstract!Next]_mapped
    OBVIOUS
  <1>3. Abstract!Spec <=> Abstract!Init /\ [][Abstract!Next]_mapped
    BY DEF Abstract!Spec
  <1> QED
    BY <1>1, <1>2, <1>3, CommandsAlwaysAtomic, PTL DEF CommandsAreAtomic

----------------------------------------------------------------------------
(* TransfersConserveStock.  AtomicInventory makes a transfer as a whole,   *)
(* so under a client's key the book has all legs of one transfer, each out *)
(* and in, or none; the ledger has one movement for each posting of the    *)
(* book, because no key is posted twice.                                   *)

Between(book, kind, client) == {x \in book : x.key.kind = kind /\ x.key.client = client}

OutOf(c, legs, i) == TransferOut(c, c.sources[legs[i].at], legs[i].quantity, i - 1)

InTo(c, legs, i) == TransferIn(c, legs[i].quantity, i - 1)

NoLegsOf(book, client) == Between(book, "TRANSFER_OUT", client) = {} /\ Between(book, "TRANSFER_IN", client) = {}

AllLegsOf(book, c, n, legs) ==
    /\ n >= 1 /\ legs \in Legs(c, n) /\ MovedBy(legs, n) = c.quantity
    /\ Between(book, "TRANSFER_OUT", c.client) = {OutOf(c, legs, i) : i \in 1..n}
    /\ Between(book, "TRANSFER_IN", c.client) = {InTo(c, legs, i) : i \in 1..n}

TransferMade(book, client) ==
    \E c \in Commands : /\ c.op = "TRANSFER" /\ c.client = client
                        /\ \E n \in Nat : \E legs \in Legs(c, n) : AllLegsOf(book, c, n, legs)

TransfersWhole(book) == \A client \in ClientKeys : NoLegsOf(book, client) \/ TransferMade(book, client)

ConservationInv == RefinementInv /\ TransfersWhole(BookOf(db.moves))

\* A list of postings adds some of them and takes nothing away.
LEMMA PostAllAdds ==
    ASSUME NEW s \in Books, NEW postings \in Seq(Postings)
    PROVE  /\ s.posted \subseteq PostAll(s, postings).posted
           /\ PostAll(s, postings).posted \subseteq s.posted \cup {postings[i] : i \in 1..Len(postings)}
  <1> DEFINE all == s.posted \cup {postings[i] : i \in 1..Len(postings)}
             Added == {r \in Books : s.posted \subseteq r.posted /\ r.posted \subseteq all}
  <1>1. s \in Added
    OBVIOUS
  <1>2. ASSUME NEW r \in Added, NEW n \in 1..Len(postings)
        PROVE  OneMore(r, postings[n]) \in Added
    <2>1. postings[n] \in Postings /\ postings[n] \in all
      OBVIOUS
    <2>2. r \in Books /\ s.posted \subseteq r.posted /\ r.posted \subseteq all
      OBVIOUS
    <2> DEFINE x == postings[n]
    <2> HIDE DEF all, x
    <2>3. /\ OneMore(r, x) \in Books
          /\ OneMore(r, x).posted = r.posted \/ OneMore(r, x).posted = r.posted \cup {x}
      BY <2>1, <2>2, OneMoreEffect DEF x
    <2>4. OneMore(r, x) \in Added
      BY <2>1, <2>2, <2>3 DEF x
    <2> QED
      BY <2>4 DEF x
  <1> HIDE DEF Added
  <1>3. Fold!Folded(s, postings) \in Added
    BY <1>1, <1>2, Fold!FoldLeftKeeps
  <1> QED
    BY <1>3, PostAllIsFold DEF Added

\* Under new keys, each its own, it adds all of them.
LEMMA PostAllNewKeys ==
    ASSUME NEW s \in Books, NEW postings \in Seq(Postings),
           \A i \in 1..Len(postings) : ~Taken(s.posted, postings[i].key),
           \A i, j \in 1..Len(postings) : postings[i].key = postings[j].key => i = j
    PROVE  PostAll(s, postings).posted = s.posted \cup {postings[i] : i \in 1..Len(postings)}
  <1> DEFINE end == PostAll(s, postings).posted
             all == {postings[i] : i \in 1..Len(postings)}
  <1>1. s.posted \subseteq end /\ end \subseteq s.posted \cup all
    BY PostAllAdds
  <1>2. ASSUME NEW i \in 1..Len(postings)
        PROVE  postings[i] \in end
    <2>1. PICK z \in end : z.key = postings[i].key
      BY AllTaken DEF Taken
    <2>2. z \notin s.posted
      BY <2>1 DEF Taken
    <2>3. PICK j \in 1..Len(postings) : z = postings[j]
      BY <1>1, <2>1, <2>2
    <2>4. j = i
      BY <2>1, <2>3
    <2> QED
      BY <2>1, <2>3, <2>4
  <1> QED
    BY <1>1, <1>2

\* The legs' postings and their keys.
LEMMA LegPostings ==
    ASSUME NEW c \in TransferCommands, NEW n \in Nat, NEW legs \in Legs(c, n), NEW i \in 1..n
    PROVE  /\ OutOf(c, legs, i) \in Postings /\ InTo(c, legs, i) \in Postings
           /\ OutOf(c, legs, i).key = Key("TRANSFER_OUT", c.client, i - 1)
           /\ InTo(c, legs, i).key = Key("TRANSFER_IN", c.client, i - 1)
           /\ OutOf(c, legs, i).delta.onHand = -legs[i].quantity
           /\ InTo(c, legs, i).delta.onHand = legs[i].quantity
           /\ legs[i].quantity \in Nat
  <1>1. i - 1 \in Nat
    OBVIOUS
  <1>2. legs[i] \in Leg(c)
    BY DEF Legs, Leg
  <1>3. legs[i].at \in DOMAIN c.sources /\ legs[i].quantity \in 1..c.quantity
    BY <1>2 DEF Leg
  <1>4. c.sources[legs[i].at] \in Balances
    BY <1>3 DEF TransferCommands
  <1>5. legs[i].quantity \in Nat /\ legs[i].quantity \in Int
    BY <1>3
  <1>6. OutOf(c, legs, i) \in Postings /\ InTo(c, legs, i) \in Postings
    BY <1>1, <1>4, <1>5, TransferPostingTypes DEF OutOf, InTo
  <1>7. /\ OutOf(c, legs, i).key = Key("TRANSFER_OUT", c.client, i - 1)
        /\ InTo(c, legs, i).key = Key("TRANSFER_IN", c.client, i - 1)
    BY DEF OutOf, InTo, TransferOut, TransferIn, Posting
  <1>8. OutOf(c, legs, i).delta.onHand = -legs[i].quantity /\ InTo(c, legs, i).delta.onHand = legs[i].quantity
    BY DEF OutOf, InTo, TransferOut, TransferIn, Posting, OnHand
  <1> QED
    BY <1>5, <1>6, <1>7, <1>8

\* Different kinds, clients or numbers make different keys.
LEMMA KeysDiffer ==
    ASSUME NEW kind, NEW client, NEW n
    PROVE  /\ Key(kind, client, n).kind = kind /\ Key(kind, client, n).client = client
           /\ Key(kind, client, n).index = n
  BY DEF Key

\* The postings of a transfer are those of its legs, under keys of their own.
LEMMA PairsPosted ==
    ASSUME NEW c \in TransferCommands, NEW n \in Nat, NEW legs \in Legs(c, n)
    PROVE  /\ Abstract!Pairs(c, legs) \in Seq(Postings) /\ Len(Abstract!Pairs(c, legs)) = 2 * n
           /\ {Abstract!Pairs(c, legs)[j] : j \in 1..(2 * n)} =
                 {OutOf(c, legs, i) : i \in 1..n} \cup {InTo(c, legs, i) : i \in 1..n}
           /\ \A j, k \in 1..(2 * n) : Abstract!Pairs(c, legs)[j].key = Abstract!Pairs(c, legs)[k].key => j = k
           /\ \A j \in 1..(2 * n) : /\ Abstract!Pairs(c, legs)[j].key.kind \in {"TRANSFER_OUT", "TRANSFER_IN"}
                                    /\ Abstract!Pairs(c, legs)[j].key.client = c.client
  <1> DEFINE Half(j) == (j + 1) \div 2
             postings == Abstract!Pairs(c, legs)
  <1>1. legs \in [1..n -> Leg(c)]
    BY DEF Legs, Leg
  <1>2. postings = [j \in 1..(2 * n) |-> IF j % 2 = 1 THEN OutOf(c, legs, Half(j)) ELSE InTo(c, legs, Half(j))]
    BY <1>1, PairsAre DEF OutOf, InTo
  <1>3. \A j \in 1..(2 * n) : Half(j) \in 1..n
    OBVIOUS
  <1>4. \A j, k \in 1..(2 * n) : Half(j) = Half(k) /\ (j % 2 = 1 <=> k % 2 = 1) => j = k
    OBVIOUS
  <1>5. \A i \in 1..n : /\ 2 * i - 1 \in 1..(2 * n) /\ Half(2 * i - 1) = i /\ (2 * i - 1) % 2 = 1
                        /\ 2 * i \in 1..(2 * n) /\ Half(2 * i) = i /\ (2 * i) % 2 # 1
    OBVIOUS
  <1> HIDE DEF Half, postings
  <1>6. \A j \in 1..(2 * n) : /\ postings[j] \in Postings
                              /\ j % 2 = 1 => postings[j] = OutOf(c, legs, Half(j))
                              /\ j % 2 # 1 => postings[j] = InTo(c, legs, Half(j))
    BY <1>2, <1>3, LegPostings
  <1>7. postings \in Seq(Postings) /\ Len(postings) = 2 * n
    <2>1. 2 * n \in Nat /\ postings \in [1..(2 * n) -> Postings]
      BY <1>2, <1>6
    <2> QED
      BY <2>1
  <1>8. {postings[j] : j \in 1..(2 * n)} = {OutOf(c, legs, i) : i \in 1..n} \cup {InTo(c, legs, i) : i \in 1..n}
    <2>1. ASSUME NEW j \in 1..(2 * n)
          PROVE  postings[j] \in {OutOf(c, legs, i) : i \in 1..n} \cup {InTo(c, legs, i) : i \in 1..n}
      BY <1>3, <1>6
    <2>2. ASSUME NEW i \in 1..n
          PROVE  /\ OutOf(c, legs, i) \in {postings[j] : j \in 1..(2 * n)}
                 /\ InTo(c, legs, i) \in {postings[j] : j \in 1..(2 * n)}
      BY <1>5, <1>6
    <2> QED
      BY <2>1, <2>2
  <1>9. ASSUME NEW j \in 1..(2 * n)
        PROVE  /\ postings[j].key = Key(IF j % 2 = 1 THEN "TRANSFER_OUT" ELSE "TRANSFER_IN", c.client, Half(j) - 1)
               /\ Half(j) - 1 \in Nat /\ Half(j) \in 1..n
    <2>1. Half(j) \in 1..n
      BY <1>3
    <2>2. /\ OutOf(c, legs, Half(j)).key = Key("TRANSFER_OUT", c.client, Half(j) - 1)
          /\ InTo(c, legs, Half(j)).key = Key("TRANSFER_IN", c.client, Half(j) - 1)
      BY <2>1, LegPostings
    <2>3. \A i \in 1..n : i - 1 \in Nat
      OBVIOUS
    <2> QED
      BY <1>6, <2>1, <2>2, <2>3
  <1>10. ASSUME NEW j \in 1..(2 * n)
         PROVE  /\ postings[j].key.kind = IF j % 2 = 1 THEN "TRANSFER_OUT" ELSE "TRANSFER_IN"
                /\ postings[j].key.client = c.client /\ postings[j].key.index = Half(j) - 1
    BY <1>9, KeysDiffer
  <1>11. ASSUME NEW j \in 1..(2 * n), NEW k \in 1..(2 * n), postings[j].key = postings[k].key
         PROVE  j = k
    <2>1. Half(j) - 1 = Half(k) - 1 /\ (j % 2 = 1 <=> k % 2 = 1)
      BY <1>10, <1>11
    <2>2. \A a, b \in 1..n : a - 1 = b - 1 => a = b
      OBVIOUS
    <2>3. Half(j) = Half(k)
      BY <1>3, <2>1, <2>2
    <2> QED
      BY <1>4, <2>1, <2>3
  <1> QED
    BY <1>7, <1>8, <1>10, <1>11 DEF postings

\* A command whose postings have no key of a transfer leaves every transfer as it was.
LEMMA OthersKeepTransfers ==
    ASSUME NEW book \in SUBSET Postings, TransfersWhole(book), NEW more, book \subseteq more,
           \A x \in more \ book : x.key.kind \notin {"TRANSFER_OUT", "TRANSFER_IN"}
    PROVE  TransfersWhole(more)
  <1>1. \A kind \in {"TRANSFER_OUT", "TRANSFER_IN"} : \A client : Between(more, kind, client) = Between(book, kind, client)
    BY DEF Between
  <1>2. \A client : NoLegsOf(more, client) <=> NoLegsOf(book, client)
    BY <1>1 DEF NoLegsOf
  <1>3. \A c, n, legs : AllLegsOf(more, c, n, legs) <=> AllLegsOf(book, c, n, legs)
    BY <1>1 DEF AllLegsOf
  <1>4. \A client : TransferMade(more, client) <=> TransferMade(book, client)
    BY <1>3 DEF TransferMade
  <1> QED
    BY <1>2, <1>4 DEF TransfersWhole

\* A transfer is made whole, and only where its key was not used for one.
LEMMA TransferKeepsTransfers ==
    ASSUME NEW book \in SUBSET Postings, TransfersWhole(book), NEW c \in Commands, c.op = "TRANSFER",
           ~Taken(book, TransferIn(c, c.quantity, 0).key),
           NEW n \in 1..Len(c.sources), NEW legs \in Legs(c, n), MovedBy(legs, n) = c.quantity,
           NEW s \in Books, s.posted = book
    PROVE  TransfersWhole(PostAll(s, Abstract!Pairs(c, legs)).posted)
  <1>0. c \in TransferCommands /\ n \in Nat /\ n >= 1
    <2>1. c \in TransferCommands
      BY CommandKinds
    <2>2. c.sources \in Seq(Balances)
      BY <2>1 DEF TransferCommands
    <2> QED
      BY <2>1, <2>2
  <1>1. TransferIn(c, c.quantity, 0).key = Key("TRANSFER_IN", c.client, 0)
    BY DEF TransferIn, Posting
  <1>2. NoLegsOf(book, c.client)
    <2>1. c.client \in ClientKeys
      BY <1>0 DEF TransferCommands
    <2>2. ASSUME TransferMade(book, c.client)
          PROVE  FALSE
      <3>1. PICK d \in Commands, m \in Nat : /\ d.op = "TRANSFER" /\ d.client = c.client
                                            /\ \E l \in Legs(d, m) : AllLegsOf(book, d, m, l)
        BY <2>2 DEF TransferMade
      <3>2. PICK l \in Legs(d, m) : AllLegsOf(book, d, m, l)
        BY <3>1
      <3>3. d \in TransferCommands /\ 1 \in 1..m /\ 1 - 1 = 0
        BY <3>1, <3>2, CommandKinds DEF AllLegsOf
      <3>4. InTo(d, l, 1).key = Key("TRANSFER_IN", c.client, 0)
        BY <3>1, <3>3, LegPostings
      <3>5. InTo(d, l, 1) \in book
        <4>1. InTo(d, l, 1) \in Between(book, "TRANSFER_IN", d.client)
          BY <3>2, <3>3 DEF AllLegsOf
        <4> QED
          BY <4>1 DEF Between
      <3> QED
        BY <1>1, <3>4, <3>5 DEF Taken
    <2> QED
      BY <2>1, <2>2 DEF TransfersWhole
  <1> DEFINE postings == Abstract!Pairs(c, legs)
             outs == {OutOf(c, legs, i) : i \in 1..n}
             ins  == {InTo(c, legs, i) : i \in 1..n}
             more == PostAll(s, postings).posted
  <1>3. /\ postings \in Seq(Postings) /\ Len(postings) = 2 * n
        /\ {postings[j] : j \in 1..(2 * n)} = outs \cup ins
        /\ \A j, k \in 1..(2 * n) : postings[j].key = postings[k].key => j = k
        /\ \A j \in 1..(2 * n) : /\ postings[j].key.kind \in {"TRANSFER_OUT", "TRANSFER_IN"}
                                 /\ postings[j].key.client = c.client
    BY <1>0, PairsPosted
  <1>4. \A x \in outs : x.key.kind = "TRANSFER_OUT" /\ x.key.client = c.client
    BY <1>0, LegPostings, KeysDiffer
  <1>5. \A x \in ins : x.key.kind = "TRANSFER_IN" /\ x.key.client = c.client
    BY <1>0, LegPostings, KeysDiffer
  <1> HIDE DEF postings, outs, ins
  <1>6. \A j \in 1..(2 * n) : ~Taken(s.posted, postings[j].key)
    BY <1>2, <1>3 DEF NoLegsOf, Between, Taken
  <1>7. more = book \cup (outs \cup ins)
    <2>1. /\ \A j \in 1..Len(postings) : ~Taken(s.posted, postings[j].key)
          /\ \A j, k \in 1..Len(postings) : postings[j].key = postings[k].key => j = k
      BY <1>3, <1>6
    <2>2. PostAll(s, postings).posted = s.posted \cup {postings[j] : j \in 1..Len(postings)}
      BY <1>3, <2>1, PostAllNewKeys
    <2> QED
      BY <1>3, <2>2
  <1> HIDE DEF more
  <1>8. Between(more, "TRANSFER_OUT", c.client) = outs /\ Between(more, "TRANSFER_IN", c.client) = ins
    BY <1>2, <1>4, <1>5, <1>7 DEF NoLegsOf, Between
  <1>9. AllLegsOf(more, c, n, legs)
    BY <1>0, <1>8 DEF AllLegsOf, outs, ins
  <1>10. ASSUME NEW client \in ClientKeys, client # c.client
         PROVE  NoLegsOf(more, client) \/ TransferMade(more, client)
    <2>1. \A kind : Between(more, kind, client) = Between(book, kind, client)
      BY <1>4, <1>5, <1>7, <1>10 DEF Between
    <2>2. NoLegsOf(book, client) \/ TransferMade(book, client)
      BY DEF TransfersWhole
    <2>3. CASE NoLegsOf(book, client)
      BY <2>1, <2>3 DEF NoLegsOf
    <2>4. CASE TransferMade(book, client)
      <3>1. PICK d \in Commands, m \in Nat : /\ d.op = "TRANSFER" /\ d.client = client
                                            /\ \E l \in Legs(d, m) : AllLegsOf(book, d, m, l)
        BY <2>4 DEF TransferMade
      <3>2. \E l \in Legs(d, m) : AllLegsOf(more, d, m, l)
        BY <2>1, <3>1 DEF AllLegsOf
      <3> QED
        BY <3>1, <3>2 DEF TransferMade
    <2> QED
      BY <2>2, <2>3, <2>4
  <1>11. TransferMade(more, c.client)
    BY <1>0, <1>9 DEF TransferMade
  <1> QED
    BY <1>10, <1>11 DEF TransfersWhole, more, postings

\* A step of AtomicInventory keeps the transfers whole.
LEMMA AtomicKeepsTransfers ==
    ASSUME InventoryInv, TransfersWhole(BookOf(db.moves)), Abstract!Next
    PROVE  TransfersWhole(BookOf(db'.moves))
  <1>1. PICK s : s = Present(db)
    OBVIOUS
  <1>2. PICK book : book = BookOf(db.moves)
    OBVIOUS
  <1>3. PICK more : more = BookOf(db'.moves)
    OBVIOUS
  <1>4. s \in Books /\ s.posted = book /\ book \in SUBSET Postings
    <2>1. db \in Inventories
      BY DEF InventoryInv, TypeOK
    <2> QED
      BY <1>1, <1>2, <2>1, PresentType DEF Books
  <1>5. ASSUME NEW postings, Abstract!Execute(postings)
        PROVE  more = PostAll(s, postings).posted
    <2>1. BookOf(db'.moves) = Abstract!PostAll([stock |-> [b \in Balances |-> db.rows[b].quantities],
                                                posted |-> BookOf(db.moves), ok |-> TRUE], postings).posted
      BY <1>5 DEF Abstract!Execute
    <2> QED
      BY <1>1, <1>3, <2>1, AbstractOperators DEF Present, StockOf
  <1>6. ASSUME NEW postings \in Seq(Postings), Abstract!Execute(postings),
               \A j \in 1..Len(postings) : postings[j].key.kind \notin {"TRANSFER_OUT", "TRANSFER_IN"}
        PROVE  TransfersWhole(more)
    <2>1. more = PostAll(s, postings).posted
      BY <1>5, <1>6
    <2>2. book \subseteq more /\ more \subseteq book \cup {postings[j] : j \in 1..Len(postings)}
      BY <1>4, <2>1, PostAllAdds
    <2>3. \A x \in more \ book : x.key.kind \notin {"TRANSFER_OUT", "TRANSFER_IN"}
      BY <1>6, <2>2
    <2> QED
      BY <1>2, <1>4, <2>2, <2>3, OthersKeepTransfers
  <1>7. ASSUME NEW x \in Postings, x.key.kind \notin {"TRANSFER_OUT", "TRANSFER_IN"}, Abstract!Execute(<<x>>)
        PROVE  TransfersWhole(more)
    <2>1. <<x>> \in Seq(Postings) /\ \A j \in 1..Len(<<x>>) : <<x>>[j] = x
      OBVIOUS
    <2> QED
      BY <1>6, <1>7, <2>1
  <1>8. PICK c \in Commands :
          \/ c.op = "ADJUST" /\ Abstract!Execute(<<Abstract!AdjustPosting(c)>>)
          \/ c.op = "REVERSE" /\ Abstract!ExecuteReversal(c)
          \/ c.op = "TRANSFER" /\ Abstract!ExecuteTransfer(c)
          \/ c.op = "DOCUMENT" /\ Abstract!Execute(c.postings)
    BY DEF Abstract!Next
  <1>9. CASE c.op = "ADJUST" /\ Abstract!Execute(<<Abstract!AdjustPosting(c)>>)
    <2>1. c \in AdjustCommands
      BY <1>9, CommandKinds
    <2>2. AdjustPosting(c) \in Postings
      BY <2>1, AdjustPostingType
    <2>3. AdjustPosting(c).key.kind = "ADJUSTMENT"
      BY DEF AdjustPosting, AdjustKey, Posting, Key
    <2>4. Abstract!Execute(<<AdjustPosting(c)>>)
      BY <1>9, AbstractOperators
    <2> QED
      BY <1>3, <1>7, <2>2, <2>3, <2>4
  <1>10. CASE c.op = "REVERSE" /\ Abstract!ExecuteReversal(c)
    <2>1. PICK original \in book :
            Abstract!Execute(<<Abstract!ReversalPosting(c, [posting |-> original])>>)
      BY <1>2, <1>10 DEF Abstract!ExecuteReversal
    <2> DEFINE x == ReversalPosting(c, [posting |-> original])
    <2>2. Abstract!Execute(<<x>>)
      BY <2>1, AbstractOperators
    <2>3. x.key.kind = "REVERSAL"
      BY DEF ReversalPosting, Reversal, Posting, Key
    <2>4. x \in Postings
      <3>1. original \in Postings /\ c \in ReverseCommands
        BY <1>4, <1>10, CommandKinds
      <3>2. c.client \in ClientKeys
        BY <3>1 DEF ReverseCommands
      <3>3. Key("REVERSAL", c.client, 0) \in Keys
        BY <3>2, KeyType DEF KeyKinds
      <3>4. /\ original.balance \in Balances /\ original.quantity \in Int /\ original.delta \in Deltas
            /\ original.key \in Keys
        BY <3>1 DEF Postings
      <3>5. Negated(original.delta) \in Deltas
        BY <3>4, DeltaType
      <3>6. "REVERSAL" \in MovementTypes
        BY DEF MovementTypes
      <3> QED
        BY <3>3, <3>4, <3>5, <3>6, PostingType DEF ReversalPosting, Reversal
    <2> HIDE DEF x
    <2> QED
      BY <1>3, <1>7, <2>2, <2>3, <2>4
  <1>11. CASE c.op = "TRANSFER" /\ Abstract!ExecuteTransfer(c)
    <2>1. ~Taken(book, TransferIn(c, c.quantity, 0).key)
      BY <1>2, <1>11, AbstractOperators DEF Abstract!ExecuteTransfer
    <2>2. PICK n \in 1..Len(c.sources) :
            \E legs \in Legs(c, n) : /\ Abstract!SumFunctionOnSet([i \in 1..n |-> legs[i].quantity], 1..n) = c.quantity
                                     /\ Abstract!Execute(Abstract!Pairs(c, legs))
      BY <1>11 DEF Abstract!ExecuteTransfer, Legs
    <2>3. PICK legs \in Legs(c, n) : /\ MovedBy(legs, n) = c.quantity
                                    /\ Abstract!Execute(Abstract!Pairs(c, legs))
      BY <2>2, AbstractOperators DEF MovedBy
    <2>4. TransfersWhole(PostAll(s, Abstract!Pairs(c, legs)).posted)
      BY <1>2, <1>4, <1>11, <2>1, <2>3, TransferKeepsTransfers
    <2> QED
      BY <1>3, <1>5, <2>3, <2>4
  <1>12. CASE c.op = "DOCUMENT" /\ Abstract!Execute(c.postings)
    <2>1. c \in DocumentCommands
      BY <1>12, CommandKinds
    <2>2. c.postings \in Seq(DocumentPostings)
      BY <2>1 DEF DocumentCommands
    <2>3. DocumentPostings \subseteq Postings
          /\ \A x \in DocumentPostings : x.key.kind \notin {"TRANSFER_OUT", "TRANSFER_IN"}
      BY DEF DocumentPostings
    <2>4. \A j \in 1..Len(c.postings) : c.postings[j] \in DocumentPostings
      BY <2>2, ElementOfSeq
    <2>5. c.postings \in Seq(Postings)
      BY <2>2, <2>3
    <2> QED
      BY <1>3, <1>6, <1>12, <2>3, <2>4, <2>5
  <1> QED
    BY <1>8, <1>9, <1>10, <1>11, <1>12

\* A posting of the book is one of a movement.
LEMMA InBook ==
    ASSUME NEW moves, NEW x
    PROVE  x \in BookOf(moves) <=> \E b \in Balances : \E j \in DOMAIN moves[b] : moves[b][j].posting = x
  <1>1. ASSUME x \in BookOf(moves)
        PROVE  \E b \in Balances : \E j \in DOMAIN moves[b] : moves[b][j].posting = x
    <2>1. PICK b \in Balances : x \in {moves[b][j].posting : j \in DOMAIN moves[b]}
      BY <1>1 DEF BookOf
    <2> QED
      BY <2>1
  <1>2. ASSUME NEW b \in Balances, NEW j \in DOMAIN moves[b], moves[b][j].posting = x
        PROVE  x \in BookOf(moves)
    <2>1. x \in {moves[b][i].posting : i \in DOMAIN moves[b]}
      BY <1>2
    <2> QED
      BY <2>1 DEF BookOf
  <1> QED
    BY <1>1, <1>2

\* The movements of one direction under a client's key, counted by the postings they have.
LEMMA MovedIs ==
    ASSUME InventoryInv, NEW kind, NEW client, NEW n \in Nat, NEW x \in [1..n -> Postings], NEW g,
           Between(BookOf(db.moves), kind, client) = {x[i] : i \in 1..n},
           \A i, j \in 1..n : x[i] = x[j] => i = j,
           \A i \in 1..n : g[i] = x[i].delta.onHand
    PROVE  Moved(kind, client) = SumFunctionOnSet(g, 1..n)
  <1> DEFINE M == MovesOf(kind, client)
             At(m) == db.moves[m[1]][m[2]].posting
             f == [m \in M |-> At(m).delta.onHand]
             F == [i \in 1..n |-> {m \in M : At(m) = x[i]}]
  <1>1. db \in Inventories /\ KeysDistinct(db.moves)
    BY DEF InventoryInv, TypeOK, Sound
  <1>2. \A m : m \in M <=> /\ m = <<m[1], m[2]>> /\ m[1] \in Balances /\ m[2] \in DOMAIN db.moves[m[1]]
                           /\ At(m).key.kind = kind /\ At(m).key.client = client
    <2>1. ASSUME NEW m \in M
          PROVE  /\ m = <<m[1], m[2]>> /\ m[1] \in Balances /\ m[2] \in DOMAIN db.moves[m[1]]
                 /\ At(m).key.kind = kind /\ At(m).key.client = client
      <3>1. PICK b \in Balances : m \in {<<b, i>> : i \in {j \in DOMAIN db.moves[b] :
                  /\ db.moves[b][j].posting.key.kind = kind /\ db.moves[b][j].posting.key.client = client}}
        BY <2>1 DEF MovesOf
      <3>2. PICK i \in DOMAIN db.moves[b] : /\ m = <<b, i>> /\ db.moves[b][i].posting.key.kind = kind
                                            /\ db.moves[b][i].posting.key.client = client
        BY <3>1
      <3> QED
        BY <3>2
    <2>2. ASSUME NEW m, m = <<m[1], m[2]>>, m[1] \in Balances, m[2] \in DOMAIN db.moves[m[1]],
                 At(m).key.kind = kind, At(m).key.client = client
          PROVE  m \in M
      BY <2>2 DEF MovesOf
    <2> QED
      BY <2>1, <2>2
  <1>3. \A m \in M : At(m) \in {x[i] : i \in 1..n}
    <2>1. ASSUME NEW m \in M
          PROVE  At(m) \in Between(BookOf(db.moves), kind, client)
      <3>1. At(m) \in BookOf(db.moves)
        BY <1>2, InBook
      <3> QED
        BY <1>2, <3>1 DEF Between
    <2> QED
      BY <2>1
  <1>4. \A i \in 1..n : \E m \in M : At(m) = x[i]
    <2>1. ASSUME NEW i \in 1..n
          PROVE  \E m \in M : At(m) = x[i]
      <3>1. x[i] \in BookOf(db.moves) /\ x[i].key.kind = kind /\ x[i].key.client = client
        BY DEF Between
      <3>2. PICK b \in Balances : \E j \in DOMAIN db.moves[b] : db.moves[b][j].posting = x[i]
        BY <3>1, InBook
      <3>0. PICK j \in DOMAIN db.moves[b] : db.moves[b][j].posting = x[i]
        BY <3>2
      <3>3. <<b, j>>[1] = b /\ <<b, j>>[2] = j
        OBVIOUS
      <3>4. At(<<b, j>>) = x[i] /\ <<b, j>> \in M
        BY <1>2, <3>0, <3>1, <3>3
      <3> QED
        BY <3>4
    <2> QED
      BY <2>1
  <1>5. \A m, o \in M : At(m) = At(o) => m = o
    <2>1. ASSUME NEW m \in M, NEW o \in M, At(m) = At(o)
          PROVE  m = o
      <3>1. /\ m = <<m[1], m[2]>> /\ m[1] \in Balances /\ m[2] \in DOMAIN db.moves[m[1]]
            /\ o = <<o[1], o[2]>> /\ o[1] \in Balances /\ o[2] \in DOMAIN db.moves[o[1]]
        BY <1>2
      <3>2. m[1] = o[1] /\ m[2] = o[2]
        BY <1>1, <2>1, <3>1 DEF KeysDistinct
      <3> QED
        BY <3>1, <3>2
    <2> QED
      BY <2>1
  <1>6. \A i \in 1..n : x[i].delta.onHand \in Int
    BY DEF Postings, Deltas
  <1> HIDE DEF M, At
  <1>7. UNION {F[i] : i \in 1..n} = M
    BY <1>3
  <1>8. ASSUME NEW i \in 1..n
        PROVE  /\ Fold!IsFiniteSet(F[i]) /\ Fold!IntegersOn(f, F[i])
               /\ g[i] = Fold!SumFunctionOnSet(f, F[i])
    <2>1. PICK m \in M : At(m) = x[i]
      BY <1>4
    <2>2. F[i] = {m} /\ f[m] = g[i] /\ f[m] \in Int
      BY <1>5, <1>6, <2>1
    <2>3. PICK none : none = {}
      OBVIOUS
    <2>4. IsFiniteSet(none) /\ IsFiniteSet({m}) /\ m \notin none /\ none \cup {m} = {m}
      BY <2>3, FS_EmptySet, FS_Singleton
    <2>5. Fold!IsFiniteSet(none) /\ Fold!IsFiniteSet({m})
      BY <2>4, FiniteIsFinite
    <2>6. Fold!SumFunctionOnSet(f, none) = 0
      BY <2>3, Fold!SumOfNone
    <2> HIDE DEF f, F
    <2>7. Fold!IntegersOn(f, none) /\ Fold!IntegersOn(f, {m})
      BY <2>2, <2>3 DEF Fold!IntegersOn
    <2>8. Fold!SumFunctionOnSet(f, none \cup {m}) = Fold!SumFunctionOnSet(f, none) + f[m]
      BY <2>2, <2>4, <2>5, <2>7, Fold!SumWithOneMore
    <2>9. Fold!SumFunctionOnSet(f, {m}) = f[m]
      <3>1. Fold!SumFunctionOnSet(f, {m}) = 0 + f[m]
        BY <2>4, <2>6, <2>8
      <3>2. \A k \in Int : 0 + k = k
        OBVIOUS
      <3> QED
        BY <2>2, <3>1, <3>2
    <2> QED
      BY <2>2, <2>5, <2>7, <2>9
  <1>9. \A i, j \in 1..n : F[i] \cap F[j] # {} => i = j
    OBVIOUS
  <1>10. Fold!IsFiniteSet(1..n)
    <2>1. n \in Int /\ 1 \in Int
      OBVIOUS
    <2>2. IsFiniteSet(1..n)
      BY <2>1, FS_Interval
    <2> QED
      BY <2>2, FiniteIsFinite
  <1> HIDE DEF f, F
  <1>11. Fold!SumFunctionOnSet(f, UNION {F[i] : i \in 1..n}) = Fold!SumFunctionOnSet(g, 1..n)
    <2>1. PICK S : S = 1..n
      OBVIOUS
    <2>2. /\ Fold!IsFiniteSet(S)
          /\ \A i \in S : /\ Fold!IsFiniteSet(F[i]) /\ Fold!IntegersOn(f, F[i])
                          /\ g[i] = Fold!SumFunctionOnSet(f, F[i])
          /\ \A i, j \in S : F[i] \cap F[j] # {} => i = j
      BY <1>8, <1>9, <1>10, <2>1
    <2>3. Fold!SumFunctionOnSet(f, UNION {F[i] : i \in S}) = Fold!SumFunctionOnSet(g, S)
      BY <2>2, Fold!SumOfFamily
    <2> QED
      BY <2>1, <2>3
  <1>12. Moved(kind, client) = SumFunctionOnSet(f, M)
    BY DEF Moved, f, M, At
  <1> QED
    BY <1>7, <1>11, <1>12, SumIsSum

\* Where the book has no leg, nothing moved.
LEMMA NoLegsMoveNothing ==
    ASSUME InventoryInv, NEW kind, NEW client, Between(BookOf(db.moves), kind, client) = {}
    PROVE  Moved(kind, client) = 0
  <1>1. PICK n \in Nat : n = 0
    OBVIOUS
  <1>2. 1..n = {}
    BY <1>1
  <1>3. PICK x : x = [i \in 1..n |-> i]
    OBVIOUS
  <1>4. /\ x \in [1..n -> Postings] /\ Between(BookOf(db.moves), kind, client) = {x[i] : i \in 1..n}
        /\ \A i, j \in 1..n : x[i] = x[j] => i = j
        /\ \A i \in 1..n : x[i] = x[i].delta.onHand
    BY <1>2, <1>3
  <1>5. Moved(kind, client) = SumFunctionOnSet(x, 1..n)
    BY <1>4, MovedIs
  <1>6. Fold!SumFunctionOnSet(x, {}) = 0
    BY Fold!SumOfNone
  <1> QED
    BY <1>2, <1>5, <1>6, SumIsSum

\* Where it has all legs of a transfer, they moved its quantity.
LEMMA AllLegsMoveAll ==
    ASSUME InventoryInv, NEW c \in TransferCommands, NEW n \in Nat, NEW legs \in Legs(c, n),
           AllLegsOf(BookOf(db.moves), c, n, legs)
    PROVE  Moved("TRANSFER_IN", c.client) = c.quantity /\ Moved("TRANSFER_OUT", c.client) = -c.quantity
  <1> DEFINE S == 1..n
             in == [i \in S |-> InTo(c, legs, i)]
             out == [i \in S |-> OutOf(c, legs, i)]
             f == [i \in S |-> legs[i].quantity]
             g == [i \in S |-> -legs[i].quantity]
  <1>1. \A i \in S : /\ in[i] \in Postings /\ in[i].delta.onHand = legs[i].quantity
                     /\ out[i] \in Postings /\ out[i].delta.onHand = -legs[i].quantity
                     /\ legs[i].quantity \in Nat
    BY LegPostings
  <1>2. \A i, j \in S : in[i] = in[j] \/ out[i] = out[j] => i = j
    <2>1. \A i \in S : in[i].key.index = i - 1 /\ out[i].key.index = i - 1
      BY LegPostings, KeysDiffer
    <2>2. \A i, j \in S : i - 1 = j - 1 => i = j
      OBVIOUS
    <2> HIDE DEF in, out, S
    <2> QED
      BY <2>1, <2>2
  <1>3. /\ Between(BookOf(db.moves), "TRANSFER_IN", c.client) = {in[i] : i \in S}
        /\ Between(BookOf(db.moves), "TRANSFER_OUT", c.client) = {out[i] : i \in S}
    BY DEF AllLegsOf
  <1>4. in \in [S -> Postings] /\ out \in [S -> Postings]
    BY <1>1
  <1>5. /\ \A i \in S : f[i] = in[i].delta.onHand /\ g[i] = out[i].delta.onHand /\ f[i] \in Nat /\ g[i] = -f[i]
    BY <1>1
  <1>6. MovedBy(legs, n) = SumFunctionOnSet(f, S) /\ MovedBy(legs, n) = c.quantity
    BY DEF AllLegsOf, MovedBy
  <1> HIDE DEF in, out, f, g
  <1>7. Moved("TRANSFER_IN", c.client) = SumFunctionOnSet(f, S)
    <2>1. \A i, j \in S : in[i] = in[j] => i = j
      BY <1>2
    <2>2. \A i \in S : f[i] = in[i].delta.onHand
      BY <1>5
    <2>3. Between(BookOf(db.moves), "TRANSFER_IN", c.client) = {in[i] : i \in S} /\ in \in [S -> Postings]
      BY <1>3, <1>4
    <2> QED
      BY <2>1, <2>2, <2>3, MovedIs, SMTT(60)
  <1>8. Moved("TRANSFER_OUT", c.client) = SumFunctionOnSet(g, S)
    <2>1. \A i, j \in S : out[i] = out[j] => i = j
      BY <1>2
    <2>2. \A i \in S : g[i] = out[i].delta.onHand
      BY <1>5
    <2>3. Between(BookOf(db.moves), "TRANSFER_OUT", c.client) = {out[i] : i \in S} /\ out \in [S -> Postings]
      BY <1>3, <1>4
    <2> QED
      BY <2>1, <2>2, <2>3, MovedIs
  <1>9. Fold!IsFiniteSet(S) /\ Fold!IntegersOn(f, S)
    <2>1. n \in Int /\ 1 \in Int
      OBVIOUS
    <2>2. IsFiniteSet(1..n)
      BY <2>1, FS_Interval
    <2> QED
      BY <1>5, <2>2, FiniteIsFinite DEF Fold!IntegersOn
  <1> HIDE DEF S
  <1>10. Fold!SumFunctionOnSet(g, S) = -Fold!SumFunctionOnSet(f, S)
    BY <1>5, <1>9, Fold!SumOfOpposites
  <1> QED
    BY <1>6, <1>7, <1>8, <1>10, SumIsSum

\* What the invariant says of the book, the ledger shows.
LEMMA WholeTransfersConserve ==
    ASSUME InventoryInv, TransfersWhole(BookOf(db.moves))
    PROVE  TransfersConserveStock
  <1>1. ASSUME NEW client \in ClientKeys, NoLegsOf(BookOf(db.moves), client)
        PROVE  Moved("TRANSFER_OUT", client) = 0 /\ Moved("TRANSFER_IN", client) = 0
    BY <1>1, NoLegsMoveNothing DEF NoLegsOf
  <1>2. ASSUME NEW client \in ClientKeys, TransferMade(BookOf(db.moves), client)
        PROVE  \E c \in Commands : /\ c.op = "TRANSFER" /\ c.client = client /\ c.quantity \in Int
                                   /\ Moved("TRANSFER_IN", client) = c.quantity
                                   /\ Moved("TRANSFER_OUT", client) = -c.quantity
    <2>1. PICK c \in Commands, n \in Nat : /\ c.op = "TRANSFER" /\ c.client = client
                                          /\ \E l \in Legs(c, n) : AllLegsOf(BookOf(db.moves), c, n, l)
      BY <1>2 DEF TransferMade
    <2>2. c \in TransferCommands
      BY <2>1, CommandKinds
    <2>3. c.quantity \in Int
      BY <2>2 DEF TransferCommands
    <2>4. Moved("TRANSFER_IN", c.client) = c.quantity /\ Moved("TRANSFER_OUT", c.client) = -c.quantity
      BY <2>1, <2>2, AllLegsMoveAll
    <2> QED
      BY <2>1, <2>3, <2>4
  <1>3. \A k \in Int : -k = 0 - k
    OBVIOUS
  <1>4. ASSUME NEW client \in ClientKeys
        PROVE  /\ Moved("TRANSFER_OUT", client) = -Moved("TRANSFER_IN", client)
               /\ \/ Moved("TRANSFER_IN", client) = 0
                  \/ \E c \in Commands : /\ c.op = "TRANSFER" /\ c.client = client
                                         /\ Moved("TRANSFER_IN", client) = c.quantity
    <2>1. CASE NoLegsOf(BookOf(db.moves), client)
      <3>1. Moved("TRANSFER_OUT", client) = 0 /\ Moved("TRANSFER_IN", client) = 0
        BY <1>1, <2>1
      <3>2. -Moved("TRANSFER_IN", client) = 0 - Moved("TRANSFER_IN", client)
        BY <1>3, <3>1
      <3>3. 0 - Moved("TRANSFER_IN", client) = 0
        BY <3>1
      <3> QED
        BY <3>1, <3>2, <3>3
    <2>2. CASE TransferMade(BookOf(db.moves), client)
      BY <1>2, <2>2
    <2> QED
      BY <2>1, <2>2 DEF TransfersWhole
  <1> QED
    BY <1>4 DEF TransfersConserveStock

\* In every reachable state each transfer stands in the ledger with all of its legs, each out and in, or with none.
THEOREM ConservationInvariant == Spec => []ConservationInv
  <1>1. Abstract!Init => TransfersWhole(BookOf(db.moves))
    <2> SUFFICES ASSUME Abstract!Init PROVE TransfersWhole(BookOf(db.moves))
      OBVIOUS
    <2>1. BookOf(db.moves) = {}
      BY DEF Abstract!Init
    <2> QED
      BY <2>1 DEF TransfersWhole, NoLegsOf, Between
  <1>2. RefinementInv /\ TransfersWhole(BookOf(db.moves)) /\ [db' = db \/ Abstract!Next]_db =>
            TransfersWhole(BookOf(db'.moves))
    <2> SUFFICES ASSUME RefinementInv, TransfersWhole(BookOf(db.moves)), [db' = db \/ Abstract!Next]_db
                 PROVE  TransfersWhole(BookOf(db'.moves))
      OBVIOUS
    <2>1. CASE db' = db
      <3>1. PICK moves : moves = db.moves
        OBVIOUS
      <3>2. db'.moves = moves
        BY <2>1, <3>1
      <3>3. TransfersWhole(BookOf(moves))
        BY <3>1
      <3> QED
        BY <3>2, <3>3
    <2>2. CASE Abstract!Next
      <3>1. InventoryInv
        BY DEF RefinementInv
      <3> QED
        BY <2>2, <3>1, AtomicKeepsTransfers
    <2> QED
      BY <2>1, <2>2
  <1>3. RefinementInv /\ TransfersWhole(BookOf(db.moves)) => ConservationInv
    BY DEF ConservationInv
  <1>4. TransfersWhole(BookOf(db.moves))' <=> TransfersWhole(BookOf(db'.moves))
    BY DEF TransfersWhole, NoLegsOf, TransferMade, AllLegsOf, Between, BookOf
  <1> QED
    BY <1>1, <1>2, <1>3, <1>4, RefinementInvariant, CommandsAlwaysAtomic, PTL DEF CommandsAreAtomic

\* However transfers race, repeat and are retried, what goes out under a client's key comes in, all of it or nothing.
THEOREM TransfersAlwaysConserveStock == Spec => []TransfersConserveStock
  <1>1. ConservationInv => TransfersConserveStock
    <2>1. ConservationInv => InventoryInv /\ TransfersWhole(BookOf(db.moves))
      BY DEF ConservationInv, RefinementInv
    <2> QED
      BY <2>1, WholeTransfersConserve
  <1> QED
    BY <1>1, ConservationInvariant, PTL
=============================================================================
