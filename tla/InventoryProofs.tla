-------------------------- MODULE InventoryProofs --------------------------
(***************************************************************************)
(* Proofs about Inventory: who may hold which locks, what the locks        *)
(* protect, that the books of the stock agree whatever transactions cross, *)
(* and that what expires first is sold first.                              *)
(***************************************************************************)
EXTENDS Inventory, Sums, FunctionTheorems

----------------------------------------------------------------------------
(* Types                                                                   *)

LotRow == [status : LotStatus \cup {"none"}, expiry : Nat, code : Nat]
OrderRow == [status : {"none", "live", "cancelled"}, cart : Seq(Demand)]
LockRow == [table : {"lot", "stock", "order"} \cup Items, id : Lots \cup Orders \cup Nat,
            mode : {"update", "share"}]
Piece == Lots \X (Nat \ {0})
Kinds == {"idle", "sale", "cancel", "dispose", "receive"}
Pcs == {"idle", "read", "take", "check", "restore", "commit", "insert"}

TxRow == [kind : Kinds, target : Orders \cup Lots \cup {NoTarget}, pc : Pcs, cart : Seq(Demand),
          todo : Seq(Demand \cup Piece), lot : LotRow, want : Seq(LockRow), rows : Seq(Lots),
          day : Nat, seen : Nat, moves : [Lots -> Seq(MovementRow)], held : SUBSET LockRow]

Types ==
  /\ today \in Days
  /\ lot \in [Lots -> LotRow] /\ stock \in [Lots -> Nat] /\ sold \in [Lots -> Nat]
  /\ ledger \in [Lots -> Seq(MovementRow)]
  /\ order \in [Orders -> OrderRow] /\ alloc \in [Orders -> [Lots -> Seq(Nat \ {0})]]
  /\ tx \in [Sessions -> TxRow]

\* What the transactions of each kind are about: a sale about an order nobody else sees,
\* a cancellation about an order that exists and allocations it has, the others about a lot.
SaleRole(s) ==
  tx[s].kind = "sale" =>
    /\ tx[s].target \in Orders /\ order[tx[s].target].status = "none"
    /\ tx[s].todo \in Seq(Demand) /\ tx[s].pc \in {"read", "take"}
    /\ tx[s].pc = "take" => tx[s].todo # <<>>
    /\ \A i \in DOMAIN tx[s].want : tx[s].want[i].id \in Lots
    /\ \A i \in DOMAIN tx[s].rows : lot[tx[s].rows[i]].status # "none"

CancelRole(s) ==
  tx[s].kind = "cancel" =>
    /\ tx[s].target \in Orders /\ order[tx[s].target].status # "none"
    /\ tx[s].todo \in Seq(Piece) /\ tx[s].pc \in {"check", "restore", "commit"}
    /\ \A i \in DOMAIN tx[s].todo : tx[s].todo[i][2] \in DOMAIN alloc[tx[s].target][tx[s].todo[i][1]]

LotRole(s) ==
  /\ tx[s].kind = "idle" => tx[s] = NullTx
  /\ tx[s].kind \in {"receive", "dispose"} =>
       tx[s].target \in Lots /\ \A l \in Lots : tx[s].moves[l] = <<>>
  /\ tx[s].kind = "receive" => tx[s].lot.status \in LotStatus /\ tx[s].seen > 0
                               /\ lot[tx[s].target] = NoLot

\* A lot that was not received has no stock and no history, and no one sells it.
NothingOf(l) ==
  lot[l].status = "none" =>
    /\ lot[l] = NoLot /\ stock[l] = 0 /\ ledger[l] = <<>> /\ sold[l] = 0
    /\ \A o \in Orders : alloc[o][l] = <<>>
    /\ \A s \in Sessions : tx[s].moves[l] = <<>>

Roles ==
  /\ \A s \in Sessions : SaleRole(s) /\ CancelRole(s) /\ LotRole(s)
  /\ \A s, r \in Sessions :
       s # r /\ tx[s].kind = tx[r].kind /\ tx[s].kind \in {"sale", "receive"}
         => tx[s].target # tx[r].target
  /\ \A l \in Lots : NothingOf(l)

----------------------------------------------------------------------------
(* The effect of each action on the transaction that takes it              *)

\* What no step of a transaction changes.
Kept(t, u) ==
  u.kind = t.kind /\ u.target = t.target /\ u.cart = t.cart /\ u.lot = t.lot /\ u.seen = t.seen

\* A step changes the transaction of one session, and leaves it a transaction.
IsTx(u) == u \in [kind : {u.kind}, target : {u.target}, pc : {u.pc}, cart : {u.cart}, todo : {u.todo},
                  lot : {u.lot}, want : {u.want}, rows : {u.rows}, day : {u.day}, seen : {u.seen},
                  moves : {u.moves}, held : {u.held}]
OthersKept(s) ==
  /\ tx' = [tx EXCEPT ![s] = tx'[s]] /\ IsTx(tx'[s])
  /\ \A r \in Sessions : r # s => tx'[r] = tx[r]

LEMMA AcquireEffect ==
  ASSUME Types, NEW s \in Sessions, Acquire(s)
  PROVE  LET t == tx[s]
             u == tx'[s]
             k == Head(t.want)
         IN  /\ t.want # <<>> /\ \A r \in Sessions : ~Waits(s, r)
             /\ Kept(t, u) /\ u.pc = t.pc /\ u.todo = t.todo /\ u.day = t.day /\ u.moves = t.moves
             /\ u.want = Tail(t.want) /\ u.held = t.held \cup {k}
             /\ u.rows = IF t.kind = "sale" /\ k.table = "stock" /\ Sellable(s, k.id, t.day)
                           THEN Append(t.rows, k.id) ELSE t.rows
             /\ OthersKept(s) /\ committed' = committed
  <1> DEFINE k == Head(tx[s].want)
             rows == IF tx[s].kind = "sale" /\ k.table = "stock" /\ Sellable(s, k.id, tx[s].day)
                       THEN Append(tx[s].rows, k.id) ELSE tx[s].rows
  <1>1. /\ tx[s].want # <<>> /\ (\A r \in Sessions : ~Waits(s, r)) /\ committed' = committed
        /\ tx' = [tx EXCEPT ![s].want = Tail(@), ![s].held = @ \cup {k}, ![s].rows = rows]
    BY DEF Acquire, StillQualifies, committed
  <1> HIDE DEF k, rows
  <1>2. OthersKept(s)
    <2>1. IsTx(tx'[s])
      BY <1>1 DEF Types, TxRow, IsTx
    <2>2. tx' = [tx EXCEPT ![s] = tx'[s]] /\ \A r \in Sessions : r # s => tx'[r] = tx[r]
      BY <1>1 DEF Types
    <2> QED
      BY <2>1, <2>2 DEF OthersKept
  <1>3. /\ Kept(tx[s], tx'[s]) /\ tx'[s].pc = tx[s].pc /\ tx'[s].todo = tx[s].todo
        /\ tx'[s].day = tx[s].day /\ tx'[s].moves = tx[s].moves /\ tx'[s].want = Tail(tx[s].want)
        /\ tx'[s].held = tx[s].held \cup {k} /\ tx'[s].rows = rows
    BY <1>1 DEF Types, TxRow, Kept
  <1> QED
    BY <1>1, <1>2, <1>3 DEF k, rows

LEMMA ReadLotsEffect ==
  ASSUME Types, NEW s \in Sessions, ReadLots(s)
  PROVE  LET t == tx[s]
             u == tx'[s]
         IN  /\ Ready(s, "sale", "read") /\ t.todo # <<>>
             /\ Kept(t, u) /\ u.pc = "take" /\ u.todo = t.todo /\ u.day = today
             /\ u.moves = t.moves /\ u.held = t.held /\ u.rows = <<>>
             /\ \E q \in ByExpiry({l \in Lots : ItemOf[l] = Head(t.todo).item /\ Sellable(s, l, today)}) :
                  u.want = [i \in 1..(2 * Len(q)) |->
                              IF i % 2 = 1 THEN ForUpdate("lot", q[(i + 1) \div 2])
                                           ELSE ForUpdate("stock", q[i \div 2])]
             /\ OthersKept(s) /\ committed' = committed
  <1> DEFINE locks(q) == [i \in 1..(2 * Len(q)) |->
                            IF i % 2 = 1 THEN ForUpdate("lot", q[(i + 1) \div 2])
                                         ELSE ForUpdate("stock", q[i \div 2])]
             S == {l \in Lots : ItemOf[l] = Head(tx[s].todo).item /\ Sellable(s, l, today)}
  <1>1. /\ Ready(s, "sale", "read") /\ tx[s].todo # <<>> /\ committed' = committed
        /\ \E q \in ByExpiry(S) : tx' = [tx EXCEPT ![s].pc = "take", ![s].day = today, ![s].rows = <<>>,
                                                  ![s].want = locks(q)]
    BY DEF ReadLots, committed
  <1> HIDE DEF locks, S
  <1>2. PICK q \in ByExpiry(S) : tx' = [tx EXCEPT ![s].pc = "take", ![s].day = today, ![s].rows = <<>>,
                                                 ![s].want = locks(q)]
    BY <1>1
  <1>3. /\ Kept(tx[s], tx'[s]) /\ tx'[s].pc = "take" /\ tx'[s].todo = tx[s].todo /\ tx'[s].day = today
        /\ tx'[s].moves = tx[s].moves /\ tx'[s].held = tx[s].held /\ tx'[s].rows = <<>>
        /\ tx'[s].want = locks(q)
    BY <1>2 DEF Types, TxRow, Kept
  <1>4. OthersKept(s)
    <2>1. IsTx(tx'[s])
      BY <1>2 DEF Types, TxRow, IsTx
    <2>2. tx' = [tx EXCEPT ![s] = tx'[s]] /\ \A r \in Sessions : r # s => tx'[r] = tx[r]
      BY <1>2 DEF Types
    <2> QED
      BY <2>1, <2>2 DEF OthersKept
  <1> QED
    BY <1>1, <1>3, <1>4 DEF locks, S

LEMMA TakeEffect ==
  ASSUME Types, NEW s \in Sessions, Take(s), ~Rollback(s)
  PROVE  LET t == tx[s]
             u == tx'[s]
             Sale(l) == Movement("xuat_ban", TakenFrom(s, l), Visible(s, l),
                                 Visible(s, l) - TakenFrom(s, l), t.target)
         IN  /\ Ready(s, "sale", "take") /\ Enough(s, t.rows, Head(t.todo).qty)
             /\ Kept(t, u) /\ u.pc = "read" /\ u.todo = Tail(t.todo) /\ u.day = t.day
             /\ u.moves = [l \in Lots |-> IF TakenFrom(s, l) = 0 THEN t.moves[l]
                                                               ELSE Append(t.moves[l], Sale(l))]
             /\ u.held = t.held /\ u.rows = <<>> /\ u.want = <<>>
             /\ OthersKept(s) /\ committed' = committed
  <1> DEFINE taken == [l \in Lots |-> TakenFrom(s, l)]
             Sale(l) == Movement("xuat_ban", taken[l], Visible(s, l), Visible(s, l) - taken[l], tx[s].target)
             moves == [l \in Lots |-> IF taken[l] = 0 THEN tx[s].moves[l] ELSE Append(tx[s].moves[l], Sale(l))]
  <1>1. /\ Ready(s, "sale", "take") /\ Enough(s, tx[s].rows, Head(tx[s].todo).qty)
        /\ tx' = [tx EXCEPT ![s].pc = "read", ![s].todo = Tail(@), ![s].rows = <<>>, ![s].moves = moves]
        /\ committed' = committed
    BY DEF Take, committed
  <1>2. \A l \in Lots : taken[l] = TakenFrom(s, l)
    OBVIOUS
  <1> HIDE DEF taken
  <1>3. moves = [l \in Lots |-> IF TakenFrom(s, l) = 0 THEN tx[s].moves[l]
                  ELSE Append(tx[s].moves[l], Movement("xuat_ban", TakenFrom(s, l), Visible(s, l),
                                                       Visible(s, l) - TakenFrom(s, l), tx[s].target))]
    BY <1>2
  <1> HIDE DEF moves
  <1>4. /\ Kept(tx[s], tx'[s]) /\ tx'[s].pc = "read" /\ tx'[s].todo = Tail(tx[s].todo)
        /\ tx'[s].day = tx[s].day /\ tx'[s].moves = moves /\ tx'[s].held = tx[s].held
        /\ tx'[s].rows = <<>> /\ tx'[s].want = <<>>
    BY <1>1 DEF Ready, Types, TxRow, Kept
  <1>5. OthersKept(s)
    <2>1. IsTx(tx'[s])
      BY <1>1 DEF Types, TxRow, IsTx
    <2>2. tx' = [tx EXCEPT ![s] = tx'[s]] /\ \A r \in Sessions : r # s => tx'[r] = tx[r]
      BY <1>1 DEF Types
    <2> QED
      BY <2>1, <2>2 DEF OthersKept
  <1> QED
    BY <1>1, <1>3, <1>4, <1>5

LEMMA CheckCancelEffect ==
  ASSUME Types, NEW s \in Sessions, CheckCancel(s), ~Rollback(s)
  PROVE  LET t == tx[s]
             u == tx'[s]
         IN  /\ Ready(s, "cancel", "check") /\ order[t.target].status = "live"
             /\ Kept(t, u) /\ u.pc = "restore" /\ u.day = t.day /\ u.moves = t.moves
             /\ u.held = t.held /\ u.rows = t.rows
             /\ u.todo \in InOrderOfLots(UNION {{l} \X DOMAIN alloc[t.target][l] : l \in Lots})
             /\ u.want = NextToRestore(u.todo)
             /\ OthersKept(s) /\ committed' = committed
  <1> DEFINE P == UNION {{l} \X DOMAIN alloc[tx[s].target][l] : l \in Lots}
  <1>1. /\ Ready(s, "cancel", "check") /\ order[tx[s].target].status = "live" /\ committed' = committed
        /\ \E q \in InOrderOfLots(P) : tx' = [tx EXCEPT ![s].pc = "restore", ![s].todo = q,
                                                       ![s].want = NextToRestore(q)]
    BY DEF CheckCancel, Restorable, committed
  <1> HIDE DEF P
  <1>2. PICK q \in InOrderOfLots(P) : tx' = [tx EXCEPT ![s].pc = "restore", ![s].todo = q,
                                                      ![s].want = NextToRestore(q)]
    BY <1>1
  <1>3. /\ Kept(tx[s], tx'[s]) /\ tx'[s].pc = "restore" /\ tx'[s].day = tx[s].day
        /\ tx'[s].moves = tx[s].moves /\ tx'[s].held = tx[s].held /\ tx'[s].rows = tx[s].rows
        /\ tx'[s].todo = q /\ tx'[s].want = NextToRestore(q)
    BY <1>2 DEF Types, TxRow, Kept
  <1>4. OthersKept(s)
    <2>1. IsTx(tx'[s])
      BY <1>2 DEF Types, TxRow, IsTx
    <2>2. tx' = [tx EXCEPT ![s] = tx'[s]] /\ \A r \in Sessions : r # s => tx'[r] = tx[r]
      BY <1>2 DEF Types
    <2> QED
      BY <2>1, <2>2 DEF OthersKept
  <1> QED
    BY <1>1, <1>3, <1>4 DEF P

LEMMA RestoreEffect ==
  ASSUME Types, NEW s \in Sessions, Restore(s), Head(tx[s].todo)[1] \in Lots
  PROVE  LET t == tx[s]
             u == tx'[s]
             l == Head(t.todo)[1]
             n == alloc[t.target][l][Head(t.todo)[2]]
         IN  /\ Ready(s, "cancel", "restore") /\ t.todo # <<>>
             /\ Kept(t, u) /\ u.pc = t.pc /\ u.day = t.day /\ u.held = t.held
             /\ u.todo = Tail(t.todo) /\ u.want = NextToRestore(Tail(t.todo))
             /\ u.rows = Append(t.rows, l)
             /\ u.moves[l] = Append(t.moves[l], Movement("tra_hang", n, Visible(s, l), Visible(s, l) + n, t.target))
             /\ \A k \in Lots : k # l => u.moves[k] = t.moves[k]
             /\ u.moves = [t.moves EXCEPT ![l] = u.moves[l]]
             /\ OthersKept(s) /\ committed' = committed
  <1> DEFINE l == Head(tx[s].todo)[1]
             n == alloc[tx[s].target][l][Head(tx[s].todo)[2]]
             m == Movement("tra_hang", n, Visible(s, l), Visible(s, l) + n, tx[s].target)
  <1>1. /\ Ready(s, "cancel", "restore") /\ tx[s].todo # <<>> /\ committed' = committed
        /\ tx' = [tx EXCEPT ![s].todo = Tail(@), ![s].want = NextToRestore(Tail(tx[s].todo)),
                            ![s].rows = Append(@, l), ![s].moves[l] = Append(@, m)]
    BY DEF Restore, committed
  <1> HIDE DEF l, m
  <1>2. /\ Kept(tx[s], tx'[s]) /\ tx'[s].pc = tx[s].pc /\ tx'[s].day = tx[s].day
        /\ tx'[s].held = tx[s].held /\ tx'[s].todo = Tail(tx[s].todo)
        /\ tx'[s].want = NextToRestore(Tail(tx[s].todo)) /\ tx'[s].rows = Append(tx[s].rows, l)
        /\ tx'[s].moves = [tx[s].moves EXCEPT ![l] = Append(tx[s].moves[l], m)]
    BY <1>1 DEF Types, TxRow, Kept
  <1>5. OthersKept(s)
    <2>1. IsTx(tx'[s])
      BY <1>1 DEF Types, TxRow, IsTx
    <2>2. tx' = [tx EXCEPT ![s] = tx'[s]]
      BY <1>1, ZenonT(40) DEF Types
    <2>3. \A r \in Sessions : r # s => tx'[r] = tx[r]
      BY <1>1 DEF Types
    <2> QED
      BY <2>1, <2>2, <2>3 DEF OthersKept
  <1>3. tx[s].moves \in [Lots -> Seq(MovementRow)]
    BY DEF Types, TxRow
  <1>4. /\ tx'[s].moves[l] = Append(tx[s].moves[l], m)
        /\ \A k \in Lots : k # l => tx'[s].moves[k] = tx[s].moves[k]
    BY <1>2, <1>3 DEF l
  <1> QED
    BY <1>1, <1>2, <1>4, <1>5 DEF l, m

LEMMA WriteLedgerEffect ==
  ASSUME Types, NEW s \in Sessions, WriteLedger(s)
  PROVE  LET t == tx[s]
             u == tx'[s]
         IN  /\ Ready(s, "cancel", "restore") /\ t.todo = <<>>
             /\ Kept(t, u) /\ u.pc = "commit" /\ u.day = t.day /\ u.held = t.held
             /\ u.todo = t.todo /\ u.rows = t.rows /\ u.moves = t.moves
             /\ u.want = [i \in DOMAIN t.rows |-> KeyShare("lot", t.rows[i])]
             /\ OthersKept(s) /\ committed' = committed
  <1> DEFINE locks == [i \in DOMAIN tx[s].rows |-> KeyShare("lot", tx[s].rows[i])]
  <1>1. /\ Ready(s, "cancel", "restore") /\ tx[s].todo = <<>> /\ committed' = committed
        /\ tx' = [tx EXCEPT ![s].pc = "commit", ![s].want = locks]
    BY DEF WriteLedger, committed
  <1> HIDE DEF locks
  <1>2. OthersKept(s)
    <2>1. IsTx(tx'[s])
      BY <1>1 DEF Types, TxRow, IsTx
    <2>2. tx' = [tx EXCEPT ![s] = tx'[s]] /\ \A r \in Sessions : r # s => tx'[r] = tx[r]
      BY <1>1 DEF Types
    <2> QED
      BY <2>1, <2>2 DEF OthersKept
  <1>3. /\ Kept(tx[s], tx'[s]) /\ tx'[s].pc = "commit" /\ tx'[s].day = tx[s].day
        /\ tx'[s].held = tx[s].held /\ tx'[s].todo = tx[s].todo /\ tx'[s].rows = tx[s].rows
        /\ tx'[s].moves = tx[s].moves /\ tx'[s].want = locks
    BY <1>1 DEF Types, TxRow, Kept
  <1> QED
    BY <1>1, <1>2, <1>3 DEF locks

----------------------------------------------------------------------------
(* Lemmas about the operators                                              *)

LEMMA NullTxRow ==
  /\ NullTx \in TxRow /\ NullTx.kind = "idle" /\ NullTx.target = NoTarget /\ NullTx.pc = "idle"
  /\ NullTx.todo = <<>> /\ NullTx.want = <<>> /\ NullTx.rows = <<>> /\ NullTx.held = {}
  /\ NullTx.moves = [l \in Lots |-> <<>>] /\ \A l \in Lots : NullTx.moves[l] = <<>>
  <1>1. \A S : <<>> \in Seq(S)
    OBVIOUS
  <1>2. NoLot \in LotRow
    BY DEF NoLot, LotRow
  <1>3. [l \in Lots |-> <<>>] \in [Lots -> Seq(MovementRow)]
    BY <1>1
  <1> DEFINE e == <<>>
             none == [l \in Lots |-> <<>>]
  <1>4. NullTx = [kind |-> "idle", target |-> NoTarget, pc |-> "idle", cart |-> e, todo |-> e,
                  lot |-> NoLot, want |-> e, rows |-> e, day |-> 0, seen |-> 0,
                  moves |-> none, held |-> {}]
    BY DEF NullTx
  <1>5. none \in [Lots -> Seq(MovementRow)] /\ none = [l \in Lots |-> <<>>]
        /\ e = <<>> /\ e \in Seq(Demand) /\ e \in Seq(Demand \cup Piece) /\ e \in Seq(LockRow) /\ e \in Seq(Lots)
    BY <1>3
  <1>6. \A l \in Lots : none[l] = <<>>
    OBVIOUS
  <1> HIDE DEF e, none
  <1>7. NullTx \in TxRow
    BY <1>2, <1>4, <1>5 DEF TxRow, Kinds, Pcs
  <1> QED
    BY <1>4, <1>5, <1>6, <1>7

LEMMA VisibleType ==
  ASSUME Types, NEW s \in Sessions, NEW l \in Lots
  PROVE  Visible(s, l) \in Nat
  <1> DEFINE m == tx[s].moves[l]
  <1>1. m \in Seq(MovementRow) /\ stock[l] \in Nat
    BY DEF Types, TxRow
  <1>2. m # <<>> => m[Len(m)] \in MovementRow
    BY <1>1
  <1>3. m # <<>> => m[Len(m)].after \in Nat
    BY <1>2 DEF MovementRow
  <1> QED
    BY <1>1, <1>3 DEF Visible, LastAfter

LEMMA AmountType ==
  ASSUME Types, NEW s \in Sessions, NEW rows \in Seq(Lots), NEW n \in 0..Len(rows)
  PROVE  Amount(s, rows, n) \in Nat
  <1> DEFINE visible == [i \in DOMAIN rows |-> Visible(s, rows[i])]
  <1>1. IsFiniteSet(1..n)
    BY FS_Interval
  <1>2. \A i \in 1..n : visible[i] \in Nat
    BY VisibleType
  <1>3. Amount(s, rows, n) = SumFunctionOnSet(visible, 1..n)
    BY DEF Amount
  <1> HIDE DEF visible
  <1> QED
    BY <1>1, <1>2, <1>3, SumNat

LEMMA TakenBounds ==
  ASSUME Types, NEW s \in Sessions, NEW rows \in Seq(Lots), NEW qty \in Nat, NEW i \in 1..Len(rows)
  PROVE  /\ Taken(s, rows, qty, i) \in Nat /\ Taken(s, rows, qty, i) <= Visible(s, rows[i])
         /\ Taken(s, rows, qty, i) = IF qty <= Amount(s, rows, i - 1) THEN 0
                                     ELSE IF qty - Amount(s, rows, i - 1) <= Visible(s, rows[i])
                                            THEN qty - Amount(s, rows, i - 1) ELSE Visible(s, rows[i])
  <1>1. Amount(s, rows, i - 1) \in Nat
    BY AmountType
  <1>2. Visible(s, rows[i]) \in Nat
    BY VisibleType
  <1> DEFINE a == Amount(s, rows, i - 1)
             v == Visible(s, rows[i])
  <1>3. Taken(s, rows, qty, i) = IF qty - a <= 0 THEN 0 ELSE Min({qty - a, v})
    BY DEF Taken
  <1>4. Min({qty - a, v}) = IF qty - a <= v THEN qty - a ELSE v
    BY <1>1, <1>2, MinOfTwo
  <1> HIDE DEF a, v
  <1>5. a \in Nat /\ v \in Nat
    BY <1>1, <1>2 DEF a, v
  <1> QED
    BY <1>3, <1>4, <1>5 DEF a, v

LEMMA TakenFromBounds ==
  ASSUME Types, NEW s \in Sessions, NEW l \in Lots, tx[s].todo \in Seq(Demand), tx[s].todo # <<>>
  PROVE  TakenFrom(s, l) \in Nat /\ TakenFrom(s, l) <= Visible(s, l)
  <1> DEFINE rows == tx[s].rows
             i == CHOOSE i \in DOMAIN rows : rows[i] = l
  <1>1. rows \in Seq(Lots) /\ Visible(s, l) \in Nat
    BY VisibleType DEF Types, TxRow
  <1>2. Head(tx[s].todo).qty \in Nat
    <2>1. Head(tx[s].todo) \in Demand
      OBVIOUS
    <2> QED
      BY <2>1 DEF Demand
  <1>3. CASE \E j \in DOMAIN rows : rows[j] = l
    <2>1. i \in DOMAIN rows /\ rows[i] = l
      BY <1>3
    <2>2. TakenFrom(s, l) = Taken(s, rows, Head(tx[s].todo).qty, i)
      BY <1>3 DEF TakenFrom
    <2>3. i \in 1..Len(rows)
      BY <1>1, <2>1
    <2> HIDE DEF i, rows
    <2>4. Taken(s, rows, Head(tx[s].todo).qty, i) \in Nat
          /\ Taken(s, rows, Head(tx[s].todo).qty, i) <= Visible(s, rows[i])
      BY <1>1, <1>2, <2>3, TakenBounds
    <2> QED
      BY <2>1, <2>2, <2>4
  <1>4. CASE ~ \E j \in DOMAIN rows : rows[j] = l
    BY <1>1, <1>4 DEF TakenFrom
  <1> QED
    BY <1>3, <1>4

\* A query returns each of its rows once.
LEMMA ListedOnce ==
  ASSUME NEW S, IsFiniteSet(S), NEW q \in Bijection(1..Cardinality(S), S)
  PROVE  /\ q \in Seq(S) /\ DOMAIN q = 1..Len(q)
         /\ \A i, j \in DOMAIN q : i # j => q[i] # q[j]
         /\ \A x \in S : \E i \in DOMAIN q : q[i] = x
  <1>1. Cardinality(S) \in Nat
    BY FS_CardinalityType
  <1>2. q \in [1..Cardinality(S) -> S]
    BY DEF Bijection, Injection
  <1>3. q \in Seq(S) /\ DOMAIN q = 1..Cardinality(S) /\ Len(q) = Cardinality(S)
    BY <1>1, <1>2
  <1>4. \A i, j \in DOMAIN q : i # j => q[i] # q[j]
    BY <1>2 DEF Bijection, Injection, IsInjective
  <1>5. \A x \in S : \E i \in DOMAIN q : q[i] = x
    BY <1>2 DEF Bijection, Surjection
  <1> QED
    BY <1>3, <1>4, <1>5

LEMMA FiniteLots == ASSUME NEW S \in SUBSET Lots PROVE IsFiniteSet(S)
  BY Finiteness, FS_Subset

\* The locks of a statement that finds the lots of q, each lot before its stock.
LocksOf(q) == [i \in 1..(2 * Len(q)) |-> IF i % 2 = 1 THEN ForUpdate("lot", q[(i + 1) \div 2])
                                                      ELSE ForUpdate("stock", q[i \div 2])]

LEMMA LocksOfType ==
  ASSUME NEW q \in Seq(Lots)
  PROVE  /\ LocksOf(q) \in Seq(LockRow) /\ DOMAIN LocksOf(q) = 1..(2 * Len(q))
         /\ \A i \in 1..(2 * Len(q)) :
              \/ /\ i % 2 = 1 /\ (i + 1) \div 2 \in DOMAIN q
                 /\ LocksOf(q)[i] = ForUpdate("lot", q[(i + 1) \div 2])
              \/ /\ i % 2 = 0 /\ i \div 2 \in DOMAIN q
                 /\ LocksOf(q)[i] = ForUpdate("stock", q[i \div 2])
  <1>1. \A l \in Lots : ForUpdate("lot", l) \in LockRow /\ ForUpdate("stock", l) \in LockRow
    BY DEF ForUpdate, Lock, LockRow
  <1>2. ASSUME NEW i \in 1..(2 * Len(q))
        PROVE  \/ i % 2 = 1 /\ (i + 1) \div 2 \in DOMAIN q
               \/ i % 2 = 0 /\ i \div 2 \in DOMAIN q
    OBVIOUS
  <1>3. ASSUME NEW i \in 1..(2 * Len(q))
        PROVE  /\ LocksOf(q)[i] \in LockRow
               /\ \/ /\ i % 2 = 1 /\ (i + 1) \div 2 \in DOMAIN q
                     /\ LocksOf(q)[i] = ForUpdate("lot", q[(i + 1) \div 2])
                  \/ /\ i % 2 = 0 /\ i \div 2 \in DOMAIN q
                     /\ LocksOf(q)[i] = ForUpdate("stock", q[i \div 2])
    BY <1>1, <1>2 DEF LocksOf
  <1>4. LocksOf(q) \in Seq(LockRow) /\ DOMAIN LocksOf(q) = 1..(2 * Len(q))
    <2>1. 2 * Len(q) \in Nat
      OBVIOUS
    <2>2. LocksOf(q) \in [1..(2 * Len(q)) -> LockRow]
      BY <1>3 DEF LocksOf
    <2> QED
      BY <2>1, <2>2
  <1> QED
    BY <1>3, <1>4

\* The allocations of an order to restore, sorted by lot.
PiecesOf(o) == UNION {{l} \X DOMAIN alloc[o][l] : l \in Lots}

LEMMA PiecesType ==
  ASSUME Types, NEW o \in Orders
  PROVE  /\ IsFiniteSet(PiecesOf(o))
         /\ \A p \in PiecesOf(o) : p \in Piece /\ p = <<p[1], p[2]>> /\ p[2] \in DOMAIN alloc[o][p[1]]
         /\ \A l \in Lots : \A i \in DOMAIN alloc[o][l] : <<l, i>> \in PiecesOf(o)
  <1> DEFINE f == [l \in Lots |-> {l} \X DOMAIN alloc[o][l]]
             T == {{l} \X DOMAIN alloc[o][l] : l \in Lots}
  <1>1. \A l \in Lots : alloc[o][l] \in Seq(Nat \ {0})
    BY DEF Types
  <1>2. ASSUME NEW l \in Lots PROVE IsFiniteSet({l} \X DOMAIN alloc[o][l])
    <2>1. DOMAIN alloc[o][l] = 1..Len(alloc[o][l]) /\ Len(alloc[o][l]) \in Nat
      BY <1>1
    <2>2. IsFiniteSet(1..Len(alloc[o][l]))
      BY <2>1, FS_Interval
    <2>3. IsFiniteSet({l})
      BY FS_Singleton
    <2> QED
      BY <2>1, <2>2, <2>3, FS_Product
  <1>3. f \in Surjection(Lots, T)
    BY DEF Surjection
  <1>4. IsFiniteSet(T)
    <2> HIDE DEF f, T
    <2> QED
      BY <1>3, Finiteness, FS_Surjection
  <1>5. \A S \in T : IsFiniteSet(S)
    BY <1>2
  <1>6. IsFiniteSet(UNION T)
    <2> HIDE DEF T
    <2> QED
      BY <1>4, <1>5, FS_UNION
  <1>7. ASSUME NEW p \in PiecesOf(o)
        PROVE  p \in Piece /\ p = <<p[1], p[2]>> /\ p[2] \in DOMAIN alloc[o][p[1]]
    <2>1. PICK l \in Lots : p \in {l} \X DOMAIN alloc[o][l]
      BY DEF PiecesOf
    <2>2. DOMAIN alloc[o][l] = 1..Len(alloc[o][l]) /\ Len(alloc[o][l]) \in Nat
      BY <1>1
    <2>3. PICK i \in DOMAIN alloc[o][l] : p = <<l, i>>
      BY <2>1
    <2>4. i \in Nat \ {0}
      BY <2>2
    <2> QED
      BY <2>3, <2>4 DEF Piece
  <1>8. \A l \in Lots : \A i \in DOMAIN alloc[o][l] : <<l, i>> \in PiecesOf(o)
    BY DEF PiecesOf
  <1> QED
    BY <1>6, <1>7, <1>8 DEF PiecesOf

----------------------------------------------------------------------------
(* The tables and the transactions keep their types                        *)

\* What Rollback and every commit do to the transaction.
Ended(s) == tx' = [tx EXCEPT ![s] = NullTx]

LEMMA EndEffect ==
  ASSUME Types, NEW s \in Sessions, Ended(s)
  PROVE  tx'[s] = NullTx /\ tx' \in [Sessions -> TxRow] /\ \A r \in Sessions : r # s => tx'[r] = tx[r]
  BY NullTxRow DEF Types, Ended

LEMMA BeginEffect ==
  ASSUME Types, NEW s \in Sessions, NEW t, Begin(s, t)
  PROVE  /\ tx'[s] = t /\ tx[s] = NullTx /\ committed' = committed
         /\ tx' = [tx EXCEPT ![s] = tx'[s]] /\ \A r \in Sessions : r # s => tx'[r] = tx[r]
  BY DEF Types, Begin, committed

\* A step of a transaction keeps the types if what it writes has the right ones.
LEMMA TypesStep ==
  ASSUME Types, NEW s \in Sessions, committed' = committed, OthersKept(s), Kept(tx[s], tx'[s]),
         LET u == tx'[s] IN
           /\ u.pc \in Pcs /\ u.todo \in Seq(Demand \cup Piece) /\ u.want \in Seq(LockRow)
           /\ u.rows \in Seq(Lots) /\ u.day \in Nat /\ u.moves \in [Lots -> Seq(MovementRow)]
           /\ u.held \in SUBSET LockRow
  PROVE  Types'
  <1>1. tx[s] \in TxRow
    BY DEF Types
  <1>2. /\ tx[s].kind \in Kinds /\ tx[s].target \in Orders \cup Lots \cup {NoTarget}
        /\ tx[s].cart \in Seq(Demand) /\ tx[s].lot \in LotRow /\ tx[s].seen \in Nat
    BY <1>1 DEF TxRow
  <1>3. tx'[s] \in TxRow
    BY <1>2 DEF Kept, OthersKept, IsTx, TxRow
  <1>4. tx' = [tx EXCEPT ![s] = tx'[s]]
    BY DEF OthersKept
  <1> DEFINE u == tx'[s]
  <1>5. tx' = [tx EXCEPT ![s] = u] /\ u \in TxRow
    BY <1>3, <1>4
  <1> HIDE DEF u
  <1>6. tx' \in [Sessions -> TxRow]
    BY <1>5 DEF Types
  <1> QED
    BY <1>6 DEF Types, committed

LEMMA RollbackTypes ==
  ASSUME Types, NEW s \in Sessions, Rollback(s)
  PROVE  Types'
  <1>1. tx' \in [Sessions -> TxRow]
    BY EndEffect DEF Rollback, Ended
  <1> QED
    BY <1>1 DEF Types, Rollback, committed

LEMMA BeginTypes ==
  ASSUME Types, NEW s \in Sessions, NEW t \in TxRow, Begin(s, t)
  PROVE  Types'
  <1>1. tx' \in [Sessions -> TxRow]
    BY DEF Types, Begin
  <1> QED
    BY <1>1 DEF Types, Begin, committed

\* The rows a transaction has.
LEMMA TxFields ==
  ASSUME Types, NEW s \in Sessions
  PROVE  LET t == tx[s] IN
         /\ t.pc \in Pcs /\ t.todo \in Seq(Demand \cup Piece) /\ t.want \in Seq(LockRow)
         /\ t.rows \in Seq(Lots) /\ t.day \in Nat /\ t.moves \in [Lots -> Seq(MovementRow)]
         /\ t.held \in SUBSET LockRow /\ t.cart \in Seq(Demand) /\ t.lot \in LotRow /\ t.seen \in Nat
         /\ t.kind \in Kinds
  BY DEF Types, TxRow

LEMMA AcquireTypes ==
  ASSUME Types, Roles, NEW s \in Sessions, Acquire(s)
  PROVE  Types'
  <1> DEFINE t == tx[s]
             k == Head(t.want)
  <1>1. /\ t.want # <<>> /\ OthersKept(s) /\ committed' = committed
        /\ Kept(t, tx'[s]) /\ tx'[s].pc = t.pc /\ tx'[s].todo = t.todo /\ tx'[s].day = t.day
        /\ tx'[s].moves = t.moves /\ tx'[s].want = Tail(t.want) /\ tx'[s].held = t.held \cup {k}
        /\ tx'[s].rows = IF t.kind = "sale" /\ k.table = "stock" /\ Sellable(s, k.id, t.day)
                           THEN Append(t.rows, k.id) ELSE t.rows
    BY AcquireEffect
  <1>2. t.want \in Seq(LockRow) /\ t.rows \in Seq(Lots)
    BY TxFields
  <1>3. k \in LockRow /\ Tail(t.want) \in Seq(LockRow) /\ 1 \in DOMAIN t.want /\ k = t.want[1]
    BY <1>1, <1>2
  <1>4. t.kind = "sale" => k.id \in Lots
    BY <1>3 DEF Roles, SaleRole
  <1>5. tx'[s].rows \in Seq(Lots)
    BY <1>1, <1>2, <1>4
  <1>6. tx'[s].held \in SUBSET LockRow
    BY <1>1, <1>3, TxFields
  <1> HIDE DEF k, t
  <1> QED
    BY <1>1, <1>3, <1>5, <1>6, TypesStep, TxFields DEF t

LEMMA ReadLotsTypes ==
  ASSUME Types, NEW s \in Sessions, ReadLots(s)
  PROVE  /\ Types'
         /\ \E q \in ByExpiry({l \in Lots : ItemOf[l] = Head(tx[s].todo).item /\ Sellable(s, l, today)}) :
              q \in Seq(Lots) /\ tx'[s].want = LocksOf(q)
  <1> DEFINE t == tx[s]
             S == {l \in Lots : ItemOf[l] = Head(t.todo).item /\ Sellable(s, l, today)}
  <1>1. /\ OthersKept(s) /\ committed' = committed
        /\ Kept(t, tx'[s]) /\ tx'[s].pc = "take" /\ tx'[s].todo = t.todo /\ tx'[s].day = today
        /\ tx'[s].moves = t.moves /\ tx'[s].held = t.held /\ tx'[s].rows = <<>>
        /\ \E q \in ByExpiry(S) : tx'[s].want = LocksOf(q)
    BY ReadLotsEffect DEF LocksOf
  <1>2. S \in SUBSET Lots /\ IsFiniteSet(S)
    BY FiniteLots
  <1> HIDE DEF S
  <1>3. PICK q \in ByExpiry(S) : tx'[s].want = LocksOf(q)
    BY <1>1
  <1>4. q \in Bijection(1..Cardinality(S), S)
    BY DEF ByExpiry
  <1>5. q \in Seq(S)
    BY <1>2, <1>4, ListedOnce
  <1>6. q \in Seq(Lots)
    BY <1>2, <1>5
  <1>7. LocksOf(q) \in Seq(LockRow)
    BY <1>6, LocksOfType
  <1>8. today \in Nat
    BY Numbers DEF Types
  <1>9. <<>> \in Seq(Lots) /\ "take" \in Pcs
    BY DEF Pcs
  <1> HIDE DEF t
  <1>10. Types'
    BY <1>1, <1>3, <1>7, <1>8, <1>9, TypesStep, TxFields DEF t
  <1> QED
    BY <1>3, <1>6, <1>10 DEF t, S

LEMMA TakeTypes ==
  ASSUME Types, Roles, NEW s \in Sessions, Take(s)
  PROVE  Types'
  <1>1. CASE Rollback(s)
    BY <1>1, RollbackTypes
  <1>2. CASE ~Rollback(s)
    <2> DEFINE t == tx[s]
               Sale(l) == Movement("xuat_ban", TakenFrom(s, l), Visible(s, l),
                                   Visible(s, l) - TakenFrom(s, l), t.target)
    <2>1. /\ Ready(s, "sale", "take")
          /\ Kept(t, tx'[s]) /\ tx'[s].pc = "read" /\ tx'[s].todo = Tail(t.todo) /\ tx'[s].day = t.day
          /\ tx'[s].moves = [l \in Lots |-> IF TakenFrom(s, l) = 0 THEN t.moves[l] ELSE Append(t.moves[l], Sale(l))]
          /\ tx'[s].held = t.held /\ tx'[s].rows = <<>> /\ tx'[s].want = <<>>
          /\ OthersKept(s) /\ committed' = committed
      BY <1>2, TakeEffect
    <2>2. /\ t.target \in Orders /\ t.todo \in Seq(Demand) /\ t.todo # <<>>
      BY <2>1 DEF Roles, SaleRole, Ready
    <2>3. ASSUME NEW l \in Lots, TakenFrom(s, l) # 0
          PROVE  Sale(l) \in MovementRow
      <3>1. TakenFrom(s, l) \in Nat /\ TakenFrom(s, l) <= Visible(s, l) /\ Visible(s, l) \in Nat
        BY <2>2, TakenFromBounds, VisibleType
      <3> DEFINE n == TakenFrom(s, l)
                 v == Visible(s, l)
      <3>2. n \in Nat \ {0} /\ v \in Nat /\ v - n \in Nat
        BY <2>3, <3>1
      <3> HIDE DEF n, v
      <3>3. Movement("xuat_ban", n, v, v - n, t.target) \in MovementRow
        BY <2>2, <3>2 DEF Movement, MovementRow, MovementType
      <3> QED
        BY <3>3 DEF n, v
    <2> HIDE DEF Sale
    <2>4. t.moves \in [Lots -> Seq(MovementRow)]
      BY TxFields
    <2>5. tx'[s].moves \in [Lots -> Seq(MovementRow)]
      BY <2>1, <2>3, <2>4
    <2>6. Tail(t.todo) \in Seq(Demand \cup Piece)
      <3>1. t.todo \in Seq(Demand \cup Piece)
        BY TxFields
      <3> QED
        BY <2>2, <3>1
    <2>7. <<>> \in Seq(Lots) /\ <<>> \in Seq(LockRow) /\ "read" \in Pcs
      BY DEF Pcs
    <2> HIDE DEF t
    <2> QED
      BY <2>1, <2>5, <2>6, <2>7, TypesStep, TxFields DEF t
  <1> QED
    BY <1>1, <1>2

\* What a sequence of movements moves.
LEMMA TotalType ==
  ASSUME NEW m \in Seq(MovementRow)
  PROVE  Total(m) \in Nat
  <1> DEFINE qty == [i \in DOMAIN m |-> m[i].qty]
  <1>1. DOMAIN m = 1..Len(m) /\ Len(m) \in Nat
    OBVIOUS
  <1>2. IsFiniteSet(DOMAIN m)
    BY <1>1, FS_Interval
  <1>3. \A i \in DOMAIN m : qty[i] \in Nat
    <2>1. \A i \in DOMAIN m : m[i] \in MovementRow
      BY <1>1
    <2> QED
      BY <2>1 DEF MovementRow
  <1>4. Total(m) = SumFunctionOnSet(qty, DOMAIN m)
    BY DEF Total
  <1> HIDE DEF qty
  <1> QED
    BY <1>2, <1>3, <1>4, SumNat

LEMMA PostTypes ==
  ASSUME Types, NEW s \in Sessions, Post(s)
  PROVE  stock' \in [Lots -> Nat] /\ ledger' \in [Lots -> Seq(MovementRow)] /\ tx' \in [Sessions -> TxRow]
  <1>1. stock' = [l \in Lots |-> Visible(s, l)] /\ ledger' = [l \in Lots |-> ledger[l] \o tx[s].moves[l]]
        /\ Ended(s)
    BY DEF Post, Ended
  <1>2. \A l \in Lots : ledger[l] \in Seq(MovementRow) /\ tx[s].moves[l] \in Seq(MovementRow)
    BY DEF Types, TxRow
  <1>3. \A l \in Lots : ledger[l] \o tx[s].moves[l] \in Seq(MovementRow)
    BY <1>2
  <1>4. stock' \in [Lots -> Nat]
    BY <1>1, VisibleType
  <1> QED
    BY <1>1, <1>3, <1>4, EndEffect

LEMMA CommitSaleTypes ==
  ASSUME Types, Roles, NEW s \in Sessions, CommitSale(s)
  PROVE  Types'
  <1> DEFINE o == tx[s].target
             moves == tx[s].moves
             taken == [l \in Lots |-> [i \in DOMAIN moves[l] |-> moves[l][i].qty]]
             new == [status |-> "live", cart |-> tx[s].cart]
  <1>1. /\ Ready(s, "sale", "read") /\ Post(s) /\ today' = today /\ lot' = lot
        /\ sold' = [l \in Lots |-> sold[l] + Total(moves[l])]
        /\ order' = [order EXCEPT ![o] = new]
        /\ alloc' = [alloc EXCEPT ![o] = taken]
    BY DEF CommitSale
  <1>2. o \in Orders
    BY <1>1 DEF Ready, Roles, SaleRole
  <1>3. moves \in [Lots -> Seq(MovementRow)] /\ tx[s].cart \in Seq(Demand)
    BY TxFields
  <1>4. ASSUME NEW l \in Lots PROVE taken[l] \in Seq(Nat \ {0})
    <2> DEFINE m == moves[l]
               n == [i \in DOMAIN m |-> m[i].qty]
    <2>1. m \in Seq(MovementRow)
      BY <1>3
    <2> HIDE DEF m
    <2>2. DOMAIN m = 1..Len(m) /\ Len(m) \in Nat
      BY <2>1
    <2>3. \A i \in DOMAIN m : m[i] \in MovementRow
      BY <2>1
    <2>4. \A i \in DOMAIN m : m[i].qty \in Nat \ {0}
      BY <2>3 DEF MovementRow
    <2>5. n \in Seq(Nat \ {0})
      BY <2>2, <2>4
    <2> QED
      BY <2>5 DEF m
  <1>5. alloc' \in [Orders -> [Lots -> Seq(Nat \ {0})]]
    <2>1. taken \in [Lots -> Seq(Nat \ {0})]
      BY <1>4
    <2> HIDE DEF taken
    <2> QED
      BY <1>1, <1>2, <2>1 DEF Types
  <1>6. order' \in [Orders -> OrderRow]
    <2>1. new \in OrderRow
      BY <1>3 DEF OrderRow
    <2> HIDE DEF new
    <2> QED
      BY <1>1, <1>2, <2>1 DEF Types
  <1>7. \A l \in Lots : Total(moves[l]) \in Nat
    BY <1>3, TotalType
  <1>8. sold' \in [Lots -> Nat]
    BY <1>1, <1>7 DEF Types
  <1> QED
    BY <1>1, <1>5, <1>6, <1>8, PostTypes DEF Types

\* The pieces a cancellation lists.
LEMMA CheckCancelPieces ==
  ASSUME Types, Roles, NEW s \in Sessions, CheckCancel(s), ~Rollback(s)
  PROVE  LET q == tx'[s].todo
             o == tx[s].target
         IN  /\ o \in Orders /\ q \in Seq(Piece) /\ DOMAIN q = 1..Len(q)
             /\ \A i \in DOMAIN q : q[i] = <<q[i][1], q[i][2]>> /\ q[i][2] \in DOMAIN alloc[o][q[i][1]]
             /\ \A i, j \in DOMAIN q : i # j => q[i] # q[j]
             /\ \A i, j \in DOMAIN q : i < j => q[i][1] <= q[j][1]
             /\ \A l \in Lots : \A p \in DOMAIN alloc[o][l] : \E i \in DOMAIN q : q[i] = <<l, p>>
  <1> DEFINE q == tx'[s].todo
             o == tx[s].target
             P == PiecesOf(o)
  <1>1. Ready(s, "cancel", "check") /\ q \in InOrderOfLots(P)
    BY CheckCancelEffect DEF PiecesOf
  <1>2. o \in Orders
    BY <1>1 DEF Ready, Roles, CancelRole
  <1>3. IsFiniteSet(P)
    BY <1>2, PiecesType
  <1>4. /\ q \in Bijection(1..Cardinality(P), P)
        /\ \A i, j \in DOMAIN q : i < j => q[i][1] <= q[j][1]
    BY <1>1 DEF InOrderOfLots
  <1> HIDE DEF P, q
  <1>5. /\ q \in Seq(P) /\ DOMAIN q = 1..Len(q)
        /\ \A i, j \in DOMAIN q : i # j => q[i] # q[j]
        /\ \A x \in P : \E i \in DOMAIN q : q[i] = x
    BY <1>3, <1>4, ListedOnce
  <1>6. \A i \in DOMAIN q : q[i] \in P
    BY <1>5
  <1>7. \A i \in DOMAIN q : q[i] \in Piece /\ q[i] = <<q[i][1], q[i][2]>> /\ q[i][2] \in DOMAIN alloc[o][q[i][1]]
    BY <1>2, <1>6, PiecesType DEF P
  <1>8. q \in Seq(Piece)
    BY <1>5, <1>7
  <1>9. \A l \in Lots : \A p \in DOMAIN alloc[o][l] : <<l, p>> \in P
    BY <1>2, PiecesType DEF P
  <1> QED
    BY <1>2, <1>4, <1>5, <1>7, <1>8, <1>9 DEF q

LEMMA NextToRestoreType ==
  ASSUME NEW q \in Seq(Piece)
  PROVE  /\ NextToRestore(q) \in Seq(LockRow)
         /\ q = <<>> => NextToRestore(q) = <<>>
         /\ q # <<>> => NextToRestore(q) = <<ForUpdate("stock", q[1][1])>> /\ q[1][1] \in Lots /\ q[1] \in Piece
  <1>1. CASE q = <<>>
    BY <1>1 DEF NextToRestore
  <1>2. CASE q # <<>>
    <2>1. Head(q) = q[1] /\ q[1] \in Piece
      BY <1>2
    <2>2. q[1][1] \in Lots
      BY <2>1 DEF Piece
    <2>3. ForUpdate("stock", q[1][1]) \in LockRow
      BY <2>2 DEF ForUpdate, Lock, LockRow
    <2>4. NextToRestore(q) = <<ForUpdate("stock", q[1][1])>>
      BY <1>2, <2>1 DEF NextToRestore
    <2> HIDE DEF ForUpdate
    <2> QED
      BY <1>2, <2>1, <2>2, <2>3, <2>4
  <1> QED
    BY <1>1, <1>2

LEMMA CheckCancelTypes ==
  ASSUME Types, Roles, NEW s \in Sessions, CheckCancel(s)
  PROVE  Types'
  <1>1. CASE Rollback(s)
    BY <1>1, RollbackTypes
  <1>2. CASE ~Rollback(s)
    <2> DEFINE t == tx[s]
               u == tx'[s]
    <2>1. /\ Kept(t, u) /\ u.pc = "restore" /\ u.day = t.day /\ u.moves = t.moves
          /\ u.held = t.held /\ u.rows = t.rows /\ u.want = NextToRestore(u.todo)
          /\ OthersKept(s) /\ committed' = committed
      BY <1>2, CheckCancelEffect
    <2>2. u.todo \in Seq(Piece)
      BY <1>2, CheckCancelPieces
    <2>3. u.want \in Seq(LockRow)
      BY <2>1, <2>2, NextToRestoreType
    <2>4. u.todo \in Seq(Demand \cup Piece) /\ "restore" \in Pcs
      BY <2>2 DEF Pcs
    <2> QED
      BY <2>1, <2>3, <2>4, TypesStep, TxFields
  <1> QED
    BY <1>1, <1>2

\* What a restoration is about to give back.
LEMMA RestorePiece ==
  ASSUME Types, Roles, NEW s \in Sessions, Restore(s)
  PROVE  LET t == tx[s] IN
         /\ t.kind = "cancel" /\ t.pc = "restore" /\ t.want = <<>> /\ t.todo # <<>>
         /\ t.target \in Orders /\ t.todo \in Seq(Piece) /\ Head(t.todo) = t.todo[1] /\ 1 \in DOMAIN t.todo
         /\ t.todo[1][1] \in Lots /\ t.todo[1][2] \in DOMAIN alloc[t.target][t.todo[1][1]]
         /\ alloc[t.target][t.todo[1][1]][t.todo[1][2]] \in Nat \ {0}
  <1> DEFINE q == tx[s].todo
  <1>1. Ready(s, "cancel", "restore") /\ q # <<>>
    BY DEF Restore
  <1>2. /\ tx[s].target \in Orders /\ q \in Seq(Piece)
        /\ \A i \in DOMAIN q : q[i][2] \in DOMAIN alloc[tx[s].target][q[i][1]]
    BY <1>1 DEF Ready, Roles, CancelRole
  <1>3. Head(q) = q[1] /\ 1 \in DOMAIN q /\ q[1] \in Piece
    BY <1>1, <1>2
  <1>4. q[1][1] \in Lots
    BY <1>3 DEF Piece
  <1>5. alloc[tx[s].target][q[1][1]] \in Seq(Nat \ {0})
    BY <1>2, <1>4 DEF Types
  <1>6. alloc[tx[s].target][q[1][1]][q[1][2]] \in Nat \ {0}
    BY <1>2, <1>3, <1>5, SMTT(30)
  <1> QED
    BY <1>1, <1>2, <1>3, <1>4, <1>6 DEF Ready

LEMMA RestoreTypes ==
  ASSUME Types, Roles, NEW s \in Sessions, Restore(s)
  PROVE  Types'
  <1> DEFINE t == tx[s]
             u == tx'[s]
             l == t.todo[1][1]
             n == alloc[t.target][l][t.todo[1][2]]
             m == Movement("tra_hang", n, Visible(s, l), Visible(s, l) + n, t.target)
  <1>1. /\ t.todo # <<>> /\ t.target \in Orders /\ t.todo \in Seq(Piece) /\ Head(t.todo) = t.todo[1]
        /\ l \in Lots /\ n \in Nat \ {0}
    BY RestorePiece
  <1>2. /\ Kept(t, u) /\ u.pc = t.pc /\ u.day = t.day /\ u.held = t.held
        /\ u.todo = Tail(t.todo) /\ u.want = NextToRestore(Tail(t.todo)) /\ u.rows = Append(t.rows, l)
        /\ u.moves[l] = Append(t.moves[l], m) /\ u.moves = [t.moves EXCEPT ![l] = u.moves[l]]
        /\ OthersKept(s) /\ committed' = committed
    BY <1>1, RestoreEffect
  <1>3. m \in MovementRow
    <2>1. Visible(s, l) \in Nat
      BY <1>1, VisibleType
    <2> DEFINE v == Visible(s, l)
    <2>2. n \in Nat \ {0} /\ v \in Nat /\ t.target \in Orders
      <3>1. n \in Nat \ {0}
        BY <1>1
      <3> QED
        BY <1>1, <2>1, <3>1
    <2> HIDE DEF n, v
    <2>4. v + n \in Nat
      BY <2>2
    <2>3. Movement("tra_hang", n, v, v + n, t.target) \in MovementRow
      BY <2>2, <2>4 DEF Movement, MovementRow, MovementType
    <2> QED
      BY <2>3 DEF v
  <1>4. t.moves \in [Lots -> Seq(MovementRow)] /\ t.rows \in Seq(Lots)
    BY TxFields
  <1> HIDE DEF m, l, n, t, u
  <1>5. u.moves[l] \in Seq(MovementRow)
    BY <1>1, <1>2, <1>3, <1>4
  <1>6. u.moves \in [Lots -> Seq(MovementRow)]
    <2> DEFINE new == u.moves[l]
    <2>1. u.moves = [t.moves EXCEPT ![l] = new] /\ new \in Seq(MovementRow)
      BY <1>2, <1>5
    <2> HIDE DEF new
    <2> QED
      BY <1>4, <2>1
  <1>9. u.rows \in Seq(Lots)
    BY <1>1, <1>2, <1>4
  <1>7. Tail(t.todo) \in Seq(Piece)
    BY <1>1
  <1>8. u.want \in Seq(LockRow) /\ u.todo \in Seq(Demand \cup Piece)
    <2>1. u.want \in Seq(LockRow)
      BY <1>2, <1>7, NextToRestoreType
    <2>2. \A q \in Seq(Piece) : q \in Seq(Demand \cup Piece)
      OBVIOUS
    <2> QED
      BY <1>2, <1>7, <2>1, <2>2
  <1> QED
    BY <1>2, <1>6, <1>8, <1>9, TypesStep, TxFields DEF t, u

LEMMA WriteLedgerTypes ==
  ASSUME Types, NEW s \in Sessions, WriteLedger(s)
  PROVE  Types'
  <1> DEFINE t == tx[s]
             u == tx'[s]
             locks == [i \in DOMAIN t.rows |-> KeyShare("lot", t.rows[i])]
  <1>1. /\ Kept(t, u) /\ u.pc = "commit" /\ u.day = t.day /\ u.held = t.held
        /\ u.todo = t.todo /\ u.rows = t.rows /\ u.moves = t.moves /\ u.want = locks
        /\ OthersKept(s) /\ committed' = committed
    BY WriteLedgerEffect
  <1>2. t.rows \in Seq(Lots)
    BY TxFields
  <1>3. DOMAIN t.rows = 1..Len(t.rows) /\ Len(t.rows) \in Nat /\ \A i \in DOMAIN t.rows : t.rows[i] \in Lots
    BY <1>2
  <1>4. \A i \in DOMAIN t.rows : KeyShare("lot", t.rows[i]) \in LockRow
    BY <1>3 DEF KeyShare, Lock, LockRow
  <1>5. locks \in Seq(LockRow)
    BY <1>3, <1>4
  <1> HIDE DEF locks
  <1> QED
    BY <1>1, <1>5, TypesStep, TxFields DEF Pcs

LEMMA CommitCancelTypes ==
  ASSUME Types, Roles, NEW s \in Sessions, CommitCancel(s)
  PROVE  Types'
  <1> DEFINE o == tx[s].target
             moves == tx[s].moves
  <1>1. /\ Ready(s, "cancel", "commit") /\ Post(s) /\ today' = today /\ lot' = lot /\ alloc' = alloc
        /\ sold' = [l \in Lots |-> Max({sold[l] - Total(moves[l]), 0})]
        /\ order' = [order EXCEPT ![o].status = "cancelled"]
    BY DEF CommitCancel
  <1>2. o \in Orders
    BY <1>1 DEF Ready, Roles, CancelRole
  <1>3. moves \in [Lots -> Seq(MovementRow)]
    BY TxFields
  <1>4. ASSUME NEW l \in Lots PROVE Max({sold[l] - Total(moves[l]), 0}) \in Nat
    <2>1. Total(moves[l]) \in Nat /\ sold[l] \in Nat
      BY <1>3, TotalType DEF Types
    <2> DEFINE d == sold[l] - Total(moves[l])
    <2>2. d \in Int
      BY <2>1
    <2> HIDE DEF d
    <2>3. Max({d, 0}) = IF d >= 0 THEN d ELSE 0
      BY <2>2, MaxOfTwo
    <2>4. Max({d, 0}) \in Nat
      BY <2>2, <2>3
    <2> QED
      BY <2>4 DEF d
  <1>5. order' \in [Orders -> OrderRow]
    BY <1>1, <1>2 DEF Types, OrderRow
  <1>6. sold' \in [Lots -> Nat]
    BY <1>1, <1>4
  <1> QED
    BY <1>1, <1>5, <1>6, PostTypes DEF Types

LEMMA CommitReceiveTypes ==
  ASSUME Types, Roles, NEW s \in Sessions, CommitReceive(s)
  PROVE  Types'
  <1>1. CASE Rollback(s)
    BY <1>1, RollbackTypes
  <1>2. CASE ~Rollback(s)
    <2> DEFINE l == tx[s].target
               n == tx[s].seen
               m == Movement("nhap_hang", n, 0, n, NoTarget)
               new == tx[s].lot
    <2>1. /\ Ready(s, "receive", "insert") /\ Ended(s)
          /\ lot' = [lot EXCEPT ![l] = new] /\ stock' = [stock EXCEPT ![l] = n]
          /\ ledger' = [ledger EXCEPT ![l] = <<m>>]
          /\ today' = today /\ sold' = sold /\ order' = order /\ alloc' = alloc
      BY <1>2 DEF CommitReceive, Ended
    <2>2. l \in Lots /\ n \in Nat /\ n > 0
      BY <2>1, TxFields DEF Ready, Roles, LotRole
    <2>3. new \in LotRow
      BY TxFields
    <2>4. m \in MovementRow
      <3> HIDE DEF n
      <3> QED
        BY <2>2 DEF Movement, MovementRow, MovementType
    <2> HIDE DEF l, n, m, new
    <2>5. lot' \in [Lots -> LotRow] /\ stock' \in [Lots -> Nat]
      BY <2>1, <2>2, <2>3 DEF Types
    <2>6. <<m>> \in Seq(MovementRow)
      BY <2>4
    <2>7. ledger' \in [Lots -> Seq(MovementRow)]
      BY <2>1, <2>6 DEF Types
    <2>8. tx' \in [Sessions -> TxRow]
      BY <2>1, EndEffect
    <2> QED
      BY <2>1, <2>5, <2>7, <2>8 DEF Types
  <1> QED
    BY <1>1, <1>2

LEMMA CommitDisposeTypes ==
  ASSUME Types, Roles, NEW s \in Sessions, CommitDispose(s)
  PROVE  Types'
  <1>1. CASE Rollback(s)
    BY <1>1, RollbackTypes
  <1>2. CASE ~Rollback(s)
    <2> DEFINE l == tx[s].target
               m == Movement("xuat_huy", stock[l], stock[l], 0, NoTarget)
    <2>1. /\ Ready(s, "dispose", "check") /\ Ended(s) /\ stock[l] > 0
          /\ lot' = [lot EXCEPT ![l].status = "hethan"] /\ stock' = [stock EXCEPT ![l] = 0]
          /\ ledger' = [ledger EXCEPT ![l] = Append(@, m)]
          /\ today' = today /\ sold' = sold /\ order' = order /\ alloc' = alloc
      BY <1>2 DEF CommitDispose, Ended
    <2>2. l \in Lots
      BY <2>1 DEF Ready, Roles, LotRole
    <2>4. m \in MovementRow
      <3>1. stock[l] \in Nat \ {0}
        BY <2>1, <2>2 DEF Types
      <3> QED
        BY <3>1 DEF Movement, MovementRow, MovementType
    <2> HIDE DEF l, m
    <2>5. lot' \in [Lots -> LotRow]
      BY <2>1, <2>2 DEF Types, LotRow, LotStatus
    <2>6. stock' \in [Lots -> Nat]
      BY <2>1, <2>2 DEF Types
    <2>7. ledger' \in [Lots -> Seq(MovementRow)]
      BY <2>1, <2>2, <2>4 DEF Types
    <2>8. tx' \in [Sessions -> TxRow]
      BY <2>1, EndEffect
    <2> QED
      BY <2>1, <2>5, <2>6, <2>7, <2>8 DEF Types
  <1> QED
    BY <1>1, <1>2

\* The transactions that begin.
SaleTx(o, cart) == [NullTx EXCEPT !.kind = "sale", !.target = o, !.pc = "read",
                                  !.cart = cart, !.todo = cart, !.seen = today]
CancelTx(o) == [NullTx EXCEPT !.kind = "cancel", !.target = o, !.pc = "check",
                              !.want = <<ForUpdate("order", o)>>]
ReceiveTx(l, n, new) ==
  [NullTx EXCEPT !.kind = "receive", !.target = l, !.pc = "insert", !.seen = n,
                 !.lot = [status |-> new.status, expiry |-> new.expiry, code |-> _next_lot_code(ItemOf[l])],
                 !.want = <<ForUpdate(ItemOf[l], _next_lot_code(ItemOf[l]))>>]
DisposeTx(l) == [NullTx EXCEPT !.kind = "dispose", !.target = l, !.pc = "check", !.seen = stock[l],
                               !.want = <<ForUpdate("lot", l), ForUpdate("stock", l)>>]

LEMMA CodeType ==
  ASSUME Types, NEW item \in Items
  PROVE  _next_lot_code(item) \in Nat \ {0}
  <1> DEFINE K == {k \in Lots : ItemOf[k] = item}
             codes == {lot[k].code : k \in K}
             f == [k \in K |-> lot[k].code]
             S == {0} \cup codes
  <1>1. IsFiniteSet(K)
    BY FiniteLots
  <1>2. f \in Surjection(K, codes)
    BY DEF Surjection
  <1>3. IsFiniteSet(codes)
    <2> HIDE DEF K, f, codes
    <2> QED
      BY <1>1, <1>2, FS_Surjection
  <1>4. \A x \in codes : x \in Nat
    BY DEF Types, LotRow
  <1>5. IsFiniteSet({0})
    BY FS_Singleton
  <1> HIDE DEF codes
  <1>6. IsFiniteSet(S) /\ S # {} /\ \A x \in S : x \in Nat
    <2>1. IsFiniteSet(S)
      BY <1>3, <1>5, FS_Union
    <2> QED
      BY <1>4, <2>1
  <1>7. Max(S) \in S
    <2> HIDE DEF S
    <2> QED
      BY <1>6, MaxType
  <1>8. Max(S) \in Nat
    BY <1>6, <1>7
  <1>9. _next_lot_code(item) = 1 + Max(S)
    BY DEF _next_lot_code, codes
  <1> QED
    BY <1>8, <1>9

LEMMA SaleTxType ==
  ASSUME Types, NEW o \in Orders, NEW cart \in Carts
  PROVE  LET t == SaleTx(o, cart) IN
         /\ t \in TxRow /\ t.kind = "sale" /\ t.target = o /\ t.pc = "read" /\ t.cart = cart /\ t.todo = cart
         /\ t.seen = today /\ t.want = <<>> /\ t.rows = <<>> /\ t.held = {} /\ \A l \in Lots : t.moves[l] = <<>>
  <1> DEFINE t == SaleTx(o, cart)
  <1>1. cart \in Seq(Demand) /\ cart \in Seq(Demand \cup Piece) /\ today \in Nat
    <2>1. cart \in Seq(Demand)
      BY CartsAreDemands
    <2>2. \A q \in Seq(Demand) : q \in Seq(Demand \cup Piece)
      OBVIOUS
    <2> QED
      BY <2>1, <2>2, Numbers DEF Types
  <1>2. t.kind = "sale" /\ t.target = o /\ t.pc = "read" /\ t.cart = cart /\ t.todo = cart /\ t.seen = today
    BY NullTxRow DEF SaleTx, TxRow
  <1>3. t.want = NullTx.want /\ t.rows = NullTx.rows /\ t.held = NullTx.held /\ t.moves = NullTx.moves
    BY NullTxRow DEF SaleTx, TxRow
  <1>4. t \in TxRow
    BY <1>1, NullTxRow DEF SaleTx, TxRow, Kinds, Pcs
  <1> QED
    BY <1>2, <1>3, <1>4, NullTxRow

LEMMA CancelTxType ==
  ASSUME Types, NEW o \in Orders
  PROVE  LET t == CancelTx(o) IN
         /\ t \in TxRow /\ t.kind = "cancel" /\ t.target = o /\ t.pc = "check" /\ t.todo = <<>>
         /\ t.want = <<ForUpdate("order", o)>> /\ t.rows = <<>> /\ t.held = {} /\ \A l \in Lots : t.moves[l] = <<>>
  <1> DEFINE t == CancelTx(o)
             w == <<ForUpdate("order", o)>>
  <1>1. w \in Seq(LockRow)
    BY DEF ForUpdate, Lock, LockRow
  <1>5. t = [NullTx EXCEPT !.kind = "cancel", !.target = o, !.pc = "check", !.want = w]
    BY DEF CancelTx
  <1> HIDE DEF w, t
  <1>2. t.kind = "cancel" /\ t.target = o /\ t.pc = "check" /\ t.want = w
    BY <1>5, NullTxRow DEF TxRow
  <1>3. t.todo = NullTx.todo /\ t.rows = NullTx.rows /\ t.held = NullTx.held /\ t.moves = NullTx.moves
    BY <1>5, NullTxRow DEF TxRow
  <1>4. t \in TxRow
    BY <1>1, <1>5, NullTxRow DEF TxRow, Kinds, Pcs
  <1> QED
    BY <1>2, <1>3, <1>4, NullTxRow DEF w, t

LEMMA ReceiveTxType ==
  ASSUME Types, NEW l \in Lots, NEW n \in Quantities, NEW st \in Statuses, NEW e \in Days
  PROVE  LET t == ReceiveTx(l, n, [status |-> st, expiry |-> e]) IN
         /\ t \in TxRow /\ t.kind = "receive" /\ t.target = l /\ t.pc = "insert" /\ t.seen = n /\ t.seen > 0
         /\ t.lot.status \in LotStatus /\ t.lot.code > 0
         /\ t.todo = <<>> /\ t.rows = <<>> /\ t.held = {} /\ \A k \in Lots : t.moves[k] = <<>>
  <1> DEFINE t == ReceiveTx(l, n, [status |-> st, expiry |-> e])
             code == _next_lot_code(ItemOf[l])
             w == <<ForUpdate(ItemOf[l], code)>>
             new == [status |-> st, expiry |-> e, code |-> code]
  <1>1. code \in Nat \ {0} /\ ItemOf[l] \in Items
    BY CodeType, LotIds
  <1> HIDE DEF code
  <1>2. w \in Seq(LockRow)
    BY <1>1 DEF ForUpdate, Lock, LockRow
  <1>3. new \in LotRow /\ new.status \in LotStatus /\ new.code > 0 /\ n \in Nat /\ n > 0
    BY <1>1, Numbers, ManagersStatuses DEF LotRow
  <1>5. t = [NullTx EXCEPT !.kind = "receive", !.target = l, !.pc = "insert", !.seen = n, !.lot = new, !.want = w]
    BY DEF ReceiveTx, code
  <1> HIDE DEF w, t, new
  <1>6. t.kind = "receive" /\ t.target = l /\ t.pc = "insert" /\ t.want = w /\ t.seen = n /\ t.lot = new
    BY <1>5, NullTxRow DEF TxRow
  <1>7. t.todo = NullTx.todo /\ t.rows = NullTx.rows /\ t.held = NullTx.held /\ t.moves = NullTx.moves
    BY <1>5, NullTxRow DEF TxRow
  <1>4. t \in TxRow
    BY <1>2, <1>3, <1>5, NullTxRow DEF TxRow, Kinds, Pcs
  <1> QED
    BY <1>3, <1>4, <1>6, <1>7, NullTxRow DEF t

LEMMA DisposeTxType ==
  ASSUME Types, NEW l \in Lots
  PROVE  LET t == DisposeTx(l) IN
         /\ t \in TxRow /\ t.kind = "dispose" /\ t.target = l /\ t.pc = "check" /\ t.seen = stock[l]
         /\ t.want = <<ForUpdate("lot", l), ForUpdate("stock", l)>>
         /\ t.todo = <<>> /\ t.rows = <<>> /\ t.held = {} /\ \A k \in Lots : t.moves[k] = <<>>
  <1> DEFINE t == DisposeTx(l)
             w == <<ForUpdate("lot", l), ForUpdate("stock", l)>>
  <1>1. w \in Seq(LockRow) /\ stock[l] \in Nat
    BY DEF ForUpdate, Lock, LockRow, Types
  <1>5. t = [NullTx EXCEPT !.kind = "dispose", !.target = l, !.pc = "check", !.seen = stock[l], !.want = w]
    BY DEF DisposeTx
  <1> HIDE DEF w, t
  <1>2. t.kind = "dispose" /\ t.target = l /\ t.pc = "check" /\ t.want = w /\ t.seen = stock[l]
    BY <1>5, NullTxRow DEF TxRow
  <1>3. t.todo = NullTx.todo /\ t.rows = NullTx.rows /\ t.held = NullTx.held /\ t.moves = NullTx.moves
    BY <1>5, NullTxRow DEF TxRow
  <1>4. t \in TxRow
    BY <1>1, <1>5, NullTxRow DEF TxRow, Kinds, Pcs
  <1> QED
    BY <1>2, <1>3, <1>4, NullTxRow DEF w, t

LEMMA TypesKept ==
  ASSUME Types, Roles, [Next]_vars
  PROVE  Types'
  <1>1. ASSUME NEW s \in Sessions, Acquire(s) PROVE Types'
    BY <1>1, AcquireTypes
  <1>2. ASSUME NEW s \in Sessions, ReadLots(s) PROVE Types'
    BY <1>2, ReadLotsTypes
  <1>3. ASSUME NEW s \in Sessions, Take(s) PROVE Types'
    BY <1>3, TakeTypes
  <1>4. ASSUME NEW s \in Sessions, CommitSale(s) PROVE Types'
    BY <1>4, CommitSaleTypes
  <1>5. ASSUME NEW s \in Sessions, CheckCancel(s) PROVE Types'
    BY <1>5, CheckCancelTypes
  <1>6. ASSUME NEW s \in Sessions, Restore(s) PROVE Types'
    BY <1>6, RestoreTypes
  <1>7. ASSUME NEW s \in Sessions, WriteLedger(s) PROVE Types'
    BY <1>7, WriteLedgerTypes
  <1>8. ASSUME NEW s \in Sessions, CommitCancel(s) PROVE Types'
    BY <1>8, CommitCancelTypes
  <1>9. ASSUME NEW s \in Sessions, CommitDispose(s) PROVE Types'
    BY <1>9, CommitDisposeTypes
  <1>10. ASSUME NEW s \in Sessions, CommitReceive(s) PROVE Types'
    BY <1>10, CommitReceiveTypes
  <1>11. ASSUME NEW s \in Sessions, Rollback(s) PROVE Types'
    BY <1>11, RollbackTypes
  <1>12. ASSUME NEW s \in Sessions, NEW o \in Orders, NEW cart \in Carts, BeginSale(s, o, cart) PROVE Types'
    <2>1. Begin(s, SaleTx(o, cart))
      BY <1>12 DEF BeginSale, SaleTx
    <2> QED
      BY <2>1, SaleTxType, BeginTypes
  <1>13. ASSUME NEW s \in Sessions, NEW o \in Orders, BeginCancel(s, o) PROVE Types'
    <2>1. Begin(s, CancelTx(o))
      BY <1>13 DEF BeginCancel, CancelTx
    <2> QED
      BY <2>1, CancelTxType, BeginTypes
  <1>14. ASSUME NEW s \in Sessions, NEW l \in Lots, BeginDispose(s, l) PROVE Types'
    <2>1. Begin(s, DisposeTx(l))
      BY <1>14 DEF BeginDispose, DisposeTx
    <2> QED
      BY <2>1, DisposeTxType, BeginTypes
  <1>15. ASSUME NEW s \in Sessions, NEW l \in Lots, NEW n \in Quantities, NEW st \in Statuses, NEW e \in Days,
                BeginReceive(s, l, n, [status |-> st, expiry |-> e])
         PROVE  Types'
    <2>1. Begin(s, ReceiveTx(l, n, [status |-> st, expiry |-> e]))
      BY <1>15 DEF BeginReceive, ReceiveTx
    <2> QED
      BY <2>1, ReceiveTxType, BeginTypes
  <1>16. ASSUME NEW l \in Lots, NEW st \in Statuses, NEW e \in Expiries \cup {lot[l].expiry},
                UpdateBatch(l, [status |-> st, expiry |-> e, code |-> lot[l].code])
         PROVE  Types'
    <2> DEFINE new == [status |-> st, expiry |-> e, code |-> lot[l].code]
    <2>1. lot' = [lot EXCEPT ![l] = new] /\ UNCHANGED <<today, stock, sold, ledger, order, alloc, tx>>
      BY <1>16 DEF UpdateBatch
    <2>2. new \in LotRow
      <3>1. lot[l] \in LotRow
        BY DEF Types
      <3> QED
        BY <3>1, Numbers, ManagersStatuses DEF LotRow
    <2> HIDE DEF new
    <2> QED
      BY <2>1, <2>2 DEF Types
  <1>17. CASE Midnight
    BY <1>17 DEF Midnight, Types
  <1>18. CASE UNCHANGED vars
    BY <1>18 DEF vars, Types
  <1> QED
    BY <1>1, <1>2, <1>3, <1>4, <1>5, <1>6, <1>7, <1>8, <1>9, <1>10, <1>11, <1>12, <1>13, <1>14,
       <1>15, <1>16, <1>17, <1>18 DEF Next, Step, Fail, DeadlockVictim

----------------------------------------------------------------------------
(* The transactions keep their roles                                       *)

LEMMA TailElements ==
  ASSUME NEW S, NEW q \in Seq(S), q # <<>>
  PROVE  /\ Tail(q) \in Seq(S) /\ Head(q) = q[1] /\ 1 \in DOMAIN q /\ q[1] \in S
         /\ DOMAIN Tail(q) = 1..(Len(q) - 1) /\ Len(Tail(q)) = Len(q) - 1
         /\ \A i \in DOMAIN Tail(q) : i + 1 \in DOMAIN q /\ Tail(q)[i] = q[i + 1]
  OBVIOUS

LEMMA AppendElements ==
  ASSUME NEW S, NEW q \in Seq(S), NEW x \in S
  PROVE  /\ Append(q, x) \in Seq(S) /\ Len(Append(q, x)) = Len(q) + 1
         /\ DOMAIN Append(q, x) = 1..(Len(q) + 1)
         /\ \A i \in DOMAIN Append(q, x) : IF i = Len(q) + 1 THEN Append(q, x)[i] = x
                                           ELSE i \in DOMAIN q /\ Append(q, x)[i] = q[i]
  OBVIOUS

\* A step of a transaction keeps the roles if it keeps its own.
LEMMA RolesStep ==
  ASSUME Types, Roles, NEW s \in Sessions, committed' = committed, OthersKept(s), Kept(tx[s], tx'[s]),
         SaleRole(s)', CancelRole(s)', LotRole(s)',
         \A l \in Lots : lot[l].status = "none" => tx'[s].moves[l] = <<>>
  PROVE  Roles'
  <1>1. \A r \in Sessions : r # s => tx'[r] = tx[r]
    BY DEF OthersKept
  <1>2. lot' = lot /\ stock' = stock /\ sold' = sold /\ ledger' = ledger /\ order' = order /\ alloc' = alloc
    BY DEF committed
  <1>3. ASSUME NEW r \in Sessions PROVE SaleRole(r)' /\ CancelRole(r)' /\ LotRole(r)'
    <2>1. CASE r = s
      BY <2>1
    <2>2. CASE r # s
      BY <1>1, <1>2, <2>2 DEF Roles, SaleRole, CancelRole, LotRole
    <2> QED
      BY <2>1, <2>2
  <1>4. \A r \in Sessions : tx'[r].kind = tx[r].kind /\ tx'[r].target = tx[r].target
    BY <1>1 DEF Kept
  <1>5. \A l \in Lots : NothingOf(l)'
    BY <1>1, <1>2 DEF Roles, NothingOf
  <1> QED
    BY <1>3, <1>4, <1>5 DEF Roles

\* So does the beginning of one, if nobody else is about to insert what it is about to insert.
LEMMA RolesBegin ==
  ASSUME Types, Roles, NEW s \in Sessions, NEW t, Begin(s, t),
         SaleRole(s)', CancelRole(s)', LotRole(s)', \A l \in Lots : t.moves[l] = <<>>,
         t.kind \in {"sale", "receive"} => \A r \in Sessions : tx[r].target # t.target
  PROVE  Roles'
  <1>1. tx'[s] = t /\ \A r \in Sessions : r # s => tx'[r] = tx[r]
    BY BeginEffect
  <1>2. lot' = lot /\ stock' = stock /\ sold' = sold /\ ledger' = ledger /\ order' = order /\ alloc' = alloc
    BY BeginEffect DEF committed
  <1>3. ASSUME NEW r \in Sessions PROVE SaleRole(r)' /\ CancelRole(r)' /\ LotRole(r)'
    <2>1. CASE r = s
      BY <2>1
    <2>2. CASE r # s
      BY <1>1, <1>2, <2>2 DEF Roles, SaleRole, CancelRole, LotRole
    <2> QED
      BY <2>1, <2>2
  <1>5. \A l \in Lots : NothingOf(l)'
    BY <1>1, <1>2 DEF Roles, NothingOf
  <1>6. ASSUME NEW a \in Sessions, NEW b \in Sessions, a # b, tx'[a].kind = tx'[b].kind,
               tx'[a].kind \in {"sale", "receive"}
        PROVE  tx'[a].target # tx'[b].target
    BY <1>1, <1>6 DEF Roles
  <1> QED
    BY <1>3, <1>5, <1>6 DEF Roles

\* And its end, if the committed tables keep the roles of the others.
LEMMA RolesEnd ==
  ASSUME Types, Roles, NEW s \in Sessions, Ended(s),
         \A r \in Sessions : r # s =>
           /\ tx[r].kind = "sale" => order'[tx[r].target].status = "none"
           /\ tx[r].kind = "cancel" => order'[tx[r].target].status # "none"
                                       /\ alloc'[tx[r].target] = alloc[tx[r].target]
           /\ tx[r].kind = "receive" => lot'[tx[r].target] = NoLot,
         \A l \in Lots : lot[l].status # "none" => lot'[l].status # "none",
         \A l \in Lots : lot'[l].status = "none" =>
           /\ lot'[l] = NoLot /\ stock'[l] = 0 /\ ledger'[l] = <<>> /\ sold'[l] = 0
           /\ \A o \in Orders : alloc'[o][l] = <<>>
  PROVE  Roles'
  <1>1. tx'[s] = NullTx /\ \A r \in Sessions : r # s => tx'[r] = tx[r]
    BY EndEffect
  <1>3. ASSUME NEW r \in Sessions PROVE SaleRole(r)' /\ CancelRole(r)' /\ LotRole(r)'
    <2>1. CASE r = s
      BY <1>1, <2>1, NullTxRow DEF SaleRole, CancelRole, LotRole
    <2>2. CASE r # s
      <3>1. tx'[r] = tx[r] /\ SaleRole(r) /\ CancelRole(r) /\ LotRole(r)
        BY <1>1, <2>2 DEF Roles
      <3>2. tx[r].rows \in Seq(Lots)
        BY TxFields
      <3>3. \A i \in DOMAIN tx[r].rows : tx[r].rows[i] \in Lots
        BY <3>2
      <3>4. SaleRole(r)'
        BY <2>2, <3>1, <3>3 DEF SaleRole
      <3>5. CancelRole(r)'
        BY <2>2, <3>1 DEF CancelRole
      <3>6. LotRole(r)'
        BY <2>2, <3>1 DEF LotRole
      <3> QED
        BY <3>4, <3>5, <3>6
    <2> QED
      BY <2>1, <2>2
  <1>5. \A l \in Lots : NothingOf(l)'
    BY <1>1, NullTxRow DEF Roles, NothingOf
  <1>6. ASSUME NEW a \in Sessions, NEW b \in Sessions, a # b, tx'[a].kind = tx'[b].kind,
               tx'[a].kind \in {"sale", "receive"}
        PROVE  tx'[a].target # tx'[b].target
    BY <1>1, <1>6, NullTxRow DEF Roles
  <1> QED
    BY <1>3, <1>5, <1>6 DEF Roles

LEMMA RollbackRoles ==
  ASSUME Types, Roles, NEW s \in Sessions, Rollback(s)
  PROVE  Roles'
  <1>1. Ended(s) /\ lot' = lot /\ stock' = stock /\ sold' = sold /\ ledger' = ledger /\ order' = order /\ alloc' = alloc
    BY DEF Rollback, Ended, committed
  <1>2. \A r \in Sessions :
          /\ tx[r].kind = "sale" => order[tx[r].target].status = "none"
          /\ tx[r].kind = "cancel" => order[tx[r].target].status # "none"
          /\ tx[r].kind = "receive" => lot[tx[r].target] = NoLot
    BY DEF Roles, SaleRole, CancelRole, LotRole
  <1>3. \A l \in Lots : lot[l].status = "none" =>
           /\ lot[l] = NoLot /\ stock[l] = 0 /\ ledger[l] = <<>> /\ sold[l] = 0
           /\ \A o \in Orders : alloc[o][l] = <<>>
    BY DEF Roles, NothingOf
  <1> QED
    BY <1>1, <1>2, <1>3, RolesEnd

LEMMA AcquireRoles ==
  ASSUME Types, Roles, NEW s \in Sessions, Acquire(s)
  PROVE  Roles'
  <1> DEFINE t == tx[s]
             u == tx'[s]
             k == Head(t.want)
  <1>1. /\ t.want # <<>> /\ OthersKept(s) /\ committed' = committed
        /\ Kept(t, u) /\ u.pc = t.pc /\ u.todo = t.todo /\ u.day = t.day
        /\ u.moves = t.moves /\ u.want = Tail(t.want)
        /\ u.rows = IF t.kind = "sale" /\ k.table = "stock" /\ Sellable(s, k.id, t.day)
                      THEN Append(t.rows, k.id) ELSE t.rows
    BY AcquireEffect
  <1>2. t.want \in Seq(LockRow) /\ t.rows \in Seq(Lots) /\ SaleRole(s) /\ CancelRole(s) /\ LotRole(s)
    BY TxFields DEF Roles
  <1>3. lot' = lot /\ order' = order /\ alloc' = alloc
    BY <1>1 DEF committed
  <1>4. SaleRole(s)'
    <2> SUFFICES ASSUME t.kind = "sale" PROVE SaleRole(s)'
      BY <1>1 DEF SaleRole, Kept
    <2>1. \A i \in DOMAIN u.want : u.want[i].id \in Lots
      BY <1>1, <1>2, TailElements DEF SaleRole
    <2>2. k.id \in Lots /\ (Sellable(s, k.id, t.day) => lot[k.id].status # "none")
      BY <1>1, <1>2, TailElements DEF SaleRole, Sellable
    <2>3. \A i \in DOMAIN u.rows : lot[u.rows[i]].status # "none"
      <3>1. CASE u.rows = t.rows
        BY <1>2, <3>1 DEF SaleRole
      <3>2. CASE u.rows = Append(t.rows, k.id) /\ Sellable(s, k.id, t.day)
        BY <1>2, <2>2, <3>2, AppendElements DEF SaleRole
      <3> QED
        BY <1>1, <3>1, <3>2
    <2> QED
      BY <1>1, <1>2, <1>3, <2>1, <2>3 DEF SaleRole, Kept
  <1>5. CancelRole(s)'
    BY <1>1, <1>2, <1>3 DEF CancelRole, Kept
  <1>6. LotRole(s)'
    <2>1. t.kind # "idle"
      BY <1>1, <1>2, NullTxRow DEF LotRole
    <2> QED
      BY <1>1, <1>2, <1>3, <2>1 DEF LotRole, Kept
  <1>7. \A l \in Lots : lot[l].status = "none" => u.moves[l] = <<>>
    BY <1>1 DEF Roles, NothingOf
  <1> QED
    BY <1>1, <1>4, <1>5, <1>6, <1>7, RolesStep

LEMMA ReadLotsRoles ==
  ASSUME Types, Roles, NEW s \in Sessions, ReadLots(s)
  PROVE  Roles'
  <1> DEFINE t == tx[s]
             u == tx'[s]
  <1>1. /\ Ready(s, "sale", "read") /\ t.todo # <<>>
        /\ Kept(t, u) /\ u.pc = "take" /\ u.todo = t.todo /\ u.moves = t.moves /\ u.rows = <<>>
        /\ OthersKept(s) /\ committed' = committed
    BY ReadLotsEffect
  <1>2. t.kind = "sale" /\ SaleRole(s)
    BY <1>1 DEF Ready, Roles
  <1>3. lot' = lot /\ order' = order /\ alloc' = alloc
    BY <1>1 DEF committed
  <1>4. \A i \in DOMAIN u.want : u.want[i].id \in Lots
    <2>1. PICK q \in Seq(Lots) : u.want = LocksOf(q)
      BY ReadLotsTypes
    <2>2. ASSUME NEW i \in 1..(2 * Len(q)) PROVE LocksOf(q)[i].id \in Lots
      <3>1. PICK j \in DOMAIN q : \/ LocksOf(q)[i] = ForUpdate("lot", q[j])
                                 \/ LocksOf(q)[i] = ForUpdate("stock", q[j])
        BY LocksOfType
      <3>2. q[j] \in Lots
        OBVIOUS
      <3> QED
        BY <3>1, <3>2 DEF ForUpdate, Lock
    <2>3. DOMAIN LocksOf(q) = 1..(2 * Len(q))
      BY LocksOfType
    <2> QED
      BY <2>1, <2>2, <2>3
  <1>5. SaleRole(s)'
    BY <1>1, <1>2, <1>3, <1>4 DEF SaleRole, Kept
  <1>6. CancelRole(s)' /\ LotRole(s)'
    BY <1>1, <1>2 DEF CancelRole, LotRole, Kept
  <1>7. \A l \in Lots : lot[l].status = "none" => u.moves[l] = <<>>
    BY <1>1 DEF Roles, NothingOf
  <1> QED
    BY <1>1, <1>5, <1>6, <1>7, RolesStep

LEMMA TakeRoles ==
  ASSUME Types, Roles, NEW s \in Sessions, Take(s)
  PROVE  Roles'
  <1>1. CASE Rollback(s)
    BY <1>1, RollbackRoles
  <1>2. CASE ~Rollback(s)
    <2> DEFINE t == tx[s]
               u == tx'[s]
               Sale(l) == Movement("xuat_ban", TakenFrom(s, l), Visible(s, l),
                                   Visible(s, l) - TakenFrom(s, l), t.target)
    <2>1. /\ Ready(s, "sale", "take")
          /\ Kept(t, u) /\ u.pc = "read" /\ u.todo = Tail(t.todo)
          /\ u.moves = [l \in Lots |-> IF TakenFrom(s, l) = 0 THEN t.moves[l] ELSE Append(t.moves[l], Sale(l))]
          /\ u.rows = <<>> /\ u.want = <<>>
          /\ OthersKept(s) /\ committed' = committed
      BY <1>2, TakeEffect
    <2>2. t.kind = "sale" /\ SaleRole(s) /\ t.todo # <<>> /\ t.todo \in Seq(Demand)
      BY <2>1 DEF Ready, Roles, SaleRole
    <2>3. lot' = lot /\ order' = order /\ alloc' = alloc
      BY <2>1 DEF committed
    <2>4. Tail(t.todo) \in Seq(Demand)
      BY <2>2
    <2>5. SaleRole(s)'
      BY <2>1, <2>2, <2>3, <2>4 DEF SaleRole, Kept
    <2>6. CancelRole(s)' /\ LotRole(s)'
      BY <2>1, <2>2 DEF CancelRole, LotRole, Kept
    <2>7. ASSUME NEW l \in Lots, lot[l].status = "none" PROVE u.moves[l] = <<>>
      <3>1. TakenFrom(s, l) = 0
        BY <2>2, <2>7 DEF SaleRole, TakenFrom
      <3>2. t.moves[l] = <<>>
        BY <2>7 DEF Roles, NothingOf
      <3> QED
        BY <2>1, <3>1, <3>2
    <2> HIDE DEF Sale
    <2> QED
      BY <2>1, <2>5, <2>6, <2>7, RolesStep
  <1> QED
    BY <1>1, <1>2

LEMMA CheckCancelRoles ==
  ASSUME Types, Roles, NEW s \in Sessions, CheckCancel(s)
  PROVE  Roles'
  <1>1. CASE Rollback(s)
    BY <1>1, RollbackRoles
  <1>2. CASE ~Rollback(s)
    <2> DEFINE t == tx[s]
               u == tx'[s]
    <2>1. /\ Ready(s, "cancel", "check")
          /\ Kept(t, u) /\ u.pc = "restore" /\ u.moves = t.moves
          /\ OthersKept(s) /\ committed' = committed
      BY <1>2, CheckCancelEffect
    <2>2. t.kind = "cancel" /\ CancelRole(s)
      BY <2>1 DEF Ready, Roles
    <2>3. lot' = lot /\ order' = order /\ alloc' = alloc
      BY <2>1 DEF committed
    <2>4. u.todo \in Seq(Piece) /\ \A i \in DOMAIN u.todo : u.todo[i][2] \in DOMAIN alloc[t.target][u.todo[i][1]]
      BY <1>2, CheckCancelPieces
    <2>5. CancelRole(s)'
      BY <2>1, <2>2, <2>3, <2>4 DEF CancelRole, Kept
    <2>6. SaleRole(s)' /\ LotRole(s)'
      BY <2>1, <2>2 DEF SaleRole, LotRole, Kept
    <2>7. \A l \in Lots : lot[l].status = "none" => u.moves[l] = <<>>
      BY <2>1 DEF Roles, NothingOf
    <2> QED
      BY <2>1, <2>5, <2>6, <2>7, RolesStep
  <1> QED
    BY <1>1, <1>2

LEMMA RestoreRoles ==
  ASSUME Types, Roles, NEW s \in Sessions, Restore(s)
  PROVE  Roles'
  <1> DEFINE t == tx[s]
             u == tx'[s]
             l == t.todo[1][1]
  <1>1. /\ t.kind = "cancel" /\ t.pc = "restore" /\ t.todo # <<>> /\ t.target \in Orders
        /\ t.todo \in Seq(Piece) /\ Head(t.todo) = t.todo[1] /\ l \in Lots
        /\ t.todo[1][2] \in DOMAIN alloc[t.target][l]
    BY RestorePiece
  <1>2. /\ Kept(t, u) /\ u.pc = t.pc /\ u.todo = Tail(t.todo)
        /\ \A k \in Lots : k # l => u.moves[k] = t.moves[k]
        /\ OthersKept(s) /\ committed' = committed
    BY <1>1, RestoreEffect
  <1>3. lot' = lot /\ order' = order /\ alloc' = alloc
    BY <1>2 DEF committed
  <1>4. CancelRole(s)'
    <2>1. CancelRole(s)
      BY DEF Roles
    <2>2. \A i \in DOMAIN u.todo : u.todo[i][2] \in DOMAIN alloc[t.target][u.todo[i][1]]
      BY <1>1, <1>2, <2>1, TailElements, SMTT(30) DEF CancelRole
    <2>3. u.todo \in Seq(Piece)
      BY <1>1, <1>2
    <2> QED
      BY <1>1, <1>2, <1>3, <2>1, <2>2, <2>3 DEF CancelRole, Kept
  <1>5. SaleRole(s)' /\ LotRole(s)'
    BY <1>1, <1>2 DEF SaleRole, LotRole, Kept
  <1>6. ASSUME NEW k \in Lots, lot[k].status = "none" PROVE u.moves[k] = <<>>
    <2>1. alloc[t.target][k] = <<>> /\ t.moves[k] = <<>>
      BY <1>1, <1>6 DEF Roles, NothingOf
    <2>2. k # l
      BY <1>1, <2>1
    <2> QED
      BY <1>2, <2>1, <2>2
  <1> QED
    BY <1>2, <1>4, <1>5, <1>6, RolesStep

LEMMA WriteLedgerRoles ==
  ASSUME Types, Roles, NEW s \in Sessions, WriteLedger(s)
  PROVE  Roles'
  <1> DEFINE t == tx[s]
             u == tx'[s]
  <1>1. /\ Ready(s, "cancel", "restore")
        /\ Kept(t, u) /\ u.pc = "commit" /\ u.todo = t.todo /\ u.moves = t.moves
        /\ OthersKept(s) /\ committed' = committed
    BY WriteLedgerEffect
  <1>2. t.kind = "cancel" /\ CancelRole(s)
    BY <1>1 DEF Ready, Roles
  <1>3. lot' = lot /\ order' = order /\ alloc' = alloc
    BY <1>1 DEF committed
  <1>4. CancelRole(s)'
    BY <1>1, <1>2, <1>3 DEF CancelRole, Kept
  <1>5. SaleRole(s)' /\ LotRole(s)'
    BY <1>1, <1>2 DEF SaleRole, LotRole, Kept
  <1>6. \A l \in Lots : lot[l].status = "none" => u.moves[l] = <<>>
    BY <1>1 DEF Roles, NothingOf
  <1> QED
    BY <1>1, <1>4, <1>5, <1>6, RolesStep

LEMMA TotalEmpty == Total(<<>>) = 0
  <1> DEFINE qty == [i \in DOMAIN <<>> |-> <<>>[i].qty]
  <1>1. DOMAIN <<>> = {}
    OBVIOUS
  <1>2. Total(<<>>) = SumFunctionOnSet(qty, DOMAIN <<>>)
    BY DEF Total
  <1> HIDE DEF qty
  <1> QED
    BY <1>1, <1>2, SumEmpty

LEMMA CommitSaleRoles ==
  ASSUME Types, Roles, NEW s \in Sessions, CommitSale(s)
  PROVE  Roles'
  <1> DEFINE o == tx[s].target
             moves == tx[s].moves
             taken == [l \in Lots |-> [i \in DOMAIN moves[l] |-> moves[l][i].qty]]
             new == [status |-> "live", cart |-> tx[s].cart]
  <1>1. /\ Ready(s, "sale", "read") /\ Ended(s) /\ lot' = lot
        /\ stock' = [l \in Lots |-> Visible(s, l)] /\ ledger' = [l \in Lots |-> ledger[l] \o moves[l]]
        /\ sold' = [l \in Lots |-> sold[l] + Total(moves[l])]
        /\ order' = [order EXCEPT ![o] = new]
        /\ alloc' = [alloc EXCEPT ![o] = taken]
    BY DEF CommitSale, Post, Ended
  <1>2. tx[s].kind = "sale" /\ o \in Orders /\ order[o].status = "none"
    BY <1>1 DEF Ready, Roles, SaleRole
  <1>3. ASSUME NEW r \in Sessions, r # s
        PROVE  /\ tx[r].kind = "sale" => order'[tx[r].target].status = "none"
               /\ tx[r].kind = "cancel" => order'[tx[r].target].status # "none"
                                           /\ alloc'[tx[r].target] = alloc[tx[r].target]
               /\ tx[r].kind = "receive" => lot'[tx[r].target] = NoLot
    <2>1. SaleRole(r) /\ CancelRole(r) /\ LotRole(r) /\ (tx[r].kind = "sale" => tx[r].target # o)
      BY <1>2, <1>3 DEF Roles
    <2> HIDE DEF new, taken, o
    <2> QED
      BY <1>1, <1>2, <2>1 DEF SaleRole, CancelRole, LotRole, Types
  <1>4. ASSUME NEW l \in Lots, lot'[l].status = "none"
        PROVE  /\ lot'[l] = NoLot /\ stock'[l] = 0 /\ ledger'[l] = <<>> /\ sold'[l] = 0
               /\ \A p \in Orders : alloc'[p][l] = <<>>
    <2>1. /\ lot[l] = NoLot /\ stock[l] = 0 /\ ledger[l] = <<>> /\ sold[l] = 0 /\ moves[l] = <<>>
          /\ \A p \in Orders : alloc[p][l] = <<>>
      BY <1>1, <1>4 DEF Roles, NothingOf
    <2>2. stock'[l] = 0
      BY <1>1, <2>1 DEF Visible, LastAfter
    <2>3. ledger'[l] = <<>>
      BY <1>1, <2>1
    <2>4. sold'[l] = 0
      BY <1>1, <2>1, TotalEmpty
    <2>5. taken[l] = <<>>
      BY <2>1
    <2> HIDE DEF new, taken, o
    <2>6. \A p \in Orders : alloc'[p][l] = <<>>
      BY <1>1, <1>2, <2>1, <2>5 DEF Types
    <2> QED
      BY <1>1, <2>1, <2>2, <2>3, <2>4, <2>6
  <1> HIDE DEF new, taken, o, moves
  <1> QED
    BY <1>1, <1>3, <1>4, RolesEnd

LEMMA CommitCancelRoles ==
  ASSUME Types, Roles, NEW s \in Sessions, CommitCancel(s)
  PROVE  Roles'
  <1> DEFINE o == tx[s].target
             moves == tx[s].moves
  <1>1. /\ Ready(s, "cancel", "commit") /\ Ended(s) /\ lot' = lot /\ alloc' = alloc
        /\ stock' = [l \in Lots |-> Visible(s, l)] /\ ledger' = [l \in Lots |-> ledger[l] \o moves[l]]
        /\ sold' = [l \in Lots |-> Max({sold[l] - Total(moves[l]), 0})]
        /\ order' = [order EXCEPT ![o].status = "cancelled"]
    BY DEF CommitCancel, Post, Ended
  <1>2. o \in Orders /\ order[o].status # "none"
    BY <1>1 DEF Ready, Roles, CancelRole
  <1>3. ASSUME NEW r \in Sessions, r # s
        PROVE  /\ tx[r].kind = "sale" => order'[tx[r].target].status = "none"
               /\ tx[r].kind = "cancel" => order'[tx[r].target].status # "none"
                                           /\ alloc'[tx[r].target] = alloc[tx[r].target]
               /\ tx[r].kind = "receive" => lot'[tx[r].target] = NoLot
    <2>1. SaleRole(r) /\ CancelRole(r) /\ LotRole(r)
      BY DEF Roles
    <2> HIDE DEF o
    <2>2. \A p \in Orders : order'[p].status = IF p = o THEN "cancelled" ELSE order[p].status
      BY <1>1, <1>2 DEF Types, OrderRow
    <2> QED
      BY <1>1, <1>2, <2>1, <2>2 DEF SaleRole, CancelRole, LotRole
  <1>4. ASSUME NEW l \in Lots, lot'[l].status = "none"
        PROVE  /\ lot'[l] = NoLot /\ stock'[l] = 0 /\ ledger'[l] = <<>> /\ sold'[l] = 0
               /\ \A p \in Orders : alloc'[p][l] = <<>>
    <2>1. /\ lot[l] = NoLot /\ stock[l] = 0 /\ ledger[l] = <<>> /\ sold[l] = 0 /\ moves[l] = <<>>
          /\ \A p \in Orders : alloc[p][l] = <<>>
      BY <1>1, <1>4 DEF Roles, NothingOf
    <2>2. stock'[l] = 0
      BY <1>1, <2>1 DEF Visible, LastAfter
    <2>3. ledger'[l] = <<>>
      BY <1>1, <2>1
    <2>4. sold'[l] = 0
      <3>1. sold[l] - Total(moves[l]) = 0
        BY <2>1, TotalEmpty
      <3>2. Max({0, 0}) = 0
        BY MaxOfTwo
      <3> QED
        BY <1>1, <3>1, <3>2
    <2> QED
      BY <1>1, <2>1, <2>2, <2>3, <2>4
  <1> HIDE DEF o, moves
  <1> QED
    BY <1>1, <1>3, <1>4, RolesEnd

LEMMA CommitReceiveRoles ==
  ASSUME Types, Roles, NEW s \in Sessions, CommitReceive(s)
  PROVE  Roles'
  <1>1. CASE Rollback(s)
    BY <1>1, RollbackRoles
  <1>2. CASE ~Rollback(s)
    <2> DEFINE l == tx[s].target
               n == tx[s].seen
               m == Movement("nhap_hang", n, 0, n, NoTarget)
               new == tx[s].lot
    <2>1. /\ Ready(s, "receive", "insert") /\ Ended(s)
          /\ lot' = [lot EXCEPT ![l] = new] /\ stock' = [stock EXCEPT ![l] = n]
          /\ ledger' = [ledger EXCEPT ![l] = <<m>>]
          /\ sold' = sold /\ order' = order /\ alloc' = alloc
      BY <1>2 DEF CommitReceive, Ended
    <2>2. l \in Lots /\ new.status \in LotStatus /\ tx[s].kind = "receive"
      BY <2>1 DEF Ready, Roles, LotRole
    <2>3. new.status # "none"
      BY <2>2 DEF LotStatus
    <2> HIDE DEF l, m, n, new
    <2>4. \A k \in Lots : k # l => lot'[k] = lot[k] /\ stock'[k] = stock[k] /\ ledger'[k] = ledger[k]
      BY <2>1, <2>2 DEF Types
    <2>5. lot'[l] = new
      BY <2>1, <2>2 DEF Types
    <2>6. ASSUME NEW r \in Sessions, r # s
          PROVE  /\ tx[r].kind = "sale" => order'[tx[r].target].status = "none"
                 /\ tx[r].kind = "cancel" => order'[tx[r].target].status # "none"
                                             /\ alloc'[tx[r].target] = alloc[tx[r].target]
                 /\ tx[r].kind = "receive" => lot'[tx[r].target] = NoLot
      <3>1. SaleRole(r) /\ CancelRole(r) /\ LotRole(r) /\ (tx[r].kind = "receive" => tx[r].target # l)
        BY <2>2, <2>6 DEF Roles, l
      <3> QED
        BY <2>1, <2>4, <3>1 DEF SaleRole, CancelRole, LotRole
    <2>7. \A k \in Lots : lot'[k].status = "none" => k # l /\ lot[k].status = "none"
      BY <2>3, <2>4, <2>5
    <2>8. \A k \in Lots : lot'[k].status = "none" =>
            /\ lot'[k] = NoLot /\ stock'[k] = 0 /\ ledger'[k] = <<>> /\ sold'[k] = 0
            /\ \A p \in Orders : alloc'[p][k] = <<>>
      BY <2>1, <2>4, <2>7 DEF Roles, NothingOf
    <2> QED
      BY <2>1, <2>6, <2>7, <2>8, RolesEnd
  <1> QED
    BY <1>1, <1>2

LEMMA CommitDisposeRoles ==
  ASSUME Types, Roles, NEW s \in Sessions, CommitDispose(s)
  PROVE  Roles'
  <1>1. CASE Rollback(s)
    BY <1>1, RollbackRoles
  <1>2. CASE ~Rollback(s)
    <2> DEFINE l == tx[s].target
               m == Movement("xuat_huy", stock[l], stock[l], 0, NoTarget)
    <2>1. /\ Ready(s, "dispose", "check") /\ Ended(s) /\ stock[l] > 0
          /\ lot' = [lot EXCEPT ![l].status = "hethan"] /\ stock' = [stock EXCEPT ![l] = 0]
          /\ ledger' = [ledger EXCEPT ![l] = Append(@, m)]
          /\ today' = today /\ sold' = sold /\ order' = order /\ alloc' = alloc
      BY <1>2 DEF CommitDispose, Ended
    <2>2. l \in Lots
      BY <2>1 DEF Ready, Roles, LotRole
    <2> HIDE DEF l, m
    <2>3. lot[l].status # "none"
      BY <2>1, <2>2 DEF Roles, NothingOf
    <2>4. \A k \in Lots : k # l => lot'[k] = lot[k] /\ stock'[k] = stock[k] /\ ledger'[k] = ledger[k]
      BY <2>1, <2>2 DEF Types
    <2>5. lot'[l].status = "hethan"
      BY <2>1, <2>2 DEF Types, LotRow
    <2>6. ASSUME NEW r \in Sessions, r # s
          PROVE  /\ tx[r].kind = "sale" => order'[tx[r].target].status = "none"
                 /\ tx[r].kind = "cancel" => order'[tx[r].target].status # "none"
                                             /\ alloc'[tx[r].target] = alloc[tx[r].target]
                 /\ tx[r].kind = "receive" => lot'[tx[r].target] = NoLot
      <3>1. SaleRole(r) /\ CancelRole(r) /\ LotRole(r)
        BY DEF Roles
      <3>2. tx[r].kind = "receive" => tx[r].target # l
        BY <2>3, <3>1 DEF LotRole, NoLot
      <3> QED
        BY <2>1, <2>4, <3>1, <3>2 DEF SaleRole, CancelRole, LotRole
    <2>7. \A k \in Lots : lot'[k].status = "none" => k # l /\ lot[k].status = "none"
      BY <2>4, <2>5
    <2>8. \A k \in Lots : lot'[k].status = "none" =>
            /\ lot'[k] = NoLot /\ stock'[k] = 0 /\ ledger'[k] = <<>> /\ sold'[k] = 0
            /\ \A p \in Orders : alloc'[p][k] = <<>>
      BY <2>1, <2>4, <2>7 DEF Roles, NothingOf
    <2> QED
      BY <2>1, <2>6, <2>7, <2>8, RolesEnd
  <1> QED
    BY <1>1, <1>2

LEMMA BeginRoles ==
  ASSUME Types, Roles, NEW s \in Sessions
  PROVE  /\ \A o \in Orders, cart \in Carts : BeginSale(s, o, cart) => Roles'
         /\ \A o \in Orders : BeginCancel(s, o) => Roles'
         /\ \A l \in Lots : BeginDispose(s, l) => Roles'
         /\ \A l \in Lots, n \in Quantities, st \in Statuses, e \in Days :
              BeginReceive(s, l, n, [status |-> st, expiry |-> e]) => Roles'
  <1>1. ASSUME NEW o \in Orders, NEW cart \in Carts, BeginSale(s, o, cart) PROVE Roles'
    <2> DEFINE t == SaleTx(o, cart)
    <2>1. Begin(s, t) /\ order[o].status = "none" /\ \A r \in Sessions : tx[r].target # o
      BY <1>1 DEF BeginSale, SaleTx
    <2>2. t.kind = "sale" /\ t.target = o /\ t.pc = "read" /\ t.todo = cart /\ t.want = <<>> /\ t.rows = <<>>
          /\ \A l \in Lots : t.moves[l] = <<>>
      BY SaleTxType
    <2> HIDE DEF t
    <2>3. tx'[s] = t /\ order' = order
      BY <2>1, BeginEffect DEF committed
    <2>4. cart \in Seq(Demand)
      BY CartsAreDemands
    <2>5. SaleRole(s)' /\ CancelRole(s)' /\ LotRole(s)'
      BY <2>1, <2>2, <2>3, <2>4 DEF SaleRole, CancelRole, LotRole
    <2> QED
      BY <2>1, <2>2, <2>5, RolesBegin
  <1>2. ASSUME NEW o \in Orders, BeginCancel(s, o) PROVE Roles'
    <2> DEFINE t == CancelTx(o)
    <2>1. Begin(s, t) /\ order[o].status # "none"
      BY <1>2 DEF BeginCancel, CancelTx
    <2>2. t.kind = "cancel" /\ t.target = o /\ t.pc = "check" /\ t.todo = <<>> /\ \A l \in Lots : t.moves[l] = <<>>
      BY CancelTxType
    <2> HIDE DEF t
    <2>3. tx'[s] = t /\ order' = order
      BY <2>1, BeginEffect DEF committed
    <2>4. <<>> \in Seq(Piece)
      OBVIOUS
    <2>5. SaleRole(s)'
      BY <2>1, <2>2, <2>3, <2>4 DEF SaleRole
    <2>8. DOMAIN t.todo = {} /\ t.todo \in Seq(Piece)
      BY <2>2, <2>4
    <2>6. CancelRole(s)'
      BY <2>1, <2>2, <2>3, <2>8 DEF CancelRole
    <2>7. LotRole(s)'
      BY <2>1, <2>2, <2>3 DEF LotRole
    <2> QED
      BY <2>1, <2>2, <2>5, <2>6, <2>7, RolesBegin
  <1>3. ASSUME NEW l \in Lots, BeginDispose(s, l) PROVE Roles'
    <2> DEFINE t == DisposeTx(l)
    <2>1. Begin(s, t)
      BY <1>3 DEF BeginDispose, DisposeTx
    <2>2. t.kind = "dispose" /\ t.target = l /\ \A k \in Lots : t.moves[k] = <<>>
      BY DisposeTxType
    <2> HIDE DEF t
    <2>3. tx'[s] = t
      BY <2>1, BeginEffect
    <2>5. SaleRole(s)' /\ CancelRole(s)' /\ LotRole(s)'
      BY <2>2, <2>3 DEF SaleRole, CancelRole, LotRole
    <2> QED
      BY <2>1, <2>2, <2>5, RolesBegin
  <1>4. ASSUME NEW l \in Lots, NEW n \in Quantities, NEW st \in Statuses, NEW e \in Days,
               BeginReceive(s, l, n, [status |-> st, expiry |-> e])
        PROVE  Roles'
    <2> DEFINE t == ReceiveTx(l, n, [status |-> st, expiry |-> e])
    <2>1. Begin(s, t) /\ lot[l] = NoLot /\ \A r \in Sessions : tx[r].target # l
      BY <1>4 DEF BeginReceive, ReceiveTx
    <2>2. t.kind = "receive" /\ t.target = l /\ t.seen > 0 /\ t.lot.status \in LotStatus
          /\ \A k \in Lots : t.moves[k] = <<>>
      BY ReceiveTxType
    <2> HIDE DEF t
    <2>3. tx'[s] = t /\ lot' = lot
      BY <2>1, BeginEffect DEF committed
    <2>5. SaleRole(s)' /\ CancelRole(s)' /\ LotRole(s)'
      BY <2>1, <2>2, <2>3 DEF SaleRole, CancelRole, LotRole
    <2> QED
      BY <2>1, <2>2, <2>5, RolesBegin
  <1> QED
    BY <1>1, <1>2, <1>3, <1>4

\* The statuses and dates of lots matter to no role, as long as they are lots.
LEMMA UpdateRoles ==
  ASSUME Types, Roles, NEW l \in Lots, NEW new \in LotRow, new.status # "none", UpdateBatch(l, new)
  PROVE  Roles'
  <1>1. /\ lot[l] # NoLot /\ lot' = [lot EXCEPT ![l] = new]
        /\ UNCHANGED <<today, stock, sold, ledger, order, alloc, tx>>
    BY DEF UpdateBatch
  <1>2. lot'[l] = new /\ \A k \in Lots : k # l => lot'[k] = lot[k]
    BY <1>1 DEF Types
  <1>3. ASSUME NEW s \in Sessions PROVE SaleRole(s)' /\ CancelRole(s)' /\ LotRole(s)'
    <2>1. SaleRole(s) /\ CancelRole(s) /\ LotRole(s)
      BY DEF Roles
    <2>2. tx[s].rows \in Seq(Lots)
      BY TxFields
    <2>3. \A i \in DOMAIN tx[s].rows : tx[s].rows[i] \in Lots
      BY <2>2
    <2>4. SaleRole(s)'
      BY <1>1, <1>2, <2>1, <2>3 DEF SaleRole
    <2>5. CancelRole(s)'
      BY <1>1, <2>1 DEF CancelRole
    <2>6. LotRole(s)'
      BY <1>1, <1>2, <2>1 DEF LotRole
    <2> QED
      BY <2>4, <2>5, <2>6
  <1>4. \A k \in Lots : NothingOf(k)'
    BY <1>1, <1>2 DEF Roles, NothingOf
  <1> QED
    BY <1>1, <1>3, <1>4 DEF Roles

LEMMA RolesKept ==
  ASSUME Types, Roles, [Next]_vars
  PROVE  Roles'
  <1>1. ASSUME NEW s \in Sessions, Step(s) PROVE Roles'
    BY <1>1, AcquireRoles, ReadLotsRoles, TakeRoles, CommitSaleRoles, CheckCancelRoles, RestoreRoles,
       WriteLedgerRoles, CommitCancelRoles, CommitDisposeRoles, CommitReceiveRoles DEF Step
  <1>2. ASSUME NEW s \in Sessions, Rollback(s) PROVE Roles'
    BY <1>2, RollbackRoles
  <1>3. ASSUME NEW l \in Lots, NEW st \in Statuses, NEW e \in Expiries \cup {lot[l].expiry},
               UpdateBatch(l, [status |-> st, expiry |-> e, code |-> lot[l].code])
        PROVE  Roles'
    <2> DEFINE new == [status |-> st, expiry |-> e, code |-> lot[l].code]
    <2>1. lot[l] \in LotRow
      BY DEF Types
    <2>2. new \in LotRow /\ new.status # "none"
      BY <2>1, Numbers, ManagersStatuses DEF LotRow, LotStatus
    <2> HIDE DEF new
    <2>3. UpdateBatch(l, new)
      BY <1>3 DEF new
    <2> QED
      BY <2>2, <2>3, UpdateRoles
  <1>4. CASE Midnight
    <2>1. UNCHANGED <<lot, stock, sold, ledger, order, alloc, tx>>
      BY <1>4 DEF Midnight
    <2> QED
      BY <2>1 DEF Roles, SaleRole, CancelRole, LotRole, NothingOf
  <1>5. CASE UNCHANGED vars
    <2>1. UNCHANGED <<lot, stock, sold, ledger, order, alloc, tx>>
      BY <1>5 DEF vars
    <2> QED
      BY <2>1 DEF Roles, SaleRole, CancelRole, LotRole, NothingOf
  <1> QED
    BY <1>1, <1>2, <1>3, <1>4, <1>5, BeginRoles DEF Next, Fail, DeadlockVictim

LEMMA InitTyped == Init => Types /\ Roles
  <1> SUFFICES ASSUME Init PROVE Types /\ Roles
    OBVIOUS
  <1> USE DEF Init
  <1>1. <<>> \in Seq(MovementRow) /\ <<>> \in Seq(Demand) /\ <<>> \in Seq(Nat \ {0})
    OBVIOUS
  <1>2. NoLot \in LotRow
    BY DEF NoLot, LotRow
  <1>3. order \in [Orders -> OrderRow]
    BY <1>1 DEF OrderRow
  <1>4. Types
    BY <1>1, <1>2, <1>3, NullTxRow DEF Types
  <1>5. \A s \in Sessions : tx[s] = NullTx
    OBVIOUS
  <1>6. \A s \in Sessions : SaleRole(s) /\ CancelRole(s) /\ LotRole(s)
    BY <1>5, NullTxRow DEF SaleRole, CancelRole, LotRole
  <1>7. \A l \in Lots : NothingOf(l)
    BY <1>5, NullTxRow DEF NothingOf
  <1>8. \A s, r \in Sessions : tx[s].kind \notin {"sale", "receive"}
    BY <1>5, NullTxRow
  <1> QED
    BY <1>4, <1>6, <1>7, <1>8 DEF Roles

Typed == Types /\ Roles

\* The tables and the pending transactions have their types in every state, so stock is
\* never negative, and every transaction is about an order or a lot that it may be about.
THEOREM TypedHolds == Spec => []Typed
  <1>1. Init => Typed
    BY InitTyped DEF Typed
  <1>2. Typed /\ [Next]_vars => Typed'
    BY TypesKept, RolesKept DEF Typed
  <1> QED
    BY <1>1, <1>2, PTL DEF Spec

----------------------------------------------------------------------------
(* What the locks protect                                                  *)

HasBoth(s, l) == ForUpdate("lot", l) \in tx[s].held /\ ForUpdate("stock", l) \in tx[s].held

\* A sale asks for both locks of a lot, first of the lot.
SaleWants(s) ==
  LET t == tx[s]
      stockWanted(i) == t.want[i].table = "stock"
  IN  t.kind = "sale" =>
        /\ t.pc = "read" => t.want = <<>> /\ t.rows = <<>>
        /\ \A i \in DOMAIN t.want :
             /\ \/ t.want[i] = ForUpdate("lot", t.want[i].id)
                \/ t.want[i] = ForUpdate("stock", t.want[i].id)
             /\ ItemOf[t.want[i].id] = Head(t.todo).item
             /\ stockWanted(i) => \/ ForUpdate("lot", t.want[i].id) \in t.held
                                  \/ i > 1 /\ t.want[i - 1] = ForUpdate("lot", t.want[i].id)
        /\ \A i, j \in DOMAIN t.want :
             i < j /\ stockWanted(i) /\ stockWanted(j) => t.want[i].id # t.want[j].id

\* The rows of its statement are lots of the item it wants, each once, locked and still
\* fit to be sold.
SaleRows(s) ==
  LET t == tx[s] IN
  t.kind = "sale" =>
    /\ \A i \in DOMAIN t.want, j \in DOMAIN t.rows : t.want[i].table = "stock" => t.want[i].id # t.rows[j]
    /\ \A i, j \in DOMAIN t.rows : i # j => t.rows[i] # t.rows[j]
    /\ \A i \in DOMAIN t.rows :
         /\ ItemOf[t.rows[i]] = Head(t.todo).item
         /\ HasBoth(s, t.rows[i]) /\ Sellable(s, t.rows[i], t.day)

\* So are the lots it has taken from.
SaleMoves(s) ==
  tx[s].kind = "sale" =>
    /\ \A l \in Lots : tx[s].moves[l] # <<>> =>
         HasBoth(s, l) /\ lot[l].status = "hoatdong" /\ lot[l].expiry >= tx[s].seen
    /\ tx[s].seen <= today
    /\ tx[s].pc = "take" => tx[s].seen <= tx[s].day /\ tx[s].day <= today

\* A cancellation locks its order, then the stock it restores, lot by lot in their order,
\* and in the end shares the lots; the order stays live until it commits.
CancelLocks(s) ==
  LET t == tx[s] IN
  t.kind = "cancel" =>
    /\ t.pc = "check" =>
         /\ t.todo = <<>> /\ \A l \in Lots : t.moves[l] = <<>>
         /\ \/ t.want = <<ForUpdate("order", t.target)>> /\ t.held = {}
            \/ t.want = <<>> /\ ForUpdate("order", t.target) \in t.held
         /\ \A h \in t.held : h.table = "order"
    /\ t.pc \in {"restore", "commit"} =>
         ForUpdate("order", t.target) \in t.held /\ order[t.target].status = "live"
    /\ t.pc = "restore" =>
         /\ \/ t.want = <<>> /\ (t.todo # <<>> => ForUpdate("stock", t.todo[1][1]) \in t.held)
            \/ t.todo # <<>> /\ t.want = <<ForUpdate("stock", t.todo[1][1])>>
         /\ \A i, j \in DOMAIN t.todo : i # j => t.todo[i] # t.todo[j]
         /\ \A i, j \in DOMAIN t.todo : i < j => t.todo[i][1] <= t.todo[j][1]
         /\ \A h \in t.held : h.table = "stock" => \A i \in DOMAIN t.todo : h.id <= t.todo[i][1]
    /\ t.pc = "commit" => t.todo = <<>> /\ \A i \in DOMAIN t.want : t.want[i] = KeyShare("lot", t.want[i].id)
    /\ \A h \in t.held : h.mode = "update" <=> h.table \in {"order", "stock"}
    /\ \A l \in Lots : t.moves[l] # <<>> => ForUpdate("stock", l) \in t.held

DisposeLocks(s) ==
  LET t == tx[s] IN
  t.kind = "dispose" =>
    /\ lot[t.target].status # "none"
    /\ \/ t.want = <<ForUpdate("lot", t.target), ForUpdate("stock", t.target)>>
       \/ t.want = <<ForUpdate("stock", t.target)>> /\ ForUpdate("lot", t.target) \in t.held
       \/ t.want = <<>> /\ HasBoth(s, t.target)

LocksOk(s) == SaleWants(s) /\ SaleRows(s) /\ SaleMoves(s) /\ CancelLocks(s) /\ DisposeLocks(s)

LockExclusion ==
  \A s, r \in Sessions : s # r => \A a \in tx[s].held, b \in tx[r].held : ~Conflict(a, b)

Protected ==
  /\ LockExclusion
  /\ \A s \in Sessions : LocksOk(s)

\* Another transaction's step leaves a transaction its locks and what they protect.
LEMMA LocksFrame ==
  ASSUME Types, Roles, NEW r \in Sessions, tx'[r] = tx[r], LocksOk(r),
         today <= today', today' \in Nat,
         \A l \in Lots : HasBoth(r, l) /\ lot[l].status # "none" => lot'[l] = lot[l] /\ stock'[l] = stock[l],
         \A l \in Lots : lot[l].status # "none" => lot'[l].status # "none",
         tx[r].kind = "cancel" /\ tx[r].pc # "check" => order'[tx[r].target] = order[tx[r].target]
  PROVE  LocksOk(r)'
  <1>1. SaleWants(r)'
    BY DEF LocksOk, SaleWants
  <1>2. SaleRows(r)'
    <2>1. tx[r].rows \in Seq(Lots)
      BY TxFields
    <2>2. \A i \in DOMAIN tx[r].rows : tx[r].rows[i] \in Lots
      BY <2>1
    <2>3. SaleRows(r)
      BY DEF LocksOk
    <2>4. ASSUME tx[r].kind = "sale", NEW i \in DOMAIN tx[r].rows
          PROVE  HasBoth(r, tx[r].rows[i])' /\ Sellable(r, tx[r].rows[i], tx[r].day)'
      BY <2>2, <2>3, <2>4 DEF SaleRows, HasBoth, Sellable, Visible
    <2> QED
      BY <2>3, <2>4 DEF SaleRows
  <1>3. SaleMoves(r)'
    <2>1. SaleMoves(r) /\ today \in Nat /\ tx[r].seen \in Nat /\ tx[r].day \in Nat
      BY Numbers, TxFields DEF LocksOk, Types
    <2> QED
      BY <2>1 DEF SaleMoves, HasBoth
  <1>4. CancelLocks(r)'
    BY DEF LocksOk, CancelLocks, Roles, CancelRole
  <1>5. DisposeLocks(r)'
    BY DEF LocksOk, DisposeLocks, HasBoth, Roles, LotRole
  <1> QED
    BY <1>1, <1>2, <1>3, <1>4, <1>5 DEF LocksOk

LEMMA ConflictSymmetric == \A a, b : Conflict(a, b) <=> Conflict(b, a)
  BY DEF Conflict

\* Locks that were given up, and locks that nobody held, exclude each other still.
LEMMA ExclusionKept ==
  ASSUME Types, LockExclusion, NEW s \in Sessions, \A r \in Sessions : r # s => tx'[r] = tx[r],
         \A a \in tx'[s].held : a \in tx[s].held
                                \/ \A r \in Sessions : r # s => \A b \in tx[r].held : ~Conflict(a, b)
  PROVE  LockExclusion'
  BY ConflictSymmetric DEF LockExclusion

\* A step of a transaction before its end.
LEMMA ProtectedStep ==
  ASSUME Types, Roles, Protected, NEW s \in Sessions, committed' = committed,
         \A r \in Sessions : r # s => tx'[r] = tx[r],
         \A a \in tx'[s].held : a \in tx[s].held
                                \/ \A r \in Sessions : r # s => \A b \in tx[r].held : ~Conflict(a, b),
         LocksOk(s)'
  PROVE  Protected'
  <1>1. LockExclusion'
    BY ExclusionKept DEF Protected
  <1>2. ASSUME NEW r \in Sessions PROVE LocksOk(r)'
    <2>1. CASE r = s
      BY <2>1
    <2>2. CASE r # s
      <3>1. LocksOk(r) /\ tx'[r] = tx[r]
        BY <2>2 DEF Protected
      <3>2. today' = today /\ lot' = lot /\ stock' = stock /\ order' = order
        BY DEF committed
      <3>3. today \in Nat
        BY Numbers DEF Types
      <3> QED
        BY <3>1, <3>2, <3>3, LocksFrame
    <2> QED
      BY <2>1, <2>2
  <1> QED
    BY <1>1, <1>2 DEF Protected

LEMMA NullLocks ==
  ASSUME NEW s, tx'[s] = NullTx
  PROVE  LocksOk(s)' /\ tx'[s].held = {}
  BY NullTxRow DEF LocksOk, SaleWants, SaleRows, SaleMoves, CancelLocks, DisposeLocks

\* The end of a transaction, which changes only lots that no other has locked.
LEMMA ProtectedEnd ==
  ASSUME Types, Roles, Protected, NEW s \in Sessions, Ended(s), today' = today,
         \A r \in Sessions : r # s =>
           /\ \A l \in Lots : HasBoth(r, l) /\ lot[l].status # "none" => lot'[l] = lot[l] /\ stock'[l] = stock[l]
           /\ tx[r].kind = "cancel" /\ tx[r].pc # "check" => order'[tx[r].target] = order[tx[r].target],
         \A l \in Lots : lot[l].status # "none" => lot'[l].status # "none"
  PROVE  Protected'
  <1>1. tx'[s] = NullTx /\ \A r \in Sessions : r # s => tx'[r] = tx[r]
    BY EndEffect
  <1>2. LocksOk(s)' /\ tx'[s].held = {}
    BY <1>1, NullLocks
  <1>3. LockExclusion'
    BY <1>1, <1>2, ExclusionKept DEF Protected
  <1>4. today \in Nat
    BY Numbers DEF Types
  <1>5. ASSUME NEW r \in Sessions, r # s PROVE LocksOk(r)'
    BY <1>1, <1>4, <1>5, LocksFrame DEF Protected
  <1> QED
    BY <1>2, <1>3, <1>5 DEF Protected

LEMMA RollbackProtected ==
  ASSUME Types, Roles, Protected, NEW s \in Sessions, Rollback(s)
  PROVE  Protected'
  <1>1. Ended(s) /\ today' = today /\ lot' = lot /\ stock' = stock /\ order' = order
    BY DEF Rollback, Ended, committed
  <1> QED
    BY <1>1, ProtectedEnd

\* Two transactions never hold the lock of one row.
LEMMA OnlyOneHolds ==
  ASSUME LockExclusion, NEW s \in Sessions, NEW r \in Sessions, s # r, NEW table, NEW id,
         ForUpdate(table, id) \in tx[s].held
  PROVE  ForUpdate(table, id) \notin tx[r].held
  BY DEF LockExclusion, Conflict, ForUpdate, Lock

\* What a transaction with pending movements holds.
LEMMA MovesAreLocked ==
  ASSUME Types, Roles, Protected, NEW s \in Sessions, NEW l \in Lots, tx[s].moves[l] # <<>>
  PROVE  ForUpdate("stock", l) \in tx[s].held /\ tx[s].kind \in {"sale", "cancel"}
  <1>1. tx[s].kind \in Kinds
    BY TxFields
  <1>2. tx[s].kind \notin {"idle", "receive", "dispose"}
    BY NullTxRow DEF Roles, LotRole
  <1>3. tx[s].kind \in {"sale", "cancel"}
    BY <1>1, <1>2 DEF Kinds
  <1> QED
    BY <1>3 DEF Protected, LocksOk, SaleMoves, CancelLocks, HasBoth

\* So a commit changes no stock that another transaction has locked.
LEMMA PostProtects ==
  ASSUME Types, Roles, Protected, NEW s \in Sessions, NEW r \in Sessions, r # s, NEW l \in Lots,
         ForUpdate("stock", l) \in tx[r].held
  PROVE  tx[s].moves[l] = <<>> /\ Visible(s, l) = stock[l]
  <1>1. tx[s].moves[l] = <<>>
    BY MovesAreLocked, OnlyOneHolds DEF Protected
  <1> QED
    BY <1>1 DEF Visible, LastAfter

LEMMA CommitSaleProtected ==
  ASSUME Types, Roles, Protected, NEW s \in Sessions, CommitSale(s)
  PROVE  Protected'
  <1>1. /\ Ended(s) /\ today' = today /\ lot' = lot /\ stock' = [l \in Lots |-> Visible(s, l)]
        /\ order' = [order EXCEPT ![tx[s].target] = [status |-> "live", cart |-> tx[s].cart]]
        /\ Ready(s, "sale", "read")
    BY DEF CommitSale, Post, Ended
  <1>2. tx[s].kind = "sale" /\ order[tx[s].target].status = "none" /\ tx[s].target \in Orders
    BY <1>1 DEF Ready, Roles, SaleRole
  <1>3. ASSUME NEW r \in Sessions, r # s
        PROVE  /\ \A l \in Lots : HasBoth(r, l) => lot'[l] = lot[l] /\ stock'[l] = stock[l]
               /\ tx[r].kind = "cancel" /\ tx[r].pc # "check" => order'[tx[r].target] = order[tx[r].target]
    <2>1. \A l \in Lots : HasBoth(r, l) => lot'[l] = lot[l] /\ stock'[l] = stock[l]
      BY <1>1, <1>3, PostProtects DEF HasBoth
    <2>2. tx[r].kind = "cancel" => tx[r].target \in Orders /\ tx[r].target # tx[s].target
      BY <1>2 DEF Roles, CancelRole
    <2> QED
      BY <1>1, <2>1, <2>2 DEF Types
  <1> QED
    BY <1>1, <1>3, ProtectedEnd

LEMMA CommitCancelProtected ==
  ASSUME Types, Roles, Protected, NEW s \in Sessions, CommitCancel(s)
  PROVE  Protected'
  <1>1. /\ Ended(s) /\ today' = today /\ lot' = lot /\ stock' = [l \in Lots |-> Visible(s, l)]
        /\ order' = [order EXCEPT ![tx[s].target].status = "cancelled"]
        /\ Ready(s, "cancel", "commit")
    BY DEF CommitCancel, Post, Ended
  <1>2. ForUpdate("order", tx[s].target) \in tx[s].held /\ tx[s].target \in Orders
    BY <1>1 DEF Ready, Protected, LocksOk, CancelLocks, Roles, CancelRole
  <1>3. ASSUME NEW r \in Sessions, r # s
        PROVE  /\ \A l \in Lots : HasBoth(r, l) => lot'[l] = lot[l] /\ stock'[l] = stock[l]
               /\ tx[r].kind = "cancel" /\ tx[r].pc # "check" => order'[tx[r].target] = order[tx[r].target]
    <2>1. \A l \in Lots : HasBoth(r, l) => lot'[l] = lot[l] /\ stock'[l] = stock[l]
      BY <1>1, <1>3, PostProtects DEF HasBoth
    <2>2. ASSUME tx[r].kind = "cancel", tx[r].pc # "check"
          PROVE  tx[r].target \in Orders /\ tx[r].target # tx[s].target
      <3>1. tx[r].target \in Orders /\ ForUpdate("order", tx[r].target) \in tx[r].held
        BY <2>2 DEF Protected, LocksOk, CancelLocks, Roles, CancelRole
      <3>2. ForUpdate("order", tx[s].target) \notin tx[r].held
        BY <1>2, <1>3, OnlyOneHolds DEF Protected
      <3> QED
        BY <3>1, <3>2
    <2> QED
      BY <1>1, <2>1, <2>2 DEF Types
  <1> QED
    BY <1>1, <1>3, ProtectedEnd

LEMMA CommitReceiveProtected ==
  ASSUME Types, Roles, Protected, NEW s \in Sessions, CommitReceive(s)
  PROVE  Protected'
  <1>1. CASE Rollback(s)
    BY <1>1, RollbackProtected
  <1>2. CASE ~Rollback(s)
    <2> DEFINE l == tx[s].target
    <2>1. /\ Ready(s, "receive", "insert") /\ Ended(s)
          /\ lot' = [lot EXCEPT ![l] = tx[s].lot] /\ stock' = [stock EXCEPT ![l] = tx[s].seen]
          /\ today' = today /\ order' = order
      BY <1>2 DEF CommitReceive, Ended
    <2>2. l \in Lots /\ lot[l].status = "none"
      BY <2>1 DEF Ready, Roles, LotRole, NoLot
    <2> HIDE DEF l
    <2>3. \A k \in Lots : lot[k].status # "none" => lot'[k] = lot[k] /\ stock'[k] = stock[k]
      BY <2>1, <2>2 DEF Types
    <2> QED
      BY <2>1, <2>3, ProtectedEnd
  <1> QED
    BY <1>1, <1>2

LEMMA CommitDisposeProtected ==
  ASSUME Types, Roles, Protected, NEW s \in Sessions, CommitDispose(s)
  PROVE  Protected'
  <1>1. CASE Rollback(s)
    BY <1>1, RollbackProtected
  <1>2. CASE ~Rollback(s)
    <2> DEFINE l == tx[s].target
    <2>1. /\ Ready(s, "dispose", "check") /\ Ended(s)
          /\ lot' = [lot EXCEPT ![l].status = "hethan"] /\ stock' = [stock EXCEPT ![l] = 0]
          /\ today' = today /\ order' = order
      BY <1>2 DEF CommitDispose, Ended
    <2>2. l \in Lots /\ HasBoth(s, l)
      BY <2>1 DEF Ready, Roles, LotRole, Protected, LocksOk, DisposeLocks
    <2>3. \A r \in Sessions : r # s => ~HasBoth(r, l)
      BY <2>2, OnlyOneHolds DEF Protected, HasBoth
    <2> HIDE DEF l
    <2>4. \A k \in Lots : k # l => lot'[k] = lot[k] /\ stock'[k] = stock[k]
      BY <2>1, <2>2 DEF Types
    <2>5. lot'[l].status = "hethan"
      BY <2>1, <2>2 DEF Types, LotRow
    <2>6. ASSUME NEW r \in Sessions, r # s
          PROVE  /\ \A k \in Lots : HasBoth(r, k) => lot'[k] = lot[k] /\ stock'[k] = stock[k]
                 /\ order'[tx[r].target] = order[tx[r].target]
      BY <2>1, <2>3, <2>4, <2>6
    <2>7. \A k \in Lots : lot[k].status # "none" => lot'[k].status # "none"
      BY <2>4, <2>5
    <2> QED
      BY <2>1, <2>6, <2>7, ProtectedEnd
  <1> QED
    BY <1>1, <1>2

\* A manager's change of a lot waits until nobody has locked it, and days only pass.
LEMMA UpdateProtected ==
  ASSUME Types, Roles, Protected, NEW l \in Lots, NEW new \in LotRow, new.status # "none", UpdateBatch(l, new)
  PROVE  Protected'
  <1>1. /\ \A s \in Sessions : ForUpdate("lot", l) \notin tx[s].held
        /\ lot' = [lot EXCEPT ![l] = new] /\ UNCHANGED <<today, stock, sold, ledger, order, alloc, tx>>
    BY DEF UpdateBatch
  <1>2. lot'[l] = new /\ \A k \in Lots : k # l => lot'[k] = lot[k]
    BY <1>1 DEF Types
  <1>3. today \in Nat
    BY Numbers DEF Types
  <1>4. ASSUME NEW r \in Sessions PROVE LocksOk(r)'
    <2>1. \A k \in Lots : HasBoth(r, k) => lot'[k] = lot[k] /\ stock'[k] = stock[k]
      BY <1>1, <1>2 DEF HasBoth
    <2>2. \A k \in Lots : lot[k].status # "none" => lot'[k].status # "none"
      BY <1>2
    <2> QED
      BY <1>1, <1>3, <2>1, <2>2, LocksFrame DEF Protected
  <1>5. LockExclusion'
    BY <1>1 DEF Protected, LockExclusion
  <1> QED
    BY <1>4, <1>5 DEF Protected

LEMMA MidnightProtected ==
  ASSUME Types, Roles, Protected, Midnight
  PROVE  Protected'
  <1>1. today' = today + 1 /\ today + 1 \in Days /\ UNCHANGED <<lot, stock, sold, ledger, order, alloc, tx>>
    BY DEF Midnight
  <1>2. today \in Nat /\ today' \in Nat /\ today <= today'
    BY <1>1, Numbers DEF Types
  <1>3. \A r \in Sessions : LocksOk(r)'
    BY <1>1, <1>2, LocksFrame DEF Protected
  <1>4. LockExclusion'
    BY <1>1 DEF Protected, LockExclusion
  <1> QED
    BY <1>3, <1>4 DEF Protected

LEMMA BeginProtected ==
  ASSUME Types, Roles, Protected, NEW s \in Sessions, NEW t, Begin(s, t), t.held = {}, LocksOk(s)'
  PROVE  Protected'
  <1>1. tx'[s] = t /\ committed' = committed /\ \A r \in Sessions : r # s => tx'[r] = tx[r]
    BY BeginEffect
  <1> QED
    BY <1>1, ProtectedStep

LEMMA BeginsProtected ==
  ASSUME Types, Roles, Protected, NEW s \in Sessions
  PROVE  /\ \A o \in Orders, cart \in Carts : BeginSale(s, o, cart) => Protected'
         /\ \A o \in Orders : BeginCancel(s, o) => Protected'
         /\ \A l \in Lots : BeginDispose(s, l) => Protected'
         /\ \A l \in Lots, n \in Quantities, st \in Statuses, e \in Days :
              BeginReceive(s, l, n, [status |-> st, expiry |-> e]) => Protected'
  <1>1. ASSUME NEW o \in Orders, NEW cart \in Carts, BeginSale(s, o, cart) PROVE Protected'
    <2> DEFINE t == SaleTx(o, cart)
    <2>1. Begin(s, t)
      BY <1>1 DEF BeginSale, SaleTx
    <2>2. t.kind = "sale" /\ t.pc = "read" /\ t.want = <<>> /\ t.rows = <<>> /\ t.held = {} /\ t.seen = today
          /\ \A l \in Lots : t.moves[l] = <<>>
      BY SaleTxType
    <2> HIDE DEF t
    <2>3. tx'[s] = t /\ today' = today /\ today \in Nat
      BY <2>1, BeginEffect, Numbers DEF committed, Types
    <2>4. DOMAIN t.want = {} /\ DOMAIN t.rows = {}
      BY <2>2
    <2>5. SaleWants(s)'
      BY <2>2, <2>3, <2>4 DEF SaleWants
    <2>6. SaleRows(s)'
      BY <2>3, <2>4 DEF SaleRows
    <2>7. SaleMoves(s)'
      BY <2>2, <2>3 DEF SaleMoves
    <2>8. CancelLocks(s)' /\ DisposeLocks(s)'
      BY <2>2, <2>3 DEF CancelLocks, DisposeLocks
    <2> QED
      BY <2>1, <2>2, <2>5, <2>6, <2>7, <2>8, BeginProtected DEF LocksOk
  <1>2. ASSUME NEW o \in Orders, BeginCancel(s, o) PROVE Protected'
    <2> DEFINE t == CancelTx(o)
    <2>1. Begin(s, t)
      BY <1>2 DEF BeginCancel, CancelTx
    <2>2. t.kind = "cancel" /\ t.target = o /\ t.pc = "check" /\ t.todo = <<>> /\ t.held = {}
          /\ t.want = <<ForUpdate("order", o)>> /\ \A l \in Lots : t.moves[l] = <<>>
      BY CancelTxType
    <2> HIDE DEF t
    <2>3. tx'[s] = t
      BY <2>1, BeginEffect
    <2>4. CancelLocks(s)'
      BY <2>2, <2>3 DEF CancelLocks
    <2>5. LocksOk(s)'
      BY <2>2, <2>3, <2>4 DEF LocksOk, SaleWants, SaleRows, SaleMoves, DisposeLocks
    <2> QED
      BY <2>1, <2>2, <2>5, BeginProtected
  <1>3. ASSUME NEW l \in Lots, BeginDispose(s, l) PROVE Protected'
    <2> DEFINE t == DisposeTx(l)
    <2>1. Begin(s, t) /\ stock[l] > 0
      BY <1>3 DEF BeginDispose, DisposeTx
    <2>2. t.kind = "dispose" /\ t.target = l /\ t.held = {}
          /\ t.want = <<ForUpdate("lot", l), ForUpdate("stock", l)>>
      BY DisposeTxType
    <2> HIDE DEF t
    <2>3. tx'[s] = t /\ lot' = lot
      BY <2>1, BeginEffect DEF committed
    <2>4. lot[l].status # "none"
      BY <2>1 DEF Roles, NothingOf
    <2>5. LocksOk(s)'
      BY <2>2, <2>3, <2>4 DEF LocksOk, SaleWants, SaleRows, SaleMoves, CancelLocks, DisposeLocks
    <2> QED
      BY <2>1, <2>2, <2>5, BeginProtected
  <1>4. ASSUME NEW l \in Lots, NEW n \in Quantities, NEW st \in Statuses, NEW e \in Days,
               BeginReceive(s, l, n, [status |-> st, expiry |-> e])
        PROVE  Protected'
    <2> DEFINE t == ReceiveTx(l, n, [status |-> st, expiry |-> e])
    <2>1. Begin(s, t)
      BY <1>4 DEF BeginReceive, ReceiveTx
    <2>2. t.kind = "receive" /\ t.held = {}
      BY ReceiveTxType
    <2> HIDE DEF t
    <2>3. tx'[s] = t
      BY <2>1, BeginEffect
    <2>5. LocksOk(s)'
      BY <2>2, <2>3 DEF LocksOk, SaleWants, SaleRows, SaleMoves, CancelLocks, DisposeLocks
    <2> QED
      BY <2>1, <2>2, <2>5, BeginProtected
  <1> QED
    BY <1>1, <1>2, <1>3, <1>4

LEMMA LockFields ==
  ASSUME NEW table, NEW id
  PROVE  /\ ForUpdate(table, id).table = table /\ ForUpdate(table, id).id = id /\ ForUpdate(table, id).mode = "update"
         /\ KeyShare(table, id).table = table /\ KeyShare(table, id).id = id /\ KeyShare(table, id).mode = "share"
  BY DEF ForUpdate, KeyShare, Lock

\* What follows when the committed rows and the own movements stay.
LEMMA SameView ==
  ASSUME NEW s, committed' = committed, tx'[s].moves = tx[s].moves, tx'[s].day = tx[s].day, NEW l
  PROVE  (Sellable(s, l, tx[s].day) => Sellable(s, l, tx[s].day)') /\ Visible(s, l)' = Visible(s, l)
  BY DEF Sellable, Visible, committed

LEMMA AcquireSale ==
  ASSUME Types, Roles, Protected, NEW s \in Sessions, Acquire(s), tx[s].kind = "sale"
  PROVE  LocksOk(s)'
  <1> DEFINE t == tx[s]
             u == tx'[s]
             k == Head(t.want)
  <1>1. /\ t.want # <<>> /\ committed' = committed /\ Kept(t, u) /\ u.pc = t.pc /\ u.todo = t.todo
        /\ u.day = t.day /\ u.moves = t.moves /\ u.want = Tail(t.want) /\ u.held = t.held \cup {k}
        /\ u.rows = IF k.table = "stock" /\ Sellable(s, k.id, t.day) THEN Append(t.rows, k.id) ELSE t.rows
    BY AcquireEffect
  <1>2. t.want \in Seq(LockRow) /\ t.rows \in Seq(Lots) /\ t.kind = "sale"
        /\ SaleWants(s) /\ SaleRows(s) /\ SaleMoves(s) /\ SaleRole(s)
    BY TxFields DEF Protected, LocksOk, Roles
  <1>3. /\ 1 \in DOMAIN t.want /\ k = t.want[1]
        /\ DOMAIN u.want = 1..(Len(t.want) - 1) /\ Len(t.want) \in Nat /\ DOMAIN t.want = 1..Len(t.want)
        /\ \A i \in DOMAIN u.want : i + 1 \in DOMAIN t.want /\ u.want[i] = t.want[i + 1]
    BY <1>1, <1>2, TailElements
  <1>4. u.kind = "sale" /\ u.seen = t.seen /\ t.pc # "read"
    BY <1>1, <1>2 DEF Kept, SaleWants
  <1>5. SaleWants(s)'
    <2>1. ASSUME NEW i \in DOMAIN u.want
          PROVE  /\ \/ u.want[i] = ForUpdate("lot", u.want[i].id)
                    \/ u.want[i] = ForUpdate("stock", u.want[i].id)
                 /\ ItemOf[u.want[i].id] = Head(u.todo).item
      BY <1>1, <1>2, <1>3 DEF SaleWants
    <2>2. ASSUME NEW i \in DOMAIN u.want, u.want[i].table = "stock"
          PROVE  \/ ForUpdate("lot", u.want[i].id) \in u.held
                 \/ i > 1 /\ u.want[i - 1] = ForUpdate("lot", u.want[i].id)
      <3>1. i + 1 \in DOMAIN t.want /\ u.want[i] = t.want[i + 1]
        BY <1>3
      <3>2. \/ ForUpdate("lot", t.want[i + 1].id) \in t.held
            \/ t.want[(i + 1) - 1] = ForUpdate("lot", t.want[i + 1].id)
        BY <1>2, <2>2, <3>1 DEF SaleWants
      <3>3. (i + 1) - 1 = i /\ i \in Nat
        BY <1>3
      <3>4. CASE i = 1
        BY <1>1, <1>3, <3>1, <3>2, <3>3, <3>4
      <3>5. CASE i # 1
        <4>1. i - 1 \in DOMAIN u.want /\ i > 1 /\ (i - 1) + 1 = i
          BY <1>3, <3>5
        <4>2. u.want[i - 1] = t.want[i]
          BY <1>3, <4>1
        <4> QED
          BY <1>1, <3>1, <3>2, <3>3, <4>1, <4>2
      <3> QED
        BY <3>4, <3>5
    <2>3. ASSUME NEW i \in DOMAIN u.want, NEW j \in DOMAIN u.want, i < j,
                 u.want[i].table = "stock", u.want[j].table = "stock"
          PROVE  u.want[i].id # u.want[j].id
      <3>1. i + 1 \in DOMAIN t.want /\ j + 1 \in DOMAIN t.want /\ i + 1 < j + 1
        BY <1>3, <2>3
      <3>2. u.want[i] = t.want[i + 1] /\ u.want[j] = t.want[j + 1]
        BY <1>3
      <3>3. t.want[i + 1].id # t.want[j + 1].id
        BY <1>2, <2>3, <3>1, <3>2 DEF SaleWants
      <3> QED
        BY <3>2, <3>3
    <2> QED
      BY <1>1, <1>4, <2>1, <2>2, <2>3 DEF SaleWants
  <1>6. \A l : HasBoth(s, l) => HasBoth(s, l)'
    BY <1>1 DEF HasBoth
  <1>7. \A l : (Sellable(s, l, t.day) => Sellable(s, l, t.day)') /\ Visible(s, l)' = Visible(s, l)
    BY <1>1, SameView
  <1>8. SaleRows(s)'
    <2>1. CASE u.rows = t.rows
      <3>1. ASSUME NEW i \in DOMAIN u.want, NEW j \in DOMAIN u.rows, u.want[i].table = "stock"
            PROVE  u.want[i].id # u.rows[j]
        <4>1. i + 1 \in DOMAIN t.want /\ u.want[i] = t.want[i + 1]
          BY <1>3
        <4>2. j \in DOMAIN t.rows /\ u.rows[j] = t.rows[j]
          BY <2>1
        <4>3. t.want[i + 1].id # t.rows[j]
          BY <1>2, <3>1, <4>1, <4>2 DEF SaleRows
        <4> QED
          BY <4>1, <4>2, <4>3
      <3> QED
        BY <1>1, <1>2, <1>6, <1>7, <2>1, <3>1 DEF SaleRows
    <2>2. CASE u.rows = Append(t.rows, k.id) /\ k.table = "stock" /\ Sellable(s, k.id, t.day)
      <3>1. k.id \in Lots
        BY <1>2, <1>3, <1>4 DEF SaleRole
      <3>2. PICK l \in Lots : l = k.id
        BY <3>1
      <3>3. k = ForUpdate("stock", l) /\ ForUpdate("lot", l) \in t.held /\ ItemOf[l] = Head(t.todo).item
        <4>1. k = ForUpdate("stock", l)
          BY <1>2, <1>3, <2>2, <3>2, LockFields DEF SaleWants
        <4> QED
          BY <1>2, <1>3, <2>2, <3>2, <4>1 DEF SaleWants
      <3>4. HasBoth(s, l)' /\ Sellable(s, l, tx[s].day)'
        <4>1. ForUpdate("lot", l) \in tx'[s].held /\ ForUpdate("stock", l) \in tx'[s].held
          BY <1>1, <3>3
        <4>2. tx'[s].moves = tx[s].moves /\ tx'[s].day = tx[s].day /\ Sellable(s, l, tx[s].day)
          BY <1>1, <2>2, <3>2
        <4>3. Sellable(s, l, tx[s].day)'
          BY <1>1, <4>2, SameView
        <4> QED
          BY <4>1, <4>3 DEF HasBoth
      <3>5. /\ DOMAIN u.rows = 1..(Len(t.rows) + 1) /\ Len(t.rows) \in Nat /\ DOMAIN t.rows = 1..Len(t.rows)
            /\ \A i \in DOMAIN u.rows : IF i = Len(t.rows) + 1 THEN u.rows[i] = l
                                        ELSE i \in DOMAIN t.rows /\ u.rows[i] = t.rows[i]
        BY <1>2, <2>2, <3>1, <3>2, AppendElements
      <3>6. ASSUME NEW i \in DOMAIN u.want, NEW j \in DOMAIN u.rows, u.want[i].table = "stock"
            PROVE  u.want[i].id # u.rows[j]
        <4>1. i + 1 \in DOMAIN t.want /\ u.want[i] = t.want[i + 1] /\ 1 < i + 1
          BY <1>3
        <4>2. t.want[i + 1].id # l
          BY <1>2, <1>3, <2>2, <3>2, <3>6, <4>1, ZenonT(40) DEF SaleWants
        <4> QED
          BY <1>2, <3>5, <3>6, <4>1, <4>2 DEF SaleRows
      <3>7. \A j \in DOMAIN t.rows : t.rows[j] # l
        BY <1>2, <1>3, <2>2, <3>2 DEF SaleRows
      <3>8. \A i, j \in DOMAIN u.rows : i # j => u.rows[i] # u.rows[j]
        BY <1>2, <3>5, <3>7 DEF SaleRows
      <3>9. ASSUME NEW i \in DOMAIN tx'[s].rows
            PROVE  /\ ItemOf[tx'[s].rows[i]] = Head(tx'[s].todo).item
                   /\ HasBoth(s, tx[s].rows[i])' /\ Sellable(s, tx[s].rows[i], tx[s].day)'
        <4>1. CASE i = Len(t.rows) + 1
          <5>1. tx'[s].rows[i] = l
            BY <3>5, <4>1
          <5> QED
            BY <1>1, <3>3, <3>4, <5>1
        <4>2. CASE i # Len(t.rows) + 1
          <5>1. i \in DOMAIN t.rows /\ tx'[s].rows[i] = t.rows[i]
            BY <3>5, <4>2
          <5>2. PICK k2 \in Lots : k2 = t.rows[i]
            BY <1>2, <5>1
          <5>3. ItemOf[k2] = Head(t.todo).item /\ HasBoth(s, k2) /\ Sellable(s, k2, t.day)
            BY <1>2, <5>1, <5>2 DEF SaleRows
          <5>4. HasBoth(s, k2)' /\ Sellable(s, k2, tx[s].day)'
            BY <1>1, <1>6, <5>3, SameView
          <5> QED
            BY <1>1, <5>1, <5>2, <5>3, <5>4
        <4> QED
          BY <4>1, <4>2
      <3> QED
        BY <3>6, <3>8, <3>9 DEF SaleRows
    <2> QED
      BY <1>1, <2>1, <2>2
  <1>9. SaleMoves(s)'
    <2>1. lot' = lot /\ today' = today
      BY <1>1 DEF committed
    <2> QED
      BY <1>1, <1>2, <1>4, <1>6, <2>1 DEF SaleMoves
  <1> QED
    BY <1>4, <1>5, <1>8, <1>9 DEF LocksOk, CancelLocks, DisposeLocks

LEMMA AcquireCancel ==
  ASSUME Types, Roles, Protected, NEW s \in Sessions, Acquire(s), tx[s].kind = "cancel"
  PROVE  LocksOk(s)'
  <1> DEFINE t == tx[s]
             u == tx'[s]
             k == Head(t.want)
  <1>1. /\ t.want # <<>> /\ committed' = committed /\ Kept(t, u) /\ u.pc = t.pc /\ u.todo = t.todo
        /\ u.moves = t.moves /\ u.want = Tail(t.want) /\ u.held = t.held \cup {k}
    BY AcquireEffect
  <1>2. t.want \in Seq(LockRow) /\ t.kind = "cancel" /\ CancelLocks(s) /\ CancelRole(s) /\ u.kind = "cancel"
        /\ u.target = t.target
    BY <1>1, TxFields DEF Protected, LocksOk, Roles, Kept
  <1>3. /\ 1 \in DOMAIN t.want /\ k = t.want[1]
        /\ \A i \in DOMAIN u.want : i + 1 \in DOMAIN t.want /\ u.want[i] = t.want[i + 1]
    BY <1>1, <1>2, TailElements
  <1>4. order' = order
    BY <1>1 DEF committed
  <1>5. CASE t.pc = "check"
    <2>1. t.want = <<ForUpdate("order", t.target)>> /\ t.held = {}
      BY <1>1, <1>2, <1>5 DEF CancelLocks
    <2>2. k = ForUpdate("order", t.target) /\ u.want = <<>> /\ u.held = {k} /\ k.table = "order"
      BY <1>1, <1>3, <2>1, LockFields
    <2>3. \A h \in u.held : h.mode = "update" <=> h.table \in {"order", "stock"}
      BY <2>2, LockFields 
    <2>4. CancelLocks(s)'
      BY <1>1, <1>2, <1>5, <2>2, <2>3, ZenonT(40) DEF CancelLocks
    <2> QED
      BY <1>2, <2>4 DEF LocksOk, SaleWants, SaleRows, SaleMoves, DisposeLocks
  <1>6. CASE t.pc = "restore"
    <2>1. t.todo # <<>> /\ t.want = <<ForUpdate("stock", t.todo[1][1])>>
      BY <1>1, <1>2, <1>6 DEF CancelLocks
    <2>2. k = ForUpdate("stock", t.todo[1][1]) /\ u.want = <<>> /\ k.table = "stock" /\ k.id = t.todo[1][1]
      BY <1>1, <1>3, <2>1, LockFields
    <2>3. \A i \in DOMAIN t.todo : t.todo[1][1] <= t.todo[i][1]
      <3>1. t.todo \in Seq(Piece)
        BY <1>2 DEF CancelRole
      <3>2. 1 \in DOMAIN t.todo /\ t.todo[1] \in Piece /\ \A i \in DOMAIN t.todo : i = 1 \/ 1 < i
        BY <2>1, <3>1
      <3>3. t.todo[1][1] \in Nat
        BY <3>2, LotIds DEF Piece
      <3> QED
        BY <1>2, <1>6, <3>2, <3>3 DEF CancelLocks
    <2>4. CancelLocks(s)'
      <3>1. \A h \in u.held : h.table = "stock" => \A i \in DOMAIN u.todo : h.id <= u.todo[i][1]
        BY <1>1, <1>2, <1>6, <2>2, <2>3 DEF CancelLocks
      <3>2. \A h \in u.held : h.mode = "update" <=> h.table \in {"order", "stock"}
        BY <1>1, <1>2, <2>2, LockFields DEF CancelLocks
      <3> QED
        BY <1>1, <1>2, <1>4, <1>6, <2>2, <3>1, <3>2 DEF CancelLocks
    <2> QED
      BY <1>2, <2>4 DEF LocksOk, SaleWants, SaleRows, SaleMoves, DisposeLocks
  <1>7. CASE t.pc = "commit"
    <2>1. k = KeyShare("lot", k.id)
      BY <1>2, <1>3, <1>7 DEF CancelLocks
    <2>2. k.mode = "share"
      BY <2>1, LockFields
    <2>3. \A h \in u.held : h.mode = "update" <=> h.table \in {"order", "stock"}
      <3>1. k.table = "lot"
        BY <2>1, LockFields
      <3> QED
        BY <1>1, <1>2, <2>2, <3>1 DEF CancelLocks
    <2>4. CancelLocks(s)'
      BY <1>1, <1>2, <1>3, <1>4, <1>7, <2>3 DEF CancelLocks
    <2> QED
      BY <1>2, <2>4 DEF LocksOk, SaleWants, SaleRows, SaleMoves, DisposeLocks
  <1> QED
    BY <1>2, <1>5, <1>6, <1>7 DEF CancelRole

LEMMA AcquireDispose ==
  ASSUME Types, Roles, Protected, NEW s \in Sessions, Acquire(s), tx[s].kind = "dispose"
  PROVE  LocksOk(s)'
  <1> DEFINE t == tx[s]
             u == tx'[s]
             k == Head(t.want)
  <1>1. /\ t.want # <<>> /\ committed' = committed /\ Kept(t, u)
        /\ u.want = Tail(t.want) /\ u.held = t.held \cup {k}
    BY AcquireEffect
  <1>2. u.kind = "dispose" /\ u.target = t.target /\ DisposeLocks(s) /\ lot' = lot
    BY <1>1 DEF Protected, LocksOk, Kept, committed
  <1>3. \/ k = ForUpdate("lot", t.target) /\ u.want = <<ForUpdate("stock", t.target)>>
        \/ k = ForUpdate("stock", t.target) /\ u.want = <<>> /\ ForUpdate("lot", t.target) \in t.held
    <2> DEFINE a == ForUpdate("lot", t.target)
               b == ForUpdate("stock", t.target)
    <2>1. t.want = <<a, b>> \/ (t.want = <<b>> /\ a \in t.held)
      <3> DEFINE c == <<a, b>>
                 d == <<b>>
      <3>1. t.want = c \/ (t.want = d /\ a \in t.held) \/ t.want = <<>>
        BY <1>2 DEF DisposeLocks
      <3> HIDE DEF c, d
      <3>2. t.want = c \/ (t.want = d /\ a \in t.held)
        BY <1>1, <3>1
      <3> QED
        BY <3>2 DEF c, d
    <2> HIDE DEF a, b
    <2>2. CASE t.want = <<a, b>>
      <3>1. k = a /\ u.want = <<b>>
        BY <1>1, <2>2
      <3> QED
        BY <3>1 DEF a, b
    <2>3. CASE t.want = <<b>> /\ a \in t.held
      <3>1. k = b /\ u.want = <<>>
        BY <1>1, <2>3
      <3> QED
        BY <2>3, <3>1 DEF a, b
    <2> QED
      BY <2>1, <2>2, <2>3
  <1>4. DisposeLocks(s)'
    BY <1>1, <1>2, <1>3 DEF DisposeLocks, HasBoth
  <1> QED
    BY <1>2, <1>4 DEF LocksOk, SaleWants, SaleRows, SaleMoves, CancelLocks

LEMMA AcquireProtected ==
  ASSUME Types, Roles, Protected, NEW s \in Sessions, Acquire(s)
  PROVE  Protected'
  <1> DEFINE k == Head(tx[s].want)
  <1>1. /\ tx[s].want # <<>> /\ \A r \in Sessions : ~Waits(s, r)
        /\ committed' = committed /\ Kept(tx[s], tx'[s]) /\ tx'[s].held = tx[s].held \cup {k}
        /\ \A r \in Sessions : r # s => tx'[r] = tx[r]
    BY AcquireEffect DEF OthersKept
  <1>2. \A r \in Sessions : r # s => \A b \in tx[r].held : ~Conflict(k, b)
    BY <1>1 DEF Waits
  <1>3. tx[s].kind \in Kinds
    BY TxFields
  <1>4. tx[s].kind # "idle"
    BY <1>1, NullTxRow DEF Roles, LotRole
  <1>6. LocksOk(s)'
    <2>1. CASE tx[s].kind = "receive"
      BY <1>1, <2>1 DEF LocksOk, SaleWants, SaleRows, SaleMoves, CancelLocks, DisposeLocks, Kept
    <2> QED
      BY <1>3, <1>4, <2>1, AcquireSale, AcquireCancel, AcquireDispose DEF Kinds
  <1> QED
    BY <1>1, <1>2, <1>6, ProtectedStep
LEMMA ReadLotsProtected ==
  ASSUME Types, Roles, Protected, NEW s \in Sessions, ReadLots(s)
  PROVE  Protected'
  <1> DEFINE item == Head(tx[s].todo).item
             S == {l \in Lots : ItemOf[l] = item /\ Sellable(s, l, today)}
  <1>1. /\ tx[s].kind = "sale" /\ tx[s].pc = "read" /\ Kept(tx[s], tx'[s])
        /\ tx'[s].pc = "take" /\ tx'[s].todo = tx[s].todo
        /\ tx'[s].day = today /\ tx'[s].moves = tx[s].moves /\ tx'[s].held = tx[s].held
        /\ tx'[s].rows = <<>> /\ OthersKept(s) /\ committed' = committed
    BY ReadLotsEffect DEF Ready
  <1>2. PICK q \in ByExpiry(S) : q \in Seq(Lots) /\ tx'[s].want = LocksOf(q)
    BY ReadLotsTypes
  <1>3. IsFiniteSet(S)
    BY FiniteLots
  <1>4. /\ \A i \in DOMAIN q : q[i] \in Lots /\ ItemOf[q[i]] = item
        /\ \A i, j \in DOMAIN q : i # j => q[i] # q[j]
    <2>1. q \in Bijection(1..Cardinality(S), S)
      BY DEF ByExpiry
    <2> HIDE DEF S
    <2>2. q \in Seq(S) /\ \A i, j \in DOMAIN q : i # j => q[i] # q[j]
      BY <1>3, <2>1, ListedOnce
    <2>3. \A i \in DOMAIN q : q[i] \in S
      BY <2>2
    <2> QED
      BY <2>2, <2>3 DEF S
  <1> DEFINE w == LocksOf(q)
  <1>5. /\ DOMAIN w = 1..(2 * Len(q)) /\ Len(q) \in Nat /\ DOMAIN q = 1..Len(q)
        /\ \A i \in DOMAIN w :
             \/ i % 2 = 1 /\ (i + 1) \div 2 \in DOMAIN q /\ w[i] = ForUpdate("lot", q[(i + 1) \div 2])
             \/ i % 2 = 0 /\ i \div 2 \in DOMAIN q /\ w[i] = ForUpdate("stock", q[i \div 2])
    <2>1. q \in Seq(Lots)
      BY <1>2
    <2>2. Len(q) \in Nat /\ DOMAIN q = 1..Len(q)
      BY <2>1
    <2> HIDE DEF ForUpdate
    <2> QED
      BY <2>1, <2>2, LocksOfType
  <1> HIDE DEF w, S, item
  <1>6. ASSUME NEW i \in DOMAIN w, w[i].table = "stock"
        PROVE  i % 2 = 0 /\ i \div 2 \in DOMAIN q /\ w[i] = ForUpdate("stock", q[i \div 2])
               /\ w[i].id = q[i \div 2]
    <2>1. i % 2 # 1
      BY <1>5, <1>6, LockFields
    <2> QED
      BY <1>5, <2>1, LockFields
  <1>7. SaleWants(s)'
    <2>1. ASSUME NEW i \in DOMAIN w
          PROVE  /\ w[i] = ForUpdate("lot", w[i].id) \/ w[i] = ForUpdate("stock", w[i].id)
                 /\ ItemOf[w[i].id] = item
      BY <1>4, <1>5, LockFields
    <2>2. ASSUME NEW i \in DOMAIN w, w[i].table = "stock"
          PROVE  i > 1 /\ w[i - 1] = ForUpdate("lot", w[i].id)
      <3>1. i \in Nat /\ i % 2 = 0 /\ i >= 1 /\ i <= 2 * Len(q)
        BY <1>5, <1>6, <2>2
      <3>2. i > 1 /\ (i - 1) % 2 = 1 /\ ((i - 1) + 1) \div 2 = i \div 2 /\ i - 1 \in 1..(2 * Len(q))
        BY <1>5, <3>1
      <3>3. w[i - 1] = ForUpdate("lot", q[i \div 2])
        <4>1. PICK j \in DOMAIN w : j = i - 1
          BY <1>5, <3>2
        <4>2. j % 2 = 1 /\ (j + 1) \div 2 = i \div 2
          BY <3>1, <3>2, <4>1
        <4>3. w[j] = ForUpdate("lot", q[(j + 1) \div 2])
          BY <1>5, <4>2
        <4> QED
          BY <4>1, <4>2, <4>3
      <3> QED
        BY <1>6, <2>2, <3>2, <3>3
    <2>3. ASSUME NEW i \in DOMAIN w, NEW j \in DOMAIN w, i < j, w[i].table = "stock", w[j].table = "stock"
          PROVE  w[i].id # w[j].id
      <3>1. i \div 2 \in DOMAIN q /\ j \div 2 \in DOMAIN q /\ w[i].id = q[i \div 2] /\ w[j].id = q[j \div 2]
            /\ i % 2 = 0 /\ j % 2 = 0
        BY <1>6, <2>3
      <3>2. i \in Nat /\ j \in Nat
        BY <1>5
      <3>3. i \div 2 # j \div 2
        BY <2>3, <3>1, <3>2
      <3> QED
        BY <1>4, <3>1, <3>3
    <2>4. tx'[s].want = w /\ Head(tx'[s].todo).item = item /\ tx'[s].pc # "read"
      BY <1>1, <1>2 DEF w, item
    <2> QED
      BY <2>1, <2>2, <2>3, <2>4 DEF SaleWants
  <1>8. SaleRows(s)'
    <2>1. DOMAIN tx'[s].rows = {}
      BY <1>1
    <2> QED
      BY <2>1 DEF SaleRows
  <1>9. SaleMoves(s)'
    <2>1. SaleMoves(s) /\ today' = today /\ lot' = lot /\ today \in Nat
      BY <1>1, Numbers DEF Protected, LocksOk, committed, Types
    <2>2. tx'[s].seen = tx[s].seen /\ tx'[s].kind = "sale" /\ tx[s].seen <= today
      BY <1>1, <2>1 DEF Kept, SaleMoves
    <2> QED
      BY <1>1, <2>1, <2>2 DEF SaleMoves, HasBoth
  <1>10. LocksOk(s)'
    BY <1>1, <1>7, <1>8, <1>9 DEF LocksOk, CancelLocks, DisposeLocks, Kept
  <1> QED
    BY <1>1, <1>10, ProtectedStep DEF OthersKept

LEMMA TakeProtected ==
  ASSUME Types, Roles, Protected, NEW s \in Sessions, Take(s)
  PROVE  Protected'
  <1>1. CASE Rollback(s)
    BY <1>1, RollbackProtected
  <1>2. CASE ~Rollback(s)
    <2>1. /\ tx[s].kind = "sale" /\ tx[s].pc = "take" /\ Kept(tx[s], tx'[s])
          /\ tx'[s].pc = "read" /\ tx'[s].want = <<>> /\ tx'[s].rows = <<>> /\ tx'[s].held = tx[s].held
          /\ OthersKept(s) /\ committed' = committed
          /\ \A l \in Lots : TakenFrom(s, l) = 0 => tx'[s].moves[l] = tx[s].moves[l]
      BY <1>2, TakeEffect DEF Ready
    <2>2. tx'[s].kind = "sale" /\ tx'[s].seen = tx[s].seen /\ lot' = lot /\ today' = today
      BY <2>1 DEF Kept, committed
    <2>3. SaleWants(s)' /\ SaleRows(s)'
      <3>1. DOMAIN tx'[s].want = {} /\ DOMAIN tx'[s].rows = {}
        BY <2>1
      <3>2. SaleWants(s)'
        BY <2>1, <3>1 DEF SaleWants
      <3> QED
        BY <3>1, <3>2 DEF SaleRows
    <2>4. SaleMoves(s) /\ SaleRows(s) /\ tx[s].rows \in Seq(Lots)
          /\ tx[s].seen \in Nat /\ tx[s].day \in Nat /\ today \in Nat
      BY TxFields, Numbers DEF Protected, LocksOk, Types
    <2>5. ASSUME NEW l \in Lots, tx'[s].moves[l] # <<>>
          PROVE  HasBoth(s, l) /\ lot[l].status = "hoatdong" /\ lot[l].expiry >= tx[s].seen
      <3>1. CASE tx[s].moves[l] # <<>>
        BY <2>1, <2>4, <3>1 DEF SaleMoves
      <3>2. CASE tx[s].moves[l] = <<>>
        <4>1. TakenFrom(s, l) # 0
          BY <2>1, <2>5, <3>2
        <4>2. PICK i \in DOMAIN tx[s].rows : tx[s].rows[i] = l
          BY <4>1 DEF TakenFrom
        <4>3. HasBoth(s, l) /\ Sellable(s, l, tx[s].day)
          BY <2>1, <2>4, <4>2 DEF SaleRows
        <4>4. lot[l].expiry \in Nat /\ lot[l].expiry >= tx[s].day /\ tx[s].seen <= tx[s].day
          BY <2>1, <2>4, <4>3 DEF SaleMoves, Sellable, Types, LotRow
        <4> QED
          BY <2>4, <4>3, <4>4 DEF Sellable
      <3> QED
        BY <3>1, <3>2
    <2>6. SaleMoves(s)'
      BY <2>1, <2>2, <2>4, <2>5 DEF SaleMoves, HasBoth
    <2>7. LocksOk(s)'
      BY <2>2, <2>3, <2>6 DEF LocksOk, CancelLocks, DisposeLocks
    <2> QED
      BY <2>1, <2>7, ProtectedStep DEF OthersKept
  <1> QED
    BY <1>1, <1>2

LEMMA CheckCancelProtected ==
  ASSUME Types, Roles, Protected, NEW s \in Sessions, CheckCancel(s)
  PROVE  Protected'
  <1>1. CASE Rollback(s)
    BY <1>1, RollbackProtected
  <1>2. CASE ~Rollback(s)
    <2>1. /\ tx[s].kind = "cancel" /\ tx[s].pc = "check" /\ tx[s].want = <<>> /\ Kept(tx[s], tx'[s])
          /\ order[tx[s].target].status = "live"
          /\ tx'[s].pc = "restore" /\ tx'[s].moves = tx[s].moves /\ tx'[s].held = tx[s].held
          /\ tx'[s].want = NextToRestore(tx'[s].todo) /\ OthersKept(s) /\ committed' = committed
      BY <1>2, CheckCancelEffect DEF Ready
    <2>2. /\ tx'[s].todo \in Seq(Piece)
          /\ \A i, j \in DOMAIN tx'[s].todo : i # j => tx'[s].todo[i] # tx'[s].todo[j]
          /\ \A i, j \in DOMAIN tx'[s].todo : i < j => tx'[s].todo[i][1] <= tx'[s].todo[j][1]
      BY <1>2, CheckCancelPieces
    <2>3. \/ tx'[s].want = <<>> /\ tx'[s].todo = <<>>
          \/ tx'[s].todo # <<>> /\ tx'[s].want = <<ForUpdate("stock", tx'[s].todo[1][1])>>
      BY <2>1, <2>2, NextToRestoreType
    <2>4. CancelLocks(s)
      BY DEF Protected, LocksOk
    <2>5. /\ \A h \in tx[s].held : h.table = "order"
          /\ \A l \in Lots : tx[s].moves[l] = <<>>
          /\ ForUpdate("order", tx[s].target) \in tx[s].held
          /\ \A h \in tx[s].held : h.mode = "update" <=> h.table \in {"order", "stock"}
      <3>1. <<ForUpdate("order", tx[s].target)>> # <<>>
        OBVIOUS
      <3> QED
        BY <2>1, <2>4, <3>1 DEF CancelLocks
    <2>6. tx'[s].kind = "cancel" /\ tx'[s].target = tx[s].target /\ order' = order
      BY <2>1 DEF Kept, committed
    <2>7. CancelLocks(s)'
      BY <2>1, <2>2, <2>3, <2>5, <2>6 DEF CancelLocks
    <2>8. LocksOk(s)'
      BY <2>6, <2>7 DEF LocksOk, SaleWants, SaleRows, SaleMoves, DisposeLocks
    <2> QED
      BY <2>1, <2>8, ProtectedStep DEF OthersKept
  <1> QED
    BY <1>1, <1>2

LEMMA RestoreProtected ==
  ASSUME Types, Roles, Protected, NEW s \in Sessions, Restore(s)
  PROVE  Protected'
  <1> DEFINE q == tx[s].todo
             r == tx'[s].todo
  <1>1. tx[s].kind = "cancel" /\ tx[s].pc = "restore" /\ tx[s].want = <<>> /\ q # <<>>
    BY DEF Restore, Ready
  <1>2. CancelLocks(s) /\ CancelRole(s) /\ q \in Seq(Piece)
    BY <1>1 DEF Protected, LocksOk, Roles, CancelRole
  <1>3. /\ 1 \in DOMAIN q /\ Head(q) = q[1] /\ q[1] \in Piece /\ q[1][1] \in Lots
    <2>1. 1 \in DOMAIN q /\ Head(q) = q[1] /\ q[1] \in Piece
      BY <1>1, <1>2
    <2> QED
      BY <2>1 DEF Piece
  <1>4. /\ Kept(tx[s], tx'[s]) /\ tx'[s].pc = tx[s].pc /\ tx'[s].held = tx[s].held
        /\ r = Tail(q) /\ tx'[s].want = NextToRestore(Tail(q))
        /\ \A k \in Lots : k # q[1][1] => tx'[s].moves[k] = tx[s].moves[k]
        /\ OthersKept(s) /\ committed' = committed
    BY <1>3, RestoreEffect
  <1>5. /\ r \in Seq(Piece) /\ DOMAIN r = 1..Len(r)
        /\ \A i \in DOMAIN r : i + 1 \in DOMAIN q /\ r[i] = q[i + 1] /\ i \in Nat
    BY <1>1, <1>2, <1>4, TailElements
  <1>6. \/ tx'[s].want = <<>> /\ r = <<>>
        \/ r # <<>> /\ tx'[s].want = <<ForUpdate("stock", r[1][1])>>
    BY <1>4, <1>5, NextToRestoreType
  <1>7. tx'[s].kind = "cancel" /\ tx'[s].target = tx[s].target /\ order' = order
    BY <1>1, <1>4 DEF Kept, committed
  <1>8. ForUpdate("stock", q[1][1]) \in tx[s].held
    <2>1. <<ForUpdate("stock", q[1][1])>> # <<>>
      OBVIOUS
    <2> QED
      BY <1>1, <1>2, <2>1 DEF CancelLocks
  <1>9. /\ \A i, j \in DOMAIN r : i # j => r[i] # r[j]
        /\ \A i, j \in DOMAIN r : i < j => r[i][1] <= r[j][1]
        /\ \A h \in tx[s].held : h.table = "stock" => \A i \in DOMAIN r : h.id <= r[i][1]
    <2>1. ASSUME NEW i \in DOMAIN r, NEW j \in DOMAIN r, i # j PROVE r[i] # r[j]
      <3>1. i + 1 \in DOMAIN q /\ j + 1 \in DOMAIN q /\ i + 1 # j + 1 /\ r[i] = q[i + 1] /\ r[j] = q[j + 1]
        BY <1>5, <2>1
      <3> QED
        BY <1>1, <1>2, <3>1 DEF CancelLocks
    <2>2. ASSUME NEW i \in DOMAIN r, NEW j \in DOMAIN r, i < j PROVE r[i][1] <= r[j][1]
      <3>1. i + 1 \in DOMAIN q /\ j + 1 \in DOMAIN q /\ i + 1 < j + 1 /\ r[i] = q[i + 1] /\ r[j] = q[j + 1]
        BY <1>5, <2>2
      <3> QED
        BY <1>1, <1>2, <3>1 DEF CancelLocks
    <2>3. ASSUME NEW h \in tx[s].held, h.table = "stock", NEW i \in DOMAIN r PROVE h.id <= r[i][1]
      <3>1. i + 1 \in DOMAIN q /\ r[i] = q[i + 1]
        BY <1>5
      <3> QED
        BY <1>1, <1>2, <2>3, <3>1 DEF CancelLocks
    <2> QED
      BY <2>1, <2>2, <2>3
  <1>10. \A l \in Lots : tx'[s].moves[l] # <<>> => ForUpdate("stock", l) \in tx[s].held
    BY <1>1, <1>2, <1>4, <1>8 DEF CancelLocks
  <1>11. CancelLocks(s)'
    BY <1>1, <1>2, <1>4, <1>6, <1>7, <1>9, <1>10 DEF CancelLocks
  <1>12. LocksOk(s)'
    BY <1>7, <1>11 DEF LocksOk, SaleWants, SaleRows, SaleMoves, DisposeLocks
  <1> QED
    BY <1>4, <1>12, ProtectedStep DEF OthersKept

LEMMA WriteLedgerProtected ==
  ASSUME Types, Roles, Protected, NEW s \in Sessions, WriteLedger(s)
  PROVE  Protected'
  <1>1. /\ tx[s].kind = "cancel" /\ tx[s].pc = "restore" /\ tx[s].todo = <<>> /\ Kept(tx[s], tx'[s])
        /\ tx'[s].pc = "commit" /\ tx'[s].held = tx[s].held /\ tx'[s].todo = tx[s].todo /\ tx'[s].moves = tx[s].moves
        /\ tx'[s].want = [i \in DOMAIN tx[s].rows |-> KeyShare("lot", tx[s].rows[i])]
        /\ OthersKept(s) /\ committed' = committed
    BY WriteLedgerEffect DEF Ready
  <1>2. CancelLocks(s) /\ tx'[s].kind = "cancel" /\ tx'[s].target = tx[s].target /\ order' = order
    BY <1>1 DEF Protected, LocksOk, Kept, committed
  <1>3. \A i \in DOMAIN tx'[s].want : tx'[s].want[i] = KeyShare("lot", tx'[s].want[i].id)
    BY <1>1, LockFields
  <1>4. CancelLocks(s)'
    BY <1>1, <1>2, <1>3 DEF CancelLocks
  <1>5. LocksOk(s)'
    BY <1>2, <1>4 DEF LocksOk, SaleWants, SaleRows, SaleMoves, DisposeLocks
  <1> QED
    BY <1>1, <1>5, ProtectedStep DEF OthersKept

LEMMA ProtectedKept ==
  ASSUME Types, Roles, Protected, [Next]_vars
  PROVE  Protected'
  <1>1. ASSUME NEW s \in Sessions, Step(s) PROVE Protected'
    BY <1>1, AcquireProtected, ReadLotsProtected, TakeProtected, CommitSaleProtected, CheckCancelProtected,
       RestoreProtected, WriteLedgerProtected, CommitCancelProtected, CommitDisposeProtected,
       CommitReceiveProtected DEF Step
  <1>2. ASSUME NEW s \in Sessions, Rollback(s) PROVE Protected'
    BY <1>2, RollbackProtected
  <1>3. ASSUME NEW l \in Lots, NEW st \in Statuses, NEW e \in Expiries \cup {lot[l].expiry},
               UpdateBatch(l, [status |-> st, expiry |-> e, code |-> lot[l].code])
        PROVE  Protected'
    <2> DEFINE new == [status |-> st, expiry |-> e, code |-> lot[l].code]
    <2>1. lot[l] \in LotRow
      BY DEF Types
    <2>2. new \in LotRow /\ new.status # "none"
      BY <2>1, Numbers, ManagersStatuses DEF LotRow, LotStatus
    <2> HIDE DEF new
    <2>3. UpdateBatch(l, new)
      BY <1>3 DEF new
    <2> QED
      BY <2>2, <2>3, UpdateProtected
  <1>4. CASE Midnight
    BY <1>4, MidnightProtected
  <1>5. CASE UNCHANGED vars
    BY <1>5 DEF vars, Protected, LockExclusion, LocksOk, SaleWants, SaleRows, SaleMoves, CancelLocks,
       DisposeLocks, HasBoth, Sellable, Visible
  <1> QED
    BY <1>1, <1>2, <1>3, <1>4, <1>5, BeginsProtected DEF Next, Fail, DeadlockVictim

LEMMA InitProtected == Init => Protected
  <1> SUFFICES ASSUME Init PROVE Protected
    OBVIOUS
  <1>1. \A s \in Sessions : tx[s] = NullTx
    BY DEF Init
  <1>2. \A s \in Sessions : LocksOk(s)
    BY <1>1, NullTxRow DEF LocksOk, SaleWants, SaleRows, SaleMoves, CancelLocks, DisposeLocks
  <1>3. \A s \in Sessions : tx[s].held = {}
    BY <1>1, NullTxRow
  <1> QED
    BY <1>2, <1>3 DEF Protected, LockExclusion

\* No two transactions ever hold conflicting locks, and what each relies on is locked: a
\* sale has both locks of every lot it counts on or has taken from, a cancellation its
\* order and the stock it has restored, taken in the order of the lots, a disposal its lot.
THEOREM ProtectedHolds == Spec => []Protected
  <1>1. Typed /\ Protected /\ [Next]_vars => Protected'
    BY ProtectedKept DEF Typed
  <1> QED
    BY InitProtected, TypedHolds, <1>1, PTL DEF Spec

\* No sale takes from a lot that a manager has blocked or that had expired when the sale
\* began, whatever the manager does and however long the sale waits.
THEOREM NothingBlocked == Spec => []NothingBlockedIsSold
  <1>1. Protected => NothingBlockedIsSold
    BY DEF Protected, LocksOk, SaleMoves, NothingBlockedIsSold, Sells
  <1> QED
    BY ProtectedHolds, <1>1, PTL

\* A cancellation waits only for its order or for the next lot to restore, and another one
\* that it waits for holds that row for itself.
LEMMA CancelWaits ==
  ASSUME Types, Roles, Protected, NEW s \in Sessions, NEW r \in Sessions, Waits(s, r),
         tx[s].kind = "cancel", tx[r].kind = "cancel"
  PROVE  /\ tx[s].pc \in {"check", "restore"}
         /\ tx[s].pc = "check" => tx[s].held = {}
         /\ tx[s].pc = "restore" => tx[s].todo # <<>> /\ tx[s].todo[1][1] \in Lots
         /\ \E h \in tx[r].held :
              /\ h.mode = "update"
              /\ tx[s].pc = "restore" => h.table = "stock" /\ h.id = tx[s].todo[1][1]
  <1> DEFINE k == Head(tx[s].want)
  <1>1. s # r /\ tx[s].want # <<>> /\ tx[s].want \in Seq(LockRow)
    BY TxFields DEF Waits
  <1>2. PICK h \in tx[r].held : Conflict(k, h)
    BY DEF Waits
  <1>3. CancelLocks(s) /\ CancelLocks(r) /\ tx[s].pc \in {"check", "restore", "commit"} /\ tx[s].todo \in Seq(Piece)
    BY DEF Protected, LocksOk, Roles, CancelRole
  <1>4. 1 \in DOMAIN tx[s].want /\ k = tx[s].want[1]
    BY <1>1
  <1>5. tx[s].pc # "commit"
    <2> SUFFICES ASSUME tx[s].pc = "commit" PROVE FALSE
      OBVIOUS
    <2>1. k = KeyShare("lot", k.id)
      BY <1>3, <1>4 DEF CancelLocks
    <2>2. h.table = "lot" /\ h.mode = "update"
      BY <1>2, <2>1, LockFields DEF Conflict
    <2> QED
      BY <1>3, <2>2 DEF CancelLocks
  <1>6. CASE tx[s].pc = "check"
    <2>1. tx[s].want = <<ForUpdate("order", tx[s].target)>> /\ tx[s].held = {}
      BY <1>1, <1>3, <1>6 DEF CancelLocks
    <2>2. k = ForUpdate("order", tx[s].target)
      BY <1>4, <2>1
    <2>3. h.table = "order"
      BY <1>2, <2>2, LockFields DEF Conflict
    <2> QED
      BY <1>3, <1>6, <2>1, <2>3 DEF CancelLocks
  <1>7. CASE tx[s].pc = "restore"
    <2>1. tx[s].todo # <<>> /\ tx[s].want = <<ForUpdate("stock", tx[s].todo[1][1])>>
      BY <1>1, <1>3, <1>7 DEF CancelLocks
    <2>2. k = ForUpdate("stock", tx[s].todo[1][1])
      BY <1>4, <2>1
    <2>3. h.table = "stock" /\ h.id = tx[s].todo[1][1]
      BY <1>2, <2>2, LockFields DEF Conflict
    <2>4. tx[s].todo[1] \in Piece
      BY <1>3, <2>1
    <2>5. tx[s].todo[1][1] \in Lots
      BY <2>4 DEF Piece
    <2> QED
      BY <1>3, <1>7, <2>1, <2>3, <2>5 DEF CancelLocks
  <1> QED
    BY <1>3, <1>5, <1>6, <1>7

\* Cancellations never deadlock with each other: one that waits in the order of the lots
\* waits for one that waits for a later lot.
THEOREM CancellationsDoNotDeadlock == Spec => []CancellationsNeverDeadlock
  <1>1. Typed /\ Protected => CancellationsNeverDeadlock
    <2> SUFFICES ASSUME Typed, Protected, NEW S \in SUBSET {s \in Sessions : tx[s].kind = "cancel"}, Deadlock(S)
                 PROVE  FALSE
      BY DEF CancellationsNeverDeadlock
    <2>1. /\ Types /\ Roles /\ S # {} /\ \A s \in S : s \in Sessions /\ tx[s].kind = "cancel"
          /\ \A s \in S : \E r \in S : Waits(s, r)
      BY DEF Typed, Deadlock
    <2> DEFINE next(s) == tx[s].todo[1][1]
    <2>2. ASSUME NEW s \in S
          PROVE  /\ tx[s].pc \in {"check", "restore"} /\ (tx[s].pc = "check" => tx[s].held = {})
                 /\ tx[s].pc = "restore" => tx[s].todo # <<>> /\ next(s) \in Lots
      BY <2>1, CancelWaits
    <2>3. ASSUME NEW s \in S, NEW r \in S, Waits(s, r)
          PROVE  tx[r].pc = "restore" /\ (tx[s].pc = "restore" => next(s) < next(r))
      <3>1. PICK h \in tx[r].held :
              h.mode = "update" /\ (tx[s].pc = "restore" => h.table = "stock" /\ h.id = next(s))
        BY <2>1, <2>3, CancelWaits
      <3>2. tx[r].pc = "restore" /\ tx[r].todo # <<>> /\ next(r) \in Lots
        BY <2>2, <3>1
      <3>3. ASSUME tx[s].pc = "restore" PROVE next(s) <= next(r) /\ next(s) # next(r)
        <4>1. h.table = "stock" /\ h.id = next(s)
          BY <3>1, <3>3
        <4>2. tx[r].todo \in Seq(Piece) /\ CancelLocks(r)
          BY <2>1 DEF Roles, CancelRole, Protected, LocksOk
        <4>3. next(s) <= next(r)
          BY <2>1, <3>2, <4>1, <4>2 DEF CancelLocks
        <4>4. PICK r2 \in S : Waits(r, r2)
          BY <2>1
        <4>5. PICK h2 \in tx[r2].held : h2.mode = "update" /\ h2.table = "stock" /\ h2.id = next(r)
          BY <2>1, <3>2, <4>4, CancelWaits
        <4>6. r # r2 /\ ~Conflict(h, h2)
          BY <2>1, <4>4 DEF Waits, Protected, LockExclusion
        <4> QED
          BY <3>1, <4>1, <4>3, <4>5, <4>6 DEF Conflict
      <3>4. tx[s].pc = "restore" => next(s) \in Lots
        BY <2>2
      <3> QED
        BY <3>2, <3>3, <3>4, LotIds
    <2> DEFINE N == {next(s) : s \in {r \in S : tx[r].pc = "restore"}}
    <2>4. N # {}
      <3>1. PICK s \in S : TRUE
        BY <2>1
      <3>2. PICK r \in S : Waits(s, r)
        BY <2>1
      <3> QED
        BY <2>3, <3>2
    <2>5. IsFiniteSet(N) /\ \A n \in N : n \in Nat
      <3>1. N \in SUBSET Lots
        BY <2>2
      <3> HIDE DEF N
      <3> QED
        BY <3>1, FiniteLots, LotIds
    <2>6. PICK m \in N : \A n \in N : n <= m
      <3> HIDE DEF N
      <3> QED
        BY <2>4, <2>5, MaxExists
    <2>7. PICK s \in S : tx[s].pc = "restore" /\ next(s) = m
      OBVIOUS
    <2>8. PICK r \in S : Waits(s, r)
      BY <2>1
    <2>9. tx[r].pc = "restore" /\ m < next(r)
      BY <2>3, <2>7, <2>8
    <2>10. next(r) \in N /\ m \in Nat /\ next(r) \in Nat
      BY <2>5, <2>9
    <2> HIDE DEF N
    <2>11. next(r) <= m
      BY <2>6, <2>10
    <2> QED
      BY <2>9, <2>10, <2>11
  <1> QED
    BY TypedHolds, ProtectedHolds, <1>1, PTL

\* What a manager disposes of is what was on the screen (batch_service.py:398): all that
\* there is of a lot that is expired now, whatever was sold, returned or edited meanwhile.
THEOREM DisposalIsAsSeen == Spec => DisposedAsSeen
  <1>1. ASSUME Typed, [Next]_vars, NEW s \in Sessions, NEW l \in Lots,
               tx[s].kind = "dispose", Len(ledger'[l]) > Len(ledger[l]), tx'[s] = NullTx,
               ledger'[l][Len(ledger'[l])].type = "xuat_huy"
        PROVE  /\ ledger'[l][Len(ledger'[l])].qty = tx[s].seen
               /\ stock[l] = tx[s].seen /\ stock'[l] = 0
               /\ lot[l].expiry < today
    <2>1. Types /\ Roles /\ tx'[s] # tx[s] /\ ledger' # ledger /\ ledger[l] \in Seq(MovementRow) /\ tx[s].target \in Lots
      <3>1. tx[s].kind # "idle" /\ tx'[s].kind = "idle"
        BY <1>1, NullTxRow
      <3>2. ledger' # ledger
        <4> SUFFICES ASSUME ledger' = ledger PROVE FALSE
          OBVIOUS
        <4>1. Len(ledger[l]) \in Nat
          BY <1>1 DEF Typed, Types
        <4> QED
          BY <1>1, <4>1
      <3> QED
        BY <1>1, <3>1, <3>2 DEF Typed, Types, Roles, LotRole
    <2>2. ASSUME NEW r \in Sessions, Step(r) PROVE r = s /\ CommitDispose(s) /\ ~Rollback(s)
      <3>1. tx'[s] # tx[s] => r = s
        <4>1. Acquire(r) \/ ReadLots(r) \/ Restore(r) \/ WriteLedger(r) \/ Take(r) \/ CheckCancel(r)
              => committed' = committed
          BY DEF Acquire, ReadLots, Restore, WriteLedger, Take, CheckCancel, Rollback, committed
        <4>2. CommitSale(r) \/ CommitCancel(r) \/ CommitDispose(r) \/ CommitReceive(r)
              => tx' = [tx EXCEPT ![r] = NullTx]
          BY DEF CommitSale, CommitCancel, CommitDispose, CommitReceive, Post, Rollback
        <4> QED
          BY <2>1, <2>2, <4>1, <4>2 DEF Step, Types, committed
      <3>2. r = s
        BY <2>1, <3>1
      <3>3. ledger' # ledger /\ tx[s].kind = "dispose"
        BY <1>1, <2>1
      <3>4. ~Acquire(s) /\ ~ReadLots(s) /\ ~Take(s) /\ ~CommitSale(s) /\ ~CheckCancel(s) /\ ~Restore(s)
            /\ ~WriteLedger(s) /\ ~CommitCancel(s) /\ ~CommitReceive(s) /\ ~Rollback(s)
        BY <3>3 DEF Acquire, ReadLots, Take, CommitSale, CheckCancel, Restore, WriteLedger, CommitCancel,
                    CommitReceive, Rollback, Ready, committed
      <3> QED
        BY <2>2, <3>2, <3>4 DEF Step
    <2>3. CommitDispose(s) /\ ~Rollback(s)
      <3>1. \A r \in Sessions : ~Rollback(r) /\ \A t : ~Begin(r, t)
        BY <2>1 DEF Begin, Rollback, committed
      <3> QED
        BY <1>1, <2>1, <2>2, <3>1 DEF Next, Fail, DeadlockVictim, BeginSale, BeginCancel, BeginDispose,
           BeginReceive, UpdateBatch, Midnight, vars
    <2>4. /\ ledger' = [ledger EXCEPT ![tx[s].target] =
                          Append(@, Movement("xuat_huy", stock[tx[s].target], stock[tx[s].target], 0, NoTarget))]
          /\ stock' = [stock EXCEPT ![tx[s].target] = 0]
          /\ QuantityUnchanged(s) /\ lot[tx[s].target].expiry < today
      BY <2>3 DEF CommitDispose
    <2>5. l = tx[s].target
      <3> SUFFICES ASSUME l # tx[s].target PROVE FALSE
        OBVIOUS
      <3>1. ledger'[l] = ledger[l] /\ Len(ledger[l]) \in Nat
        BY <2>1, <2>4 DEF Types
      <3> QED
        BY <1>1, <3>1
    <2> DEFINE m == Movement("xuat_huy", stock[l], stock[l], 0, NoTarget)
    <2>6. ledger'[l] = Append(ledger[l], m) /\ m.qty = stock[l]
      BY <2>1, <2>4, <2>5 DEF Types, Movement
    <2> HIDE DEF m
    <2>7. ledger'[l][Len(ledger'[l])] = m
      BY <2>1, <2>6
    <2>8. stock'[l] = 0
      BY <2>1, <2>4, <2>5 DEF Types
    <2> QED
      BY <2>4, <2>5, <2>6, <2>7, <2>8 DEF QuantityUnchanged
  <1>2. Typed /\ [Next]_vars =>
          [\A s \in Sessions, l \in Lots :
             tx[s].kind = "dispose" /\ Len(ledger'[l]) > Len(ledger[l]) /\ tx'[s] = NullTx
               /\ ledger'[l][Len(ledger'[l])].type = "xuat_huy"
             => /\ ledger'[l][Len(ledger'[l])].qty = tx[s].seen
                /\ stock[l] = tx[s].seen /\ stock'[l] = 0
                /\ lot[l].expiry < today]_vars
    BY <1>1
  <1> QED
    BY TypedHolds, <1>2, PTL DEF Spec, DisposedAsSeen

----------------------------------------------------------------------------
(* Sums of movements                                                       *)

Everyone == Orders \cup {NoTarget}
Weights(m) == [i \in DOMAIN m |-> m[i].qty]

\* The places of a ledger that a filter keeps.
Places(m, types, orders) == {i \in DOMAIN m : m[i].type \in types /\ m[i].order \in orders}

LEMMA FilteredTotal ==
  ASSUME NEW m \in Seq(MovementRow), NEW types, NEW orders
  PROVE  /\ Total(Filtered(m, types, orders)) = SumFunctionOnSet(Weights(m), Places(m, types, orders))
         /\ Total(Filtered(m, types, orders)) \in Nat
         /\ IsFiniteSet(Places(m, types, orders)) /\ Places(m, types, orders) \subseteq 1..Len(m)
         /\ \A i \in Places(m, types, orders) : Weights(m)[i] = m[i].qty /\ m[i].qty \in Nat
  <1> DEFINE P == Places(m, types, orders)
             f == Filtered(m, types, orders)
             g == [i \in DOMAIN f |-> f[i].qty]
  <1>1. DOMAIN m = 1..Len(m) /\ Len(m) \in Nat
    OBVIOUS
  <1>2. P \subseteq 1..Len(m)
    BY <1>1 DEF Places
  <1>3. IsFiniteSet(P)
    <2>1. IsFiniteSet(1..Len(m))
      BY <1>1, FS_Interval
    <2> HIDE DEF P
    <2> QED
      BY <1>2, <2>1, FS_Subset
  <1>4. \A i \in P : m[i] \in MovementRow
    BY <1>1, <1>2
  <1>5. \A i \in P : Weights(m)[i] = m[i].qty /\ m[i].qty \in Nat
    BY <1>1, <1>2, <1>4 DEF Weights, MovementRow
  <1>6. DOMAIN f = P /\ \A i \in P : f[i] = m[i]
    BY DEF Filtered, Places
  <1>7. Total(f) = SumFunctionOnSet(g, P)
    BY <1>6 DEF Total
  <1>8. \A i \in P : g[i] = m[i].qty
    BY <1>6
  <1> HIDE DEF P, f, g
  <1>9. SumFunctionOnSet(g, P) = SumFunctionOnSet(Weights(m), P)
    BY <1>3, <1>5, <1>8, SumSame
  <1>10. SumFunctionOnSet(Weights(m), P) \in Nat
    BY <1>3, <1>5, SumNat
  <1> QED
    BY <1>2, <1>3, <1>5, <1>7, <1>9, <1>10 DEF P, f

\* What a filter keeps of two parts of a ledger is what it keeps of the whole.
LEMMA FilteredConcat ==
  ASSUME NEW a \in Seq(MovementRow), NEW b \in Seq(MovementRow), NEW types, NEW orders
  PROVE  /\ a \o b \in Seq(MovementRow)
         /\ Total(Filtered(a \o b, types, orders))
              = Total(Filtered(a, types, orders)) + Total(Filtered(b, types, orders))
  <1> DEFINE c == a \o b
             A == Places(a, types, orders)
             B == Places(b, types, orders)
             n == Len(a)
             f == [i \in B |-> i + n]
             S == {f[i] : i \in B}
  <1>1. /\ c \in Seq(MovementRow) /\ n \in Nat /\ DOMAIN a = 1..n /\ Len(b) \in Nat /\ DOMAIN b = 1..Len(b)
        /\ DOMAIN c = 1..(n + Len(b))
        /\ \A i \in 1..n : c[i] = a[i]
        /\ \A j \in 1..Len(b) : c[j + n] = b[j]
    OBVIOUS
  <1>2. /\ IsFiniteSet(A) /\ IsFiniteSet(B) /\ A \subseteq 1..n /\ B \subseteq 1..Len(b)
        /\ \A i \in A : Weights(a)[i] = a[i].qty /\ a[i].qty \in Nat
        /\ \A i \in B : Weights(b)[i] = b[i].qty /\ b[i].qty \in Nat
    BY FilteredTotal
  <1>3. Places(c, types, orders) = A \cup S
    <2>1. ASSUME NEW i \in Places(c, types, orders) PROVE i \in A \cup S
      <3>1. i \in DOMAIN c /\ c[i].type \in types /\ c[i].order \in orders
        BY DEF Places
      <3>2. CASE i <= n
        <4>1. i \in DOMAIN a /\ c[i] = a[i]
          BY <1>1, <3>1, <3>2
        <4> QED
          BY <3>1, <4>1 DEF Places
      <3>3. CASE ~(i <= n)
        <4>1. i - n \in DOMAIN b /\ (i - n) + n = i
          BY <1>1, <3>1, <3>3
        <4>2. c[i] = b[i - n]
          BY <1>1, <4>1
        <4>3. i - n \in B
          BY <3>1, <4>1, <4>2 DEF Places
        <4> QED
          BY <4>1, <4>3
      <3> QED
        BY <3>2, <3>3
    <2>2. ASSUME NEW i \in A PROVE i \in Places(c, types, orders)
      BY <1>1 DEF Places
    <2>3. ASSUME NEW i \in B PROVE f[i] \in Places(c, types, orders)
      <3>1. i \in 1..Len(b) /\ i + n \in DOMAIN c /\ c[i + n] = b[i]
        BY <1>1, <1>2
      <3> QED
        BY <3>1 DEF Places
    <2> QED
      BY <2>1, <2>2, <2>3
  <1>4. A \cap S = {}
    BY <1>1, <1>2
  <1>5. \A i, j \in B : i # j => f[i] # f[j]
    BY <1>1, <1>2
  <1>6. \A i \in A : Weights(c)[i] = a[i].qty
    BY <1>1, <1>2 DEF Weights
  <1>7. \A i \in B : Weights(c)[f[i]] = b[i].qty
    <2> SUFFICES ASSUME NEW i \in B PROVE Weights(c)[f[i]] = b[i].qty
      OBVIOUS
    <2>1. i \in 1..Len(b) /\ i + n \in DOMAIN c /\ c[i + n] = b[i]
      BY <1>1, <1>2
    <2> QED
      BY <2>1 DEF Weights
  <1>8. IsFiniteSet(S)
    <2>1. S \subseteq 1..(n + Len(b)) /\ n + Len(b) \in Nat
      BY <1>1, <1>2
    <2> HIDE DEF S
    <2>2. IsFiniteSet(1..(n + Len(b)))
      BY <2>1, FS_Interval
    <2> QED
      BY <2>1, <2>2, FS_Subset
  <1>9. \A y \in S : \E i \in B : y = f[i]
    OBVIOUS
  <1>10. Total(Filtered(c, types, orders)) = SumFunctionOnSet(Weights(c), A \cup S)
    BY <1>1, <1>3, FilteredTotal
  <1> HIDE DEF A, B, f
  <1>11. SumFunctionOnSet(Weights(c), S) = SumFunctionOnSet(Weights(b), B)
    <2> DEFINE g == Weights(c)
               h == Weights(b)
    <2>1. \A i \in B : g[f[i]] \in Int /\ h[i] = g[f[i]]
      BY <1>2, <1>7
    <2>2. IsFiniteSet(B)
      BY <1>2
    <2> HIDE DEF g, h
    <2>3. SumFunctionOnSet(g, {f[i] : i \in B}) = SumFunctionOnSet(h, B)
      BY <1>5, <2>1, <2>2, SumImage
    <2> QED
      BY <2>3 DEF g, h
  <1> HIDE DEF S, c
  <1>12. SumFunctionOnSet(Weights(c), A) = SumFunctionOnSet(Weights(a), A)
    <2> DEFINE g == Weights(a)
               h == Weights(c)
    <2>1. \A i \in A : g[i] \in Int /\ h[i] = g[i]
      BY <1>2, <1>6
    <2>2. IsFiniteSet(A)
      BY <1>2
    <2> HIDE DEF g, h
    <2>3. SumFunctionOnSet(h, A) = SumFunctionOnSet(g, A)
      BY <2>1, <2>2, SumSame
    <2> QED
      BY <2>3 DEF g, h
  <1>13. SumFunctionOnSet(Weights(c), A \cup S) = SumFunctionOnSet(Weights(c), A) + SumFunctionOnSet(Weights(c), S)
    <2>1. \A x \in A \cup S : Weights(c)[x] \in Int
      BY <1>2, <1>6, <1>7, <1>9
    <2> QED
      BY <1>2, <1>4, <1>8, <2>1, SumUnion
  <1>14. /\ Total(Filtered(a, types, orders)) = SumFunctionOnSet(Weights(a), A)
         /\ Total(Filtered(b, types, orders)) = SumFunctionOnSet(Weights(b), B)
    BY FilteredTotal DEF A, B
  <1> QED
    BY <1>1, <1>10, <1>11, <1>12, <1>13, <1>14 DEF c

LEMMA FilteredAll ==
  ASSUME NEW m \in Seq(MovementRow), NEW types, NEW orders,
         \A i \in DOMAIN m : m[i].type \in types /\ m[i].order \in orders
  PROVE  Filtered(m, types, orders) = m
  <1>1. {i \in DOMAIN m : m[i].type \in types /\ m[i].order \in orders} = DOMAIN m
    OBVIOUS
  <1>2. m = [i \in DOMAIN m |-> m[i]]
    OBVIOUS
  <1> QED
    BY <1>1, <1>2 DEF Filtered

LEMMA FilteredNone ==
  ASSUME NEW m \in Seq(MovementRow), NEW types, NEW orders,
         \A i \in DOMAIN m : ~(m[i].type \in types /\ m[i].order \in orders)
  PROVE  Total(Filtered(m, types, orders)) = 0
  <1>1. Places(m, types, orders) = {}
    BY DEF Places
  <1> QED
    BY <1>1, FilteredTotal, SumEmpty

\* The page of a lot filters nothing out.
LEMMA Unfiltered ==
  ASSUME NEW m \in Seq(MovementRow)
  PROVE  Filtered(m, MovementType, Everyone) = m
  <1>1. \A i \in DOMAIN m : m[i] \in MovementRow
    OBVIOUS
  <1>2. \A i \in DOMAIN m : m[i].type \in MovementType /\ m[i].order \in Everyone
    BY <1>1 DEF MovementRow, Everyone
  <1> QED
    BY <1>2, FilteredAll

LEMMA TotalConcat ==
  ASSUME NEW a \in Seq(MovementRow), NEW b \in Seq(MovementRow)
  PROVE  Total(a \o b) = Total(a) + Total(b)
  <1>1. a \o b \in Seq(MovementRow)
    OBVIOUS
  <1>2. /\ Filtered(a \o b, MovementType, Everyone) = a \o b
        /\ Filtered(a, MovementType, Everyone) = a /\ Filtered(b, MovementType, Everyone) = b
    BY <1>1, Unfiltered
  <1>3. Total(Filtered(a \o b, MovementType, Everyone))
          = Total(Filtered(a, MovementType, Everyone)) + Total(Filtered(b, MovementType, Everyone))
    BY FilteredConcat
  <1> QED
    BY <1>2, <1>3

LEMMA TotalOne ==
  ASSUME NEW x \in MovementRow
  PROVE  Total(<<x>>) = x.qty
  <1> DEFINE m == <<x>>
             g == [i \in DOMAIN m |-> m[i].qty]
  <1>1. DOMAIN m = {} \cup {1} /\ m[1] = x
    OBVIOUS
  <1>2. g[1] = x.qty /\ x.qty \in Nat
    BY <1>1 DEF MovementRow
  <1>3. Total(m) = SumFunctionOnSet(g, {} \cup {1})
    BY <1>1 DEF Total
  <1> HIDE DEF g
  <1>4. SumFunctionOnSet(g, {} \cup {1}) = SumFunctionOnSet(g, {}) + g[1]
    <2>1. \A y \in {} \cup {1} : g[y] \in Int
      BY <1>2
    <2> QED
      BY <2>1, FS_EmptySet, SumAdd
  <1> QED
    BY <1>2, <1>3, <1>4, SumEmpty

LEMMA TotalAppend ==
  ASSUME NEW a \in Seq(MovementRow), NEW x \in MovementRow
  PROVE  Append(a, x) \in Seq(MovementRow) /\ Total(Append(a, x)) = Total(a) + x.qty
  <1>1. Append(a, x) = a \o <<x>> /\ <<x>> \in Seq(MovementRow) /\ Append(a, x) \in Seq(MovementRow)
    OBVIOUS
  <1> QED
    BY <1>1, TotalConcat, TotalOne

----------------------------------------------------------------------------
(* The books                                                               *)

\* Movements that follow on one another, from a first quantity.
Chained(m, first) ==
  \A i \in DOMAIN m :
    /\ m[i].before = IF i = 1 THEN first ELSE m[i - 1].after
    /\ m[i].after = IF m[i].type \in {"nhap_hang", "tra_hang"} THEN m[i].before + m[i].qty
                                                             ELSE m[i].before - m[i].qty

\* What a transaction has written and not committed goes on from the committed stock.
Pending(s, l) ==
  LET m == tx[s].moves[l]
      All(type) == \A i \in DOMAIN m : m[i].type = type /\ m[i].order = tx[s].target
  IN  /\ Chained(m, stock[l])
      /\ tx[s].kind = "sale" => All("xuat_ban") /\ Visible(s, l) = stock[l] - Total(m)
      /\ tx[s].kind = "cancel" => All("tra_hang") /\ Visible(s, l) = stock[l] + Total(m)

\* A cancellation has restored or lists to restore all the order was allocated.
LeftToRestore(s, l) ==
  {p \in DOMAIN alloc[tx[s].target][l] : \E i \in DOMAIN tx[s].todo : tx[s].todo[i] = <<l, p>>}
Restoring(s, l) ==
  tx[s].kind = "cancel" /\ tx[s].pc \in {"restore", "commit"} =>
    Total(tx[s].moves[l]) + SumFunctionOnSet(alloc[tx[s].target][l], LeftToRestore(s, l))
      = Allocated(tx[s].target, l)

\* A sale has taken or has still to take all the cart demands.
OfItem(item) == {l \in Lots : ItemOf[l] = item}
SoldSoFar(s, item) == SumFunctionOnSet([l \in Lots |-> Total(tx[s].moves[l])], OfItem(item))
Selling(s, item) ==
  tx[s].kind = "sale" =>
    SoldSoFar(s, item) + Demanded(tx[s].todo, item) = Demanded(tx[s].cart, item)

Own(s) ==
  /\ \A l \in Lots : Pending(s, l) /\ Restoring(s, l)
  /\ \A item \in Items : Selling(s, item)

\* The committed books of a lot and of an order.
TraceOf(o, l) ==
  /\ Total(Filtered(ledger[l], {"xuat_ban"}, {o})) = Allocated(o, l)
  /\ Total(Filtered(ledger[l], {"tra_hang"}, {o})) = IF order[o].status = "cancelled" THEN Allocated(o, l) ELSE 0
LotBooks(l) ==
  /\ Chained(ledger[l], 0) /\ stock[l] = LastAfter(ledger[l], 0)
  /\ Moved(l, "nhap_hang") = stock[l] + LiveOn(l) + Moved(l, "xuat_huy")
  /\ sold[l] = LiveOn(l)
  /\ \A o \in Orders : TraceOf(o, l)
OrderBooks(o) ==
  /\ order[o].status = "none" => order[o].cart = <<>> /\ \A l \in Lots : alloc[o][l] = <<>>
  /\ \A item \in Items :
       SumFunctionOnSet([l \in Lots |-> Allocated(o, l)], OfItem(item)) = Demanded(order[o].cart, item)

Codes ==
  \A k, l \in {l \in Lots : lot[l] # NoLot} :
    k # l => _batch_metadata(k).batch_code # _batch_metadata(l).batch_code

Books ==
  /\ \A s \in Sessions : Own(s)
  /\ \A l \in Lots : LotBooks(l)
  /\ \A o \in Orders : OrderBooks(o)

\* Movements that go on from where others ended.
LEMMA ChainConcat ==
  ASSUME NEW a \in Seq(MovementRow), NEW b \in Seq(MovementRow), NEW first \in Nat,
         Chained(a, first), Chained(b, LastAfter(a, first))
  PROVE  Chained(a \o b, first) /\ LastAfter(a \o b, first) = LastAfter(b, LastAfter(a, first))
  <1> DEFINE c == a \o b
             n == Len(a)
  <1>1. /\ c \in Seq(MovementRow) /\ n \in Nat /\ DOMAIN a = 1..n /\ Len(b) \in Nat /\ DOMAIN b = 1..Len(b)
        /\ DOMAIN c = 1..(n + Len(b)) /\ Len(c) = n + Len(b)
        /\ \A i \in 1..n : c[i] = a[i]
        /\ \A j \in 1..Len(b) : c[j + n] = b[j]
    OBVIOUS
  <1>2. (a = <<>> <=> n = 0) /\ (b = <<>> <=> Len(b) = 0) /\ (c = <<>> <=> Len(c) = 0)
    BY <1>1
  <1> HIDE DEF c
  <1>3. ASSUME NEW i \in DOMAIN c
        PROVE  /\ c[i].before = IF i = 1 THEN first ELSE c[i - 1].after
               /\ c[i].after = IF c[i].type \in {"nhap_hang", "tra_hang"} THEN c[i].before + c[i].qty
                                                                        ELSE c[i].before - c[i].qty
    <2>1. CASE i <= n
      <3>1. i \in DOMAIN a /\ c[i] = a[i] /\ (i # 1 => i - 1 \in 1..n)
        BY <1>1, <2>1
      <3>2. i # 1 => c[i - 1] = a[i - 1]
        BY <1>1, <3>1
      <3> QED
        BY <3>1, <3>2 DEF Chained
    <2>2. CASE ~(i <= n)
      <3>1. PICK j \in DOMAIN b : j + n = i
        <4>1. i - n \in DOMAIN b /\ (i - n) + n = i
          BY <1>1, <2>2
        <4> QED
          BY <4>1
      <3>2. c[i] = b[j]
        BY <1>1, <3>1
      <3>3. b[j].before = IF j = 1 THEN LastAfter(a, first) ELSE b[j - 1].after
        BY DEF Chained
      <3>4. CASE j = 1
        <4>1. i - 1 = n /\ (i = 1 <=> n = 0)
          BY <1>1, <3>1, <3>4
        <4>2. n # 0 => n \in 1..n /\ c[n] = a[n]
          BY <1>1
        <4>3. b[j].before = IF i = 1 THEN first ELSE c[i - 1].after
          BY <1>2, <3>3, <3>4, <4>1, <4>2 DEF LastAfter
        <4> QED
          BY <3>2, <4>3 DEF Chained
      <3>5. CASE j # 1
        <4>1. j - 1 \in 1..Len(b) /\ (j - 1) + n = i - 1 /\ i # 1
          BY <1>1, <3>1, <3>5
        <4>2. c[i - 1] = b[j - 1]
          BY <1>1, <4>1
        <4> QED
          BY <3>2, <3>3, <3>5, <4>1, <4>2 DEF Chained
      <3> QED
        BY <3>4, <3>5
    <2> QED
      BY <2>1, <2>2
  <1>4. LastAfter(c, first) = LastAfter(b, LastAfter(a, first))
    <2>1. CASE b = <<>>
      <3>1. Len(c) = n /\ (n # 0 => n \in 1..n)
        BY <1>1, <1>2, <2>1
      <3> QED
        BY <1>1, <1>2, <2>1, <3>1 DEF LastAfter
    <2>2. CASE b # <<>>
      <3>1. Len(b) \in 1..Len(b) /\ Len(c) = Len(b) + n /\ Len(c) # 0
        BY <1>1, <1>2, <2>2
      <3>2. c[Len(c)] = b[Len(b)]
        BY <1>1, <3>1
      <3> QED
        BY <1>2, <2>2, <3>1, <3>2 DEF LastAfter
    <2> QED
      BY <2>1, <2>2
  <1> QED
    BY <1>3, <1>4 DEF Chained, c

LEMMA ChainAppend ==
  ASSUME NEW a \in Seq(MovementRow), NEW x \in MovementRow, NEW first \in Nat,
         Chained(a, first), x.before = LastAfter(a, first),
         x.after = IF x.type \in {"nhap_hang", "tra_hang"} THEN x.before + x.qty ELSE x.before - x.qty
  PROVE  Chained(Append(a, x), first) /\ LastAfter(Append(a, x), first) = x.after
  <1> DEFINE b == <<x>>
  <1>1. Append(a, x) = a \o b /\ b \in Seq(MovementRow) /\ DOMAIN b = {1} /\ b[1] = x
        /\ Len(b) = 1 /\ b # <<>>
    OBVIOUS
  <1> HIDE DEF b
  <1>2. Chained(b, LastAfter(a, first))
    BY <1>1 DEF Chained
  <1>3. LastAfter(b, LastAfter(a, first)) = x.after
    BY <1>1 DEF LastAfter
  <1>4. Chained(a \o b, first) /\ LastAfter(a \o b, first) = LastAfter(b, LastAfter(a, first))
    BY <1>1, <1>2, ChainConcat
  <1> QED
    BY <1>1, <1>3, <1>4

\* Another transaction's step leaves a transaction its books.
LEMMA OwnFrame ==
  ASSUME Types, Types', Roles, NEW r \in Sessions, tx'[r] = tx[r], Own(r),
         \A l \in Lots : tx[r].moves[l] # <<>> => stock'[l] = stock[l],
         tx[r].kind = "cancel" /\ tx[r].pc \in {"restore", "commit"} => alloc'[tx[r].target] = alloc[tx[r].target]
  PROVE  Own(r)'
  <1>1. ASSUME NEW l \in Lots PROVE Pending(r, l)'
    <2>1. CASE tx[r].moves[l] # <<>>
      BY <2>1 DEF Own, Pending, Chained, Visible, LastAfter
    <2>2. CASE tx[r].moves[l] = <<>>
      <3>1. DOMAIN tx'[r].moves[l] = {} /\ Total(tx'[r].moves[l]) = 0 /\ tx'[r].moves[l] = <<>>
        BY <2>2, TotalEmpty
      <3>2. Visible(r, l)' = stock'[l]
        BY <3>1 DEF Visible, LastAfter
      <3>3. stock'[l] \in Nat
        BY DEF Types
      <3> QED
        BY <3>1, <3>2, <3>3 DEF Pending, Chained
    <2> QED
      BY <2>1, <2>2
  <1>2. ASSUME NEW l \in Lots PROVE Restoring(r, l)'
    <2> SUFFICES ASSUME tx[r].kind = "cancel", tx[r].pc \in {"restore", "commit"} PROVE Restoring(r, l)'
      BY DEF Restoring
    <2>1. alloc'[tx'[r].target] = alloc[tx[r].target] /\ Restoring(r, l)
      BY DEF Own
    <2>2. LeftToRestore(r, l)' = LeftToRestore(r, l)
      BY <2>1 DEF LeftToRestore
    <2>3. Allocated(tx[r].target, l)' = Allocated(tx[r].target, l)
      BY <2>1 DEF Allocated
    <2> QED
      BY <2>1, <2>2, <2>3 DEF Restoring
  <1>3. ASSUME NEW item \in Items PROVE Selling(r, item)'
    BY DEF Own, Selling, SoldSoFar, Demanded
  <1> QED
    BY <1>1, <1>2, <1>3 DEF Own

LEMMA DemandedType ==
  ASSUME NEW cart \in Seq(Demand), NEW item
  PROVE  /\ Demanded(cart, item) \in Nat
         /\ IsFiniteSet({i \in DOMAIN cart : cart[i].item = item})
         /\ \A i \in DOMAIN cart : cart[i].qty \in Nat \ {0}
  <1> DEFINE D == {i \in DOMAIN cart : cart[i].item = item}
             g == [i \in DOMAIN cart |-> cart[i].qty]
  <1>1. \A i \in DOMAIN cart : cart[i] \in Demand
    OBVIOUS
  <1>2. \A i \in DOMAIN cart : g[i] \in Nat /\ cart[i].qty \in Nat \ {0}
    BY <1>1 DEF Demand
  <1>3. IsFiniteSet(D)
    <2>1. IsFiniteSet(1..Len(cart)) /\ DOMAIN cart = 1..Len(cart)
      BY FS_Interval
    <2> QED
      BY <2>1, FS_Subset
  <1>4. Demanded(cart, item) = SumFunctionOnSet(g, D)
    BY DEF Demanded
  <1>5. \A i \in D : g[i] \in Nat
    BY <1>2
  <1> HIDE DEF D, g
  <1>6. SumFunctionOnSet(g, D) \in Nat
    BY <1>3, <1>5, SumNat
  <1> QED
    BY <1>2, <1>3, <1>4, <1>6 DEF D

LEMMA AllocatedType ==
  ASSUME Types, NEW o \in Orders, NEW l \in Lots
  PROVE  /\ Allocated(o, l) \in Nat
         /\ \A P \in SUBSET DOMAIN alloc[o][l] : IsFiniteSet(P) /\ SumFunctionOnSet(alloc[o][l], P) \in Nat
         /\ \A p \in DOMAIN alloc[o][l] : alloc[o][l][p] \in Nat \ {0}
  <1> DEFINE f == alloc[o][l]
  <1>1. f \in Seq(Nat \ {0})
    BY DEF Types
  <1> HIDE DEF f
  <1>2. DOMAIN f = 1..Len(f) /\ Len(f) \in Nat /\ \A p \in DOMAIN f : f[p] \in Nat \ {0}
    BY <1>1
  <1>3. IsFiniteSet(DOMAIN f)
    BY <1>2, FS_Interval
  <1>4. ASSUME NEW P \in SUBSET DOMAIN f PROVE IsFiniteSet(P) /\ SumFunctionOnSet(f, P) \in Nat
    <2>1. IsFiniteSet(P)
      BY <1>3, FS_Subset
    <2>2. \A p \in P : f[p] \in Nat
      BY <1>2
    <2> QED
      BY <2>1, <2>2, SumNat
  <1>5. SumFunctionOnSet(f, DOMAIN f) \in Nat
    BY <1>4
  <1> QED
    BY <1>2, <1>4, <1>5 DEF f, Allocated

\* A transaction that has changed nothing yet has nothing to account for.
LEMMA OwnFresh ==
  ASSUME Types', NEW s \in Sessions, \A l \in Lots : tx'[s].moves[l] = <<>>,
         tx'[s].pc \notin {"restore", "commit"},
         tx'[s].kind = "sale" => tx'[s].todo = tx'[s].cart
  PROVE  Own(s)'
  <1>1. ASSUME NEW l \in Lots PROVE Pending(s, l)' /\ Restoring(s, l)'
    <2>1. DOMAIN tx'[s].moves[l] = {} /\ Total(tx'[s].moves[l]) = 0 /\ tx'[s].moves[l] = <<>>
      BY TotalEmpty
    <2>2. Visible(s, l)' = stock'[l] /\ stock'[l] \in Nat
      BY <2>1 DEF Visible, LastAfter, Types
    <2> QED
      BY <2>1, <2>2 DEF Pending, Chained, Restoring
  <1>2. ASSUME NEW item \in Items PROVE Selling(s, item)'
    <2> SUFFICES ASSUME tx'[s].kind = "sale" PROVE Selling(s, item)'
      BY DEF Selling
    <2> DEFINE g == [l \in Lots |-> Total(tx'[s].moves[l])]
    <2>1. \A l \in OfItem(item) : g[l] = 0
      BY TotalEmpty DEF OfItem
    <2>2. IsFiniteSet(OfItem(item))
      BY FiniteLots DEF OfItem
    <2>3. SoldSoFar(s, item)' = SumFunctionOnSet(g, OfItem(item))
      BY DEF SoldSoFar, OfItem
    <2> HIDE DEF g
    <2>4. SoldSoFar(s, item)' = 0
      BY <2>1, <2>2, <2>3, SumZero
    <2>5. tx'[s].cart \in Seq(Demand)
      BY DEF Types, TxRow
    <2>6. Demanded(tx[s].cart, item)' \in Nat
      BY <2>5, DemandedType
    <2>7. Demanded(tx[s].todo, item)' = Demanded(tx[s].cart, item)'
      BY DEF Demanded
    <2> QED
      BY <2>4, <2>6, <2>7 DEF Selling
  <1> QED
    BY <1>1, <1>2 DEF Own

\* A step that only takes locks or notes the date.
LEMMA OwnSame ==
  ASSUME NEW s \in Sessions, Own(s), committed' = committed, Kept(tx[s], tx'[s]),
         tx'[s].moves = tx[s].moves, tx'[s].todo = tx[s].todo,
         tx'[s].pc \in {"restore", "commit"} => tx[s].pc \in {"restore", "commit"}
  PROVE  Own(s)'
  <1>1. stock' = stock /\ alloc' = alloc
    BY DEF committed
  <1>2. ASSUME NEW l \in Lots PROVE Pending(s, l)'
    BY <1>1 DEF Own, Pending, Kept, Chained, Visible, LastAfter
  <1>3. ASSUME NEW l \in Lots PROVE Restoring(s, l)'
    <2>1. LeftToRestore(s, l)' = LeftToRestore(s, l) /\ Allocated(tx[s].target, l)' = Allocated(tx[s].target, l)
      BY <1>1 DEF LeftToRestore, Allocated, Kept
    <2> QED
      BY <1>1, <2>1 DEF Own, Restoring, Kept
  <1>4. ASSUME NEW item \in Items PROVE Selling(s, item)'
    BY DEF Own, Selling, SoldSoFar, Demanded, Kept
  <1> QED
    BY <1>2, <1>3, <1>4 DEF Own

LEMMA CheckCancelOwn ==
  ASSUME Types, Types', Roles, Protected, NEW s \in Sessions, CheckCancel(s), ~Rollback(s)
  PROVE  Own(s)'
  <1> DEFINE o == tx[s].target
  <1>1. /\ tx[s].kind = "cancel" /\ tx[s].pc = "check" /\ Kept(tx[s], tx'[s]) /\ tx'[s].pc = "restore"
        /\ tx'[s].moves = tx[s].moves /\ committed' = committed
    BY CheckCancelEffect DEF Ready
  <1>2. /\ o \in Orders
        /\ \A l \in Lots : \A p \in DOMAIN alloc[o][l] : \E i \in DOMAIN tx'[s].todo : tx'[s].todo[i] = <<l, p>>
    BY CheckCancelPieces
  <1>3. \A l \in Lots : tx'[s].moves[l] = <<>>
    BY <1>1 DEF Protected, LocksOk, CancelLocks
  <1>4. tx'[s].target = o /\ tx'[s].kind = "cancel" /\ alloc' = alloc
    BY <1>1 DEF Kept, committed
  <1>5. ASSUME NEW l \in Lots PROVE Pending(s, l)' /\ Restoring(s, l)'
    <2>1. DOMAIN tx'[s].moves[l] = {} /\ Total(tx'[s].moves[l]) = 0 /\ tx'[s].moves[l] = <<>>
      BY <1>3, TotalEmpty
    <2>2. Visible(s, l)' = stock'[l] /\ stock'[l] \in Nat
      BY <2>1 DEF Visible, LastAfter, Types
    <2>3. LeftToRestore(s, l)' = DOMAIN alloc[o][l]
      BY <1>2, <1>4 DEF LeftToRestore
    <2>4. Allocated(tx[s].target, l)' = Allocated(o, l) /\ Allocated(o, l) \in Nat
      BY <1>2, <1>4, AllocatedType DEF Allocated
    <2>5. Allocated(o, l) = SumFunctionOnSet(alloc[o][l], DOMAIN alloc[o][l])
      BY DEF Allocated
    <2>6. Restoring(s, l)'
      BY <1>4, <2>1, <2>3, <2>4, <2>5 DEF Restoring
    <2>7. Pending(s, l)'
      BY <1>4, <2>1, <2>2 DEF Pending, Chained
    <2> QED
      BY <2>6, <2>7
  <1> QED
    BY <1>4, <1>5 DEF Own, Selling

LEMMA RestoreOwn ==
  ASSUME Types, Types', Roles, Protected, NEW s \in Sessions, Restore(s), Own(s)
  PROVE  Own(s)'
  <1> DEFINE q == tx[s].todo
  <1>1. tx[s].kind = "cancel" /\ tx[s].pc = "restore" /\ q # <<>> /\ q \in Seq(Piece) /\ tx[s].target \in Orders
    BY DEF Restore, Ready, Roles, CancelRole
  <1>2. PICK o \in Orders : o = tx[s].target
    BY <1>1
  <1>3. PICK k \in Lots, p \in Nat \ {0} : q[1] = <<k, p>> /\ k = q[1][1] /\ p = q[1][2]
    <2>1. q[1] \in Piece
      BY <1>1
    <2> QED
      BY <2>1 DEF Piece
  <1>4. 1 \in DOMAIN q /\ Head(q) = q[1] /\ p \in DOMAIN alloc[o][k]
    <2>1. 1 \in DOMAIN q /\ Head(q) = q[1]
      BY <1>1
    <2> QED
      BY <1>1, <1>2, <1>3, <2>1 DEF Roles, CancelRole
  <1>5. PICK n : n = alloc[o][k][p]
    OBVIOUS
  <1>6. PICK x : x = Movement("tra_hang", n, Visible(s, k), Visible(s, k) + n, o)
    OBVIOUS
  <1>7. /\ Kept(tx[s], tx'[s]) /\ tx'[s].pc = tx[s].pc /\ tx'[s].todo = Tail(q)
        /\ tx'[s].moves[k] = Append(tx[s].moves[k], x)
        /\ \A l \in Lots : l # k => tx'[s].moves[l] = tx[s].moves[l]
        /\ committed' = committed
    <2>1. Head(tx[s].todo)[1] = k /\ Head(tx[s].todo)[2] = p
      BY <1>3, <1>4
    <2> HIDE DEF q
    <2>2. Head(tx[s].todo)[1] \in Lots
      BY <2>1
    <2>3. x = Movement("tra_hang", alloc[tx[s].target][Head(tx[s].todo)[1]][Head(tx[s].todo)[2]],
                       Visible(s, Head(tx[s].todo)[1]),
                       Visible(s, Head(tx[s].todo)[1]) + alloc[tx[s].target][Head(tx[s].todo)[1]][Head(tx[s].todo)[2]],
                       tx[s].target)
      BY <1>2, <1>5, <1>6, <2>1
    <2>4. tx'[s].moves[k] = Append(tx[s].moves[k], x)
      BY <2>1, <2>2, <2>3, RestoreEffect
    <2> QED
      BY <2>1, <2>2, <2>4, RestoreEffect DEF q
  <1>8. tx'[s].target = o /\ tx'[s].kind = "cancel" /\ alloc' = alloc /\ stock' = stock
    BY <1>1, <1>2, <1>7 DEF Kept, committed
  <1>9. /\ \A l \in Lots : tx[s].moves[l] \in Seq(MovementRow) /\ tx'[s].moves[l] \in Seq(MovementRow)
        /\ stock[k] \in Nat /\ Visible(s, k) \in Nat /\ n \in Nat \ {0}
    <2>1. \A l \in Lots : tx[s].moves[l] \in Seq(MovementRow) /\ tx'[s].moves[l] \in Seq(MovementRow)
      <3>1. tx[s].moves \in [Lots -> Seq(MovementRow)]
        BY DEF Types, TxRow
      <3>2. tx'[s].moves \in [Lots -> Seq(MovementRow)]
        BY DEF Types, TxRow
      <3> QED
        BY <3>1, <3>2
    <2>2. stock[k] \in Nat
      BY DEF Types
    <2>3. Visible(s, k) \in Nat /\ n \in Nat \ {0}
      BY <1>4, <1>5, VisibleType, AllocatedType
    <2> QED
      BY <2>1, <2>2, <2>3
  <1>10. x \in MovementRow /\ x.qty = n /\ x.before = Visible(s, k) /\ x.after = Visible(s, k) + n
         /\ x.type = "tra_hang" /\ x.order = o
    BY <1>6, <1>9 DEF Movement, MovementRow, MovementType
  <1> DEFINE left(l) == {j \in DOMAIN alloc[o][l] : \E i \in DOMAIN q : q[i] = <<l, j>>}
             left2(l) == {j \in DOMAIN alloc[o][l] : \E i \in DOMAIN Tail(q) : Tail(q)[i] = <<l, j>>}
  <1>11. left2(k) = left(k) \ {p} /\ p \in left(k) /\ \A l \in Lots : l # k => left2(l) = left(l)
    <2>1. DOMAIN Tail(q) = 1..(Len(q) - 1) /\ DOMAIN q = 1..Len(q) /\ Len(q) \in Nat
          /\ \A i \in DOMAIN Tail(q) : i + 1 \in DOMAIN q /\ Tail(q)[i] = q[i + 1]
      BY <1>1, TailElements
    <2>2. ASSUME NEW l, NEW j, NEW i \in DOMAIN Tail(q), Tail(q)[i] = <<l, j>>
          PROVE  \E h \in DOMAIN q : h # 1 /\ q[h] = <<l, j>>
      <3>1. i + 1 \in DOMAIN q /\ i + 1 # 1 /\ q[i + 1] = <<l, j>>
        BY <2>1, <2>2
      <3> QED
        BY <3>1
    <2>3. ASSUME NEW l, NEW j, NEW h \in DOMAIN q, h # 1, q[h] = <<l, j>>
          PROVE  \E i \in DOMAIN Tail(q) : Tail(q)[i] = <<l, j>>
      <3>1. h - 1 \in DOMAIN Tail(q) /\ (h - 1) + 1 = h
        BY <2>1, <2>3
      <3>2. Tail(q)[h - 1] = q[h]
        BY <2>1, <3>1
      <3> QED
        BY <2>3, <3>1, <3>2
    <2>4. \A i \in DOMAIN q : i # 1 => q[i] # <<k, p>>
      BY <1>1, <1>3, <1>4 DEF Protected, LocksOk, CancelLocks
    <2>5. \A l, j : (\E i \in DOMAIN Tail(q) : Tail(q)[i] = <<l, j>>) <=> \E h \in DOMAIN q : h # 1 /\ q[h] = <<l, j>>
      BY <2>2, <2>3
    <2>6. left2(k) = left(k) \ {p}
      <3>1. ASSUME NEW j \in left2(k) PROVE j \in left(k) /\ j # p
        BY <2>4, <2>5
      <3>2. ASSUME NEW j \in left(k), j # p PROVE j \in left2(k)
        <4>1. PICK h \in DOMAIN q : q[h] = <<k, j>>
          OBVIOUS
        <4>2. h # 1
          BY <1>3, <3>2, <4>1
        <4> QED
          BY <2>5, <4>1, <4>2
      <3> QED
        BY <3>1, <3>2
    <2>7. ASSUME NEW l \in Lots, l # k PROVE left2(l) = left(l)
      <3>1. \A j : q[1] # <<l, j>>
        BY <1>3, <2>7
      <3> QED
        BY <2>5, <3>1
    <2> QED
      BY <1>3, <1>4, <2>6, <2>7
  <1>12. \A l \in Lots : /\ LeftToRestore(s, l) = left(l) /\ LeftToRestore(s, l)' = left2(l)
                         /\ Allocated(tx[s].target, l)' = Allocated(o, l)
    BY <1>2, <1>7, <1>8 DEF LeftToRestore, Allocated
  <1>13. \A l \in Lots : Pending(s, l) /\ Restoring(s, l)
    BY DEF Own
  <1> HIDE DEF q, left2, left
  <1>14. ASSUME NEW l \in Lots, l # k PROVE Pending(s, l)' /\ Restoring(s, l)'
    <2>1. Pending(s, l)'
      <3>1. /\ tx'[s].moves[l] = tx[s].moves[l] /\ stock'[l] = stock[l] /\ tx'[s].target = tx[s].target
            /\ tx'[s].kind = tx[s].kind /\ Pending(s, l)
        BY <1>7, <1>8, <1>13, <1>14 DEF Kept
      <3> QED
        BY <3>1 DEF Pending, Chained, Visible, LastAfter
    <2>2. LeftToRestore(s, l)' = LeftToRestore(s, l)
      BY <1>11, <1>12, <1>14
    <2> QED
      BY <1>1, <1>2, <1>7, <1>8, <1>12, <1>13, <1>14, <2>1, <2>2 DEF Restoring
  <1>15. Total(tx'[s].moves[k]) = Total(tx[s].moves[k]) + n /\ Total(tx[s].moves[k]) \in Nat
    BY <1>7, <1>9, <1>10, TotalAppend, TotalType
  <1>16. Pending(s, k)'
    <2> DEFINE m == tx[s].moves[k]
               m2 == tx'[s].moves[k]
    <2>1. Chained(m, stock[k]) /\ Visible(s, k) = LastAfter(m, stock[k]) /\ Visible(s, k) = stock[k] + Total(m)
          /\ \A i \in DOMAIN m : m[i].type = "tra_hang" /\ m[i].order = o
      BY <1>1, <1>2, <1>13 DEF Pending, Visible
    <2>2. m \in Seq(MovementRow) /\ m2 = Append(m, x)
      BY <1>7, <1>9
    <2> HIDE DEF m, m2
    <2>3. Chained(m2, stock[k]) /\ LastAfter(m2, stock[k]) = Visible(s, k) + n
      BY <1>9, <1>10, <2>1, <2>2, ChainAppend
    <2>4. \A i \in DOMAIN m2 : m2[i].type = "tra_hang" /\ m2[i].order = o
      BY <1>10, <2>1, <2>2, AppendElements
    <2>5. LastAfter(m2, stock[k]) = stock[k] + Total(m2)
      BY <1>9, <1>15, <2>1, <2>3 DEF m, m2
    <2> QED
      BY <1>8, <2>3, <2>4, <2>5 DEF Pending, Visible, m2
  <1>17. Restoring(s, k)'
    <2> DEFINE f == alloc[o][k]
               L == LeftToRestore(s, k)
    <2>1. IsFiniteSet(L) /\ SumFunctionOnSet(f, L \ {p}) \in Nat /\ p \in L /\ \A j \in L : f[j] \in Int
      <3>1. L \in SUBSET DOMAIN f /\ L \ {p} \in SUBSET DOMAIN f /\ p \in L
        BY <1>11, <1>12 DEF left
      <3> QED
        BY <3>1, AllocatedType
    <2>2. Total(tx[s].moves[k]) + SumFunctionOnSet(f, L) = Allocated(o, k)
      BY <1>1, <1>2, <1>13 DEF Restoring
    <2>3. LeftToRestore(s, k)' = L \ {p} /\ alloc'[tx'[s].target][k] = f
      BY <1>8, <1>11, <1>12
    <2>4. f[p] = n
      BY <1>5
    <2> HIDE DEF f, L
    <2>5. SumFunctionOnSet(f, L) = SumFunctionOnSet(f, L \ {p}) + f[p]
      BY <2>1, SumRemove
    <2>6. Total(tx'[s].moves[k]) + SumFunctionOnSet(f, L \ {p}) = Allocated(o, k)
      BY <1>9, <1>15, <2>1, <2>2, <2>4, <2>5
    <2> QED
      BY <1>12, <2>3, <2>6 DEF Restoring
  <1>18. \A item \in Items : Selling(s, item)'
    BY <1>8 DEF Selling
  <1>19. \A l \in Lots : Pending(s, l)' /\ Restoring(s, l)'
    BY <1>14, <1>16, <1>17
  <1> QED
    BY <1>18, <1>19 DEF Own

----------------------------------------------------------------------------
(* What a sale takes                                                       *)

LEMMA Prefix ==
  ASSUME NEW n \in Nat \ {0}
  PROVE  IsFiniteSet(1..(n - 1)) /\ n \notin 1..(n - 1) /\ 1..n = (1..(n - 1)) \cup {n}
  <1>1. n - 1 \in Int /\ 1 \in Int
    OBVIOUS
  <1>2. IsFiniteSet(1..(n - 1))
    BY <1>1, FS_Interval
  <1>3. n \notin 1..(n - 1) /\ 1..n = (1..(n - 1)) \cup {n}
    OBVIOUS
  <1> QED
    BY <1>2, <1>3

LEMMA AmountStep ==
  ASSUME Types, NEW s \in Sessions, NEW rows \in Seq(Lots)
  PROVE  /\ Amount(s, rows, 0) = 0
         /\ \A n \in 1..Len(rows) : Amount(s, rows, n) = Amount(s, rows, n - 1) + Visible(s, rows[n])
  <1> DEFINE v == [i \in DOMAIN rows |-> Visible(s, rows[i])]
  <1>0. \A n \in 1..Len(rows) : n \in Nat \ {0}
    OBVIOUS
  <1>1. \A n : Amount(s, rows, n) = SumFunctionOnSet(v, 1..n)
    BY DEF Amount
  <1>2. \A i \in 1..Len(rows) : v[i] = Visible(s, rows[i]) /\ v[i] \in Nat
    BY VisibleType
  <1> HIDE DEF v
  <1>3. Amount(s, rows, 0) = 0
    <2>1. 1..0 = {}
      OBVIOUS
    <2> QED
      BY <1>1, <2>1, SumEmpty
  <1>4. ASSUME NEW n \in 1..Len(rows) PROVE Amount(s, rows, n) = Amount(s, rows, n - 1) + Visible(s, rows[n])
    <2>1. IsFiniteSet(1..(n - 1)) /\ n \notin 1..(n - 1) /\ 1..n = (1..(n - 1)) \cup {n}
      BY <1>0, Prefix
    <2>2. \A x \in (1..(n - 1)) \cup {n} : v[x] \in Int
      BY <1>2
    <2>3. SumFunctionOnSet(v, (1..(n - 1)) \cup {n}) = SumFunctionOnSet(v, 1..(n - 1)) + v[n]
      BY <2>1, <2>2, SumAdd
    <2> QED
      BY <1>1, <1>2, <2>1, <2>3
  <1> QED
    BY <1>3, <1>4

\* From its first n rows it takes all that is there, or all it needs.
LEMMA TakenSoFar ==
  ASSUME Types, NEW s \in Sessions, NEW rows \in Seq(Lots), NEW qty \in Nat, NEW g,
         \A i \in 1..Len(rows) : g[i] = Taken(s, rows, qty, i)
  PROVE  \A n \in 0..Len(rows) :
           SumFunctionOnSet(g, 1..n) = IF Amount(s, rows, n) <= qty THEN Amount(s, rows, n) ELSE qty
  <1> DEFINE N == Len(rows)
             A(n) == Amount(s, rows, n)
             V(n) == Visible(s, rows[n])
             G(n) == SumFunctionOnSet(g, 1..n)
             Bad == {n \in 0..N : ~(G(n) = IF A(n) <= qty THEN A(n) ELSE qty)}
  <1>0. \A n \in 1..N : n \in Nat \ {0}
    OBVIOUS
  <1>1. N \in Nat /\ \A n \in 0..N : A(n) \in Nat
    BY AmountType
  <1>2. A(0) = 0 /\ \A n \in 1..N : A(n) = A(n - 1) + V(n) /\ V(n) \in Nat
    BY AmountStep, VisibleType
  <1>3. \A i \in 1..N : /\ g[i] \in Nat
                        /\ g[i] = IF qty <= A(i - 1) THEN 0 ELSE IF qty - A(i - 1) <= V(i) THEN qty - A(i - 1) ELSE V(i)
    BY TakenBounds, SMTT(30)
  <1>4. G(0) = 0
    <2>1. 1..0 = {}
      OBVIOUS
    <2> QED
      BY <2>1, SumEmpty
  <1>5. ASSUME NEW n \in 1..N PROVE G(n) = G(n - 1) + g[n]
    <2>1. IsFiniteSet(1..(n - 1)) /\ n \notin 1..(n - 1) /\ 1..n = (1..(n - 1)) \cup {n}
      BY <1>0, Prefix
    <2>2. \A x \in (1..(n - 1)) \cup {n} : g[x] \in Int
      BY <1>3
    <2> QED
      BY <2>1, <2>2, SumAdd, ZenonT(40)
  <1> HIDE DEF A, V, G, N
  <1>6. SUFFICES ASSUME Bad # {} PROVE FALSE
    BY DEF A, G, N
  <1>7. PICK n \in Bad : \A k \in Bad : n <= k
    <2>1. IsFiniteSet(0..N) /\ Bad \in SUBSET (0..N)
      BY <1>1, FS_Interval
    <2>2. IsFiniteSet(Bad) /\ \A x \in Bad : x \in Nat
      BY <1>1, <2>1, FS_Subset
    <2> HIDE DEF Bad
    <2> QED
      BY <1>6, <2>2, MinExists
  <1>8. CASE n = 0
    BY <1>2, <1>4, <1>7, <1>8
  <1>9. CASE n # 0
    <2>1. n \in 1..N /\ n - 1 \in 0..N /\ ~(n <= n - 1)
      BY <1>1, <1>9
    <2>2. n - 1 \notin Bad
      BY <1>7, <2>1
    <2>3. G(n - 1) = IF A(n - 1) <= qty THEN A(n - 1) ELSE qty
      BY <2>1, <2>2
    <2>4. /\ A(n - 1) \in Nat /\ V(n) \in Nat /\ A(n) = A(n - 1) + V(n) /\ G(n) = G(n - 1) + g[n]
          /\ g[n] = IF qty <= A(n - 1) THEN 0 ELSE IF qty - A(n - 1) <= V(n) THEN qty - A(n - 1) ELSE V(n)
      BY <1>1, <1>2, <1>3, <1>5, <2>1
    <2>5. G(n) = IF A(n) <= qty THEN A(n) ELSE qty
      BY <2>3, <2>4
    <2> QED
      BY <1>7, <2>5
  <1> QED
    BY <1>8, <1>9

\* With enough in its rows, that is what it needs.
LEMMA TakenOfRows ==
  ASSUME Types, NEW s \in Sessions, NEW rows \in Seq(Lots), NEW qty \in Nat,
         \A i, j \in DOMAIN rows : i # j => rows[i] # rows[j], Amount(s, rows, Len(rows)) >= qty,
         NEW g, \A i \in DOMAIN rows : g[rows[i]] = Taken(s, rows, qty, i)
  PROVE  SumFunctionOnSet(g, {rows[i] : i \in DOMAIN rows}) = qty
  <1> DEFINE D == DOMAIN rows
  <1>1. D = 1..Len(rows) /\ Len(rows) \in Nat
    OBVIOUS
  <1>2. PICK h : h = [i \in D |-> Taken(s, rows, qty, i)]
    OBVIOUS
  <1>3. \A i \in 1..Len(rows) : h[i] = Taken(s, rows, qty, i)
    BY <1>1, <1>2
  <1>4. \A i \in 1..Len(rows) : Taken(s, rows, qty, i) \in Nat
    BY TakenBounds
  <1>5. \A n \in 0..Len(rows) :
          SumFunctionOnSet(h, 1..n) = IF Amount(s, rows, n) <= qty THEN Amount(s, rows, n) ELSE qty
    BY <1>3, TakenSoFar
  <1>6. Amount(s, rows, Len(rows)) \in Nat
    BY <1>1, AmountType
  <1>7. SumFunctionOnSet(h, 1..Len(rows)) = qty
    <2>1. Len(rows) \in 0..Len(rows)
      BY <1>1
    <2>2. SumFunctionOnSet(h, 1..Len(rows))
            = IF Amount(s, rows, Len(rows)) <= qty THEN Amount(s, rows, Len(rows)) ELSE qty
      BY <1>5, <2>1
    <2> QED
      BY <1>6, <2>2
  <1>8. \A i \in D : g[rows[i]] \in Int /\ h[i] = g[rows[i]]
    BY <1>1, <1>3, <1>4
  <1>9. IsFiniteSet(D)
    BY <1>1, FS_Interval
  <1> HIDE DEF D
  <1>10. \A i, j \in D : i # j => rows[i] # rows[j]
    BY DEF D
  <1>11. SumFunctionOnSet(g, {rows[i] : i \in D}) = SumFunctionOnSet(h, D)
    BY <1>8, <1>9, <1>10, SumImage
  <1> QED
    BY <1>1, <1>7, <1>11 DEF D

\* A sale with enough in its rows takes what it needs from lots of the item it wants, and
\* nothing from any other lot.
LEMMA TakenWhole ==
  ASSUME Types, Roles, NEW s \in Sessions, tx[s].kind = "sale", tx[s].pc = "take", SaleRows(s),
         Enough(s, tx[s].rows, Head(tx[s].todo).qty), NEW item \in Items, NEW g,
         \A l \in Lots : g[l] = TakenFrom(s, l)
  PROVE  SumFunctionOnSet(g, OfItem(item)) = IF item = Head(tx[s].todo).item THEN Head(tx[s].todo).qty ELSE 0
  <1> DEFINE rows == tx[s].rows
             d == Head(tx[s].todo)
             qty == d.qty
             I == {rows[i] : i \in DOMAIN rows}
  <1>1. tx[s].todo \in Seq(Demand) /\ tx[s].todo # <<>> /\ rows \in Seq(Lots)
    BY TxFields DEF Roles, SaleRole
  <1>2. qty \in Nat /\ d.item \in Items
    <2>1. d \in Demand
      BY <1>1
    <2> QED
      BY <2>1 DEF Demand
  <1>3. \A i \in DOMAIN rows : rows[i] \in Lots
    BY <1>1
  <1>4. /\ \A i, j \in DOMAIN rows : i # j => rows[i] # rows[j]
        /\ \A i \in DOMAIN rows : ItemOf[rows[i]] = d.item
    BY DEF SaleRows
  <1>5. \A l \in Lots : l \notin I => g[l] = 0
    BY DEF TakenFrom
  <1>6. \A i \in DOMAIN rows : g[rows[i]] = Taken(s, rows, qty, i)
    <2> SUFFICES ASSUME NEW i \in DOMAIN rows PROVE g[rows[i]] = Taken(s, rows, qty, i)
      OBVIOUS
    <2>1. \E j \in DOMAIN rows : rows[j] = rows[i]
      OBVIOUS
    <2>2. (CHOOSE j \in DOMAIN rows : rows[j] = rows[i]) = i
      BY <1>4
    <2>3. TakenFrom(s, rows[i]) = Taken(s, rows, qty, i)
      BY <2>1, <2>2 DEF TakenFrom
    <2> QED
      BY <1>3, <2>3
  <1>8. Amount(s, rows, Len(rows)) >= qty
    BY DEF Enough
  <1>9. \A l \in Lots : g[l] \in Nat
    BY <1>1, TakenFromBounds
  <1> HIDE DEF rows, qty
  <1>7. SumFunctionOnSet(g, {rows[i] : i \in DOMAIN rows}) = qty
    BY <1>1, <1>2, <1>4, <1>6, <1>8, TakenOfRows
  <1>11. SumFunctionOnSet(g, I) = qty
    BY <1>7
  <1>10. IsFiniteSet(OfItem(item)) /\ I \in SUBSET Lots /\ IsFiniteSet(I)
    <2>1. I \in SUBSET Lots
      BY <1>3
    <2> HIDE DEF I
    <2> QED
      BY <2>1, FiniteLots DEF OfItem
  <1>12. CASE item = d.item
    <2> DEFINE R == OfItem(item) \ I
    <2>1. I \subseteq OfItem(item)
      BY <1>3, <1>4, <1>12 DEF OfItem
    <2>2. \A x \in R : g[x] = 0
      BY <1>5 DEF OfItem
    <2>3. \A x \in I : g[x] \in Nat
      BY <1>3, <1>9
    <2>4. I \cap R = {} /\ I \cup R = OfItem(item)
      BY <2>1
    <2>5. IsFiniteSet(R)
      BY <1>10, FS_Subset
    <2> HIDE DEF I, R
    <2>6. SumFunctionOnSet(g, R) = 0
      BY <2>2, <2>5, SumZero
    <2>7. \A x \in I \cup R : g[x] \in Int
      BY <2>2, <2>3
    <2>8. SumFunctionOnSet(g, I \cup R) = SumFunctionOnSet(g, I) + SumFunctionOnSet(g, R)
      BY <1>10, <2>4, <2>5, <2>7, SumUnion
    <2>9. SumFunctionOnSet(g, OfItem(item)) = qty
      BY <1>2, <1>11, <2>4, <2>6, <2>8
    <2> QED
      BY <1>12, <2>9 DEF qty
  <1>13. CASE item # d.item
    <2>1. \A x \in OfItem(item) : g[x] = 0
      BY <1>3, <1>4, <1>5, <1>13 DEF OfItem
    <2> HIDE DEF I
    <2> QED
      BY <1>10, <1>13, <2>1, SumZero
  <1> QED
    BY <1>12, <1>13

\* The first demand and the rest.
LEMMA DemandedTail ==
  ASSUME NEW cart \in Seq(Demand), cart # <<>>, NEW item
  PROVE  Demanded(cart, item) = Demanded(Tail(cart), item) + (IF cart[1].item = item THEN cart[1].qty ELSE 0)
  <1> DEFINE t == Tail(cart)
  <1>1. PICK g : g = [i \in DOMAIN cart |-> cart[i].qty]
    OBVIOUS
  <1>2. PICK h : h = [i \in DOMAIN t |-> t[i].qty]
    OBVIOUS
  <1>3. PICK f : f = [i \in DOMAIN t |-> i + 1]
    OBVIOUS
  <1> DEFINE D == {i \in DOMAIN cart : cart[i].item = item}
             E == {i \in DOMAIN t : t[i].item = item}
             S == {f[i] : i \in E}
  <1>4. /\ t \in Seq(Demand) /\ DOMAIN t = 1..(Len(cart) - 1) /\ DOMAIN cart = 1..Len(cart) /\ Len(cart) \in Nat
        /\ 1 \in DOMAIN cart
        /\ \A i \in DOMAIN t : i + 1 \in DOMAIN cart /\ t[i] = cart[i + 1]
    BY TailElements
  <1>5. IsFiniteSet(D) /\ IsFiniteSet(E) /\ \A i \in DOMAIN cart : g[i] \in Nat
    BY <1>1, <1>4, DemandedType
  <1>6. Demanded(cart, item) = SumFunctionOnSet(g, D) /\ Demanded(t, item) = SumFunctionOnSet(h, E)
    BY <1>1, <1>2 DEF Demanded
  <1>7. S = D \ {1} /\ 1 \notin S
    <2>1. ASSUME NEW i \in E PROVE f[i] \in D /\ f[i] # 1
      BY <1>3, <1>4
    <2>2. ASSUME NEW j \in D, j # 1 PROVE \E i \in E : f[i] = j
      <3>1. j - 1 \in DOMAIN t /\ (j - 1) + 1 = j
        BY <1>4, <2>2
      <3>2. t[j - 1] = cart[j] /\ f[j - 1] = j
        BY <1>3, <1>4, <3>1
      <3> QED
        BY <2>2, <3>1, <3>2
    <2> QED
      BY <2>1, <2>2
  <1>8. \A i \in E : g[f[i]] \in Int /\ h[i] = g[f[i]]
    BY <1>1, <1>2, <1>3, <1>4, <1>5
  <1>9. \A i, j \in E : i # j => f[i] # f[j]
    BY <1>3, <1>4
  <1> HIDE DEF E
  <1>10. SumFunctionOnSet(g, S) = SumFunctionOnSet(h, E)
    BY <1>5, <1>8, <1>9, SumImage, SMTT(30)
  <1>11. \A x \in D : g[x] \in Int
    BY <1>5
  <1>12. D \ {1} \in SUBSET D /\ IsFiniteSet(D \ {1})
    BY <1>5, FS_Subset
  <1>13. SumFunctionOnSet(g, D \ {1}) \in Int
    BY <1>11, <1>12, SumType
  <1>14. CASE cart[1].item = item
    <2>1. 1 \in D /\ g[1] = cart[1].qty
      BY <1>1, <1>4, <1>14
    <2> HIDE DEF D
    <2>2. SumFunctionOnSet(g, D) = SumFunctionOnSet(g, D \ {1}) + g[1]
      BY <1>5, <1>11, <2>1, SumRemove
    <2> QED
      BY <1>6, <1>7, <1>10, <1>14, <2>1, <2>2
  <1>15. CASE cart[1].item # item
    <2>1. S = D
      BY <1>7, <1>15
    <2>2. SumFunctionOnSet(g, D) \in Int
      BY <1>5, <1>11, SumType
    <2> HIDE DEF D, S
    <2>3. SumFunctionOnSet(g, D) = SumFunctionOnSet(h, E)
      BY <1>10, <2>1
    <2> QED
      BY <1>6, <1>15, <2>2, <2>3
  <1> QED
    BY <1>14, <1>15

LEMMA TakeOwn ==
  ASSUME Types, Types', Roles, Protected, NEW s \in Sessions, Take(s), ~Rollback(s), Own(s)
  PROVE  Own(s)'
  <1>1. /\ tx[s].kind = "sale" /\ tx[s].pc = "take" /\ Enough(s, tx[s].rows, Head(tx[s].todo).qty)
        /\ Kept(tx[s], tx'[s]) /\ tx'[s].pc = "read" /\ tx'[s].todo = Tail(tx[s].todo)
        /\ \A l \in Lots : tx'[s].moves[l] = IF TakenFrom(s, l) = 0 THEN tx[s].moves[l]
                             ELSE Append(tx[s].moves[l], Movement("xuat_ban", TakenFrom(s, l), Visible(s, l),
                                                                  Visible(s, l) - TakenFrom(s, l), tx[s].target))
        /\ committed' = committed
    BY TakeEffect DEF Ready
  <1>2. /\ tx[s].target \in Orders /\ tx[s].todo \in Seq(Demand) /\ tx[s].todo # <<>> /\ SaleRows(s)
        /\ Head(tx[s].todo) = tx[s].todo[1]
    BY <1>1, TailElements DEF Roles, SaleRole, Protected, LocksOk
  <1>3. tx'[s].target = tx[s].target /\ tx'[s].kind = "sale" /\ stock' = stock /\ tx'[s].cart = tx[s].cart
    BY <1>1 DEF Kept, committed
  <1>4. \A l \in Lots : /\ tx[s].moves[l] \in Seq(MovementRow) /\ TakenFrom(s, l) \in Nat
                        /\ Visible(s, l) \in Nat /\ TakenFrom(s, l) <= Visible(s, l) /\ stock[l] \in Nat
    <2>1. tx[s].moves \in [Lots -> Seq(MovementRow)] /\ stock \in [Lots -> Nat]
      BY DEF Types, TxRow
    <2> QED
      BY <1>2, <2>1, VisibleType, TakenFromBounds
  <1>5. \A l \in Lots : Pending(s, l)
    BY DEF Own
  <1>6. ASSUME NEW l \in Lots
        PROVE  Pending(s, l)' /\ Total(tx'[s].moves[l]) = Total(tx[s].moves[l]) + TakenFrom(s, l)
               /\ Total(tx[s].moves[l]) \in Nat
    <2> DEFINE m == tx[s].moves[l]
               m2 == tx'[s].moves[l]
    <2>1. /\ Chained(m, stock[l]) /\ Visible(s, l) = LastAfter(m, stock[l]) /\ Visible(s, l) = stock[l] - Total(m)
          /\ \A i \in DOMAIN m : m[i].type = "xuat_ban" /\ m[i].order = tx[s].target
          /\ m \in Seq(MovementRow) /\ Total(m) \in Nat
      BY <1>1, <1>4, <1>5, TotalType DEF Pending, Visible
    <2>2. CASE TakenFrom(s, l) = 0
      <3>1. m2 = m
        BY <1>1, <2>2
      <3> HIDE DEF m, m2
      <3>2. Chained(m2, stock[l]) /\ LastAfter(m2, stock[l]) = stock[l] - Total(m2)
            /\ \A i \in DOMAIN m2 : m2[i].type = "xuat_ban" /\ m2[i].order = tx[s].target
        BY <2>1, <3>1
      <3>3. Pending(s, l)'
        BY <1>3, <3>2 DEF Pending, Visible, m2
      <3> QED
        BY <2>1, <2>2, <3>1, <3>3 DEF m, m2
    <2>3. CASE TakenFrom(s, l) # 0
      <3> DEFINE n == TakenFrom(s, l)
                 x == Movement("xuat_ban", n, Visible(s, l), Visible(s, l) - n, tx[s].target)
      <3>1. m2 = Append(m, x)
        BY <1>1, <2>3
      <3>2. n \in Nat \ {0} /\ Visible(s, l) - n \in Nat
        BY <1>4, <2>3
      <3>3. /\ x \in MovementRow /\ x.qty = n /\ x.before = Visible(s, l) /\ x.after = Visible(s, l) - n
            /\ x.type = "xuat_ban" /\ x.order = tx[s].target
        BY <1>2, <1>4, <3>2 DEF Movement, MovementRow, MovementType
      <3> HIDE DEF m, m2, x, n
      <3>4. Chained(m2, stock[l]) /\ LastAfter(m2, stock[l]) = Visible(s, l) - n
        BY <1>4, <2>1, <3>1, <3>3, ChainAppend
      <3>5. Total(m2) = Total(m) + n
        BY <2>1, <3>1, <3>3, TotalAppend
      <3>6. \A i \in DOMAIN m2 : m2[i].type = "xuat_ban" /\ m2[i].order = tx[s].target
        BY <2>1, <3>1, <3>3, AppendElements
      <3>7. LastAfter(m2, stock[l]) = stock[l] - Total(m2)
        BY <1>4, <2>1, <3>2, <3>4, <3>5
      <3>8. Pending(s, l)'
        BY <1>3, <3>4, <3>6, <3>7 DEF Pending, Visible, m2
      <3> QED
        BY <2>1, <3>5, <3>8 DEF m, m2, n
    <2> QED
      BY <2>2, <2>3
  <1>7. ASSUME NEW item \in Items PROVE Selling(s, item)'
    <2>1. PICK g : g = [l \in Lots |-> Total(tx[s].moves[l])]
      OBVIOUS
    <2>2. PICK h : h = [l \in Lots |-> TakenFrom(s, l)]
      OBVIOUS
    <2>3. PICK k : k = [l \in Lots |-> Total(tx'[s].moves[l])]
      OBVIOUS
    <2>4. OfItem(item) \in SUBSET Lots /\ IsFiniteSet(OfItem(item))
      BY FiniteLots DEF OfItem
    <2>5. \A l \in OfItem(item) : g[l] \in Int /\ h[l] \in Int /\ k[l] = g[l] + h[l] /\ g[l] \in Nat
      BY <1>4, <1>6, <2>1, <2>2, <2>3, <2>4
    <2>6. SumFunctionOnSet(k, OfItem(item)) = SumFunctionOnSet(g, OfItem(item)) + SumFunctionOnSet(h, OfItem(item))
      BY <2>4, <2>5, SumPlus
    <2>7. SumFunctionOnSet(g, OfItem(item)) \in Nat
      BY <2>4, <2>5, SumNat
    <2>8. SumFunctionOnSet(h, OfItem(item)) = IF item = Head(tx[s].todo).item THEN Head(tx[s].todo).qty ELSE 0
      BY <1>1, <1>2, <2>2, TakenWhole
    <2>9. SoldSoFar(s, item) = SumFunctionOnSet(g, OfItem(item)) /\ SoldSoFar(s, item)' = SumFunctionOnSet(k, OfItem(item))
      BY <2>1, <2>3 DEF SoldSoFar, OfItem
    <2>10. Demanded(tx[s].todo, item)
             = Demanded(Tail(tx[s].todo), item) + (IF tx[s].todo[1].item = item THEN tx[s].todo[1].qty ELSE 0)
      BY <1>2, DemandedTail
    <2>11. Demanded(Tail(tx[s].todo), item) \in Nat /\ tx[s].todo[1].qty \in Nat
      <3>1. Tail(tx[s].todo) \in Seq(Demand) /\ tx[s].todo[1] \in Demand
        BY <1>2, TailElements
      <3> QED
        BY <3>1, DemandedType DEF Demand
    <2>12. SoldSoFar(s, item) + Demanded(tx[s].todo, item) = Demanded(tx[s].cart, item)
      BY <1>1 DEF Own, Selling
    <2> DEFINE q == IF tx[s].todo[1].item = item THEN tx[s].todo[1].qty ELSE 0
               rest == Demanded(Tail(tx[s].todo), item)
    <2>13. q \in Nat
      BY <2>11
    <2>14. SumFunctionOnSet(h, OfItem(item)) = q /\ Demanded(tx[s].todo, item) = rest + q /\ rest \in Nat
      BY <1>2, <2>8, <2>10, <2>11
    <2> HIDE DEF q, rest
    <2>15. SoldSoFar(s, item)' + rest = Demanded(tx[s].cart, item)
      BY <2>6, <2>7, <2>9, <2>12, <2>13, <2>14
    <2>16. Demanded(tx[s].todo, item)' = rest /\ Demanded(tx[s].cart, item)' = Demanded(tx[s].cart, item)
      BY <1>1, <1>3 DEF rest, Demanded
    <2> QED
      BY <2>15, <2>16 DEF Selling
  <1>8. \A l \in Lots : Restoring(s, l)'
    BY <1>3 DEF Restoring
  <1> QED
    BY <1>6, <1>7, <1>8 DEF Own


----------------------------------------------------------------------------
(* Steps that commit nothing keep the books                                *)

\* The books of the lots and the orders are about committed rows only.
LEMMA CommittedBooks ==
  ASSUME UNCHANGED <<stock, sold, ledger, order, alloc>>
  PROVE  /\ \A l \in Lots : LotBooks(l) => LotBooks(l)'
         /\ \A o \in Orders : OrderBooks(o) => OrderBooks(o)'
  <1>1. stock' = stock /\ sold' = sold /\ ledger' = ledger /\ order' = order /\ alloc' = alloc
    OBVIOUS
  <1>2. ASSUME NEW l \in Lots PROVE LotBooks(l)' <=> LotBooks(l)
    <2>1. LiveOn(l)' = LiveOn(l)
      BY <1>1 DEF LiveOn, Allocated
    <2>2. \A type : Moved(l, type)' = Moved(l, type)
      BY <1>1 DEF Moved, get_inventory_ledger
    <2>3. \A o \in Orders : TraceOf(o, l)' <=> TraceOf(o, l)
      BY <1>1 DEF TraceOf, Allocated
    <2> QED
      BY <1>1, <2>1, <2>2, <2>3 DEF LotBooks
  <1>3. ASSUME NEW o \in Orders PROVE OrderBooks(o)' <=> OrderBooks(o)
    BY <1>1 DEF OrderBooks, Allocated, Demanded, OfItem
  <1> QED
    BY <1>2, <1>3

LEMMA BooksStep ==
  ASSUME Types, Types', Roles, Books, NEW s \in Sessions, committed' = committed,
         \A r \in Sessions : r # s => tx'[r] = tx[r], Own(s)'
  PROVE  Books'
  <1>1. UNCHANGED <<stock, sold, ledger, order, alloc>>
    BY DEF committed
  <1>2. \A r \in Sessions : Own(r)'
    BY <1>1, OwnFrame DEF Books
  <1> QED
    BY <1>1, <1>2, CommittedBooks DEF Books

LEMMA NullOwn ==
  ASSUME Types', NEW s \in Sessions, tx'[s] = NullTx
  PROVE  Own(s)'
  <1>1. NullTx.moves = [l \in Lots |-> <<>>] /\ NullTx.pc = "idle" /\ NullTx.kind = "idle"
    BY NullTxRow
  <1> QED
    BY <1>1, OwnFresh

LEMMA RollbackBooks ==
  ASSUME Types, Types', Roles, Books, NEW s \in Sessions, Rollback(s)
  PROVE  Books'
  <1>1. Ended(s) /\ committed' = committed
    BY DEF Rollback, Ended, committed
  <1> QED
    BY <1>1, EndEffect, NullOwn, BooksStep

LEMMA StepBooks ==
  ASSUME Types, Types', Roles, Protected, Books, NEW s \in Sessions,
         Acquire(s) \/ ReadLots(s) \/ Take(s) \/ CheckCancel(s) \/ Restore(s) \/ WriteLedger(s)
  PROVE  Books'
  <1>1. Own(s)
    BY DEF Books
  <1>2. CASE Acquire(s)
    <2>1. Own(s)'
      BY <1>1, <1>2, AcquireEffect, OwnSame
    <2> QED
      BY <1>2, <2>1, AcquireEffect, BooksStep DEF OthersKept
  <1>3. CASE ReadLots(s)
    <2>1. Own(s)'
      BY <1>1, <1>3, ReadLotsEffect, OwnSame
    <2> QED
      BY <1>3, <2>1, ReadLotsEffect, BooksStep DEF OthersKept
  <1>4. CASE Take(s) /\ ~Rollback(s)
    <2>1. Own(s)'
      BY <1>1, <1>4, TakeOwn
    <2> QED
      BY <1>4, <2>1, TakeEffect, BooksStep DEF OthersKept
  <1>5. CASE CheckCancel(s) /\ ~Rollback(s)
    <2>1. Own(s)'
      BY <1>5, CheckCancelOwn
    <2> QED
      BY <1>5, <2>1, CheckCancelEffect, BooksStep DEF OthersKept
  <1>6. CASE Restore(s)
    <2>1. Own(s)'
      BY <1>1, <1>6, RestoreOwn
    <2>2. Head(tx[s].todo)[1] \in Lots
      BY <1>6, RestorePiece
    <2>3. OthersKept(s) /\ committed' = committed
      BY <1>6, <2>2, RestoreEffect
    <2> QED
      BY <2>1, <2>3, BooksStep DEF OthersKept
  <1>7. CASE WriteLedger(s)
    <2>1. Ready(s, "cancel", "restore") /\ Kept(tx[s], tx'[s]) /\ tx'[s].todo = tx[s].todo
          /\ tx'[s].moves = tx[s].moves /\ OthersKept(s) /\ committed' = committed
      BY <1>7, WriteLedgerEffect
    <2>2. Own(s)'
      BY <1>1, <2>1, OwnSame DEF Ready
    <2> QED
      BY <2>1, <2>2, BooksStep DEF OthersKept
  <1>8. CASE Rollback(s)
    BY <1>8, RollbackBooks
  <1> QED
    BY <1>2, <1>3, <1>4, <1>5, <1>6, <1>7, <1>8

LEMMA BeginBooks ==
  ASSUME Types, Types', Roles, Books, NEW s \in Sessions, NEW t, Begin(s, t),
         \A l \in Lots : t.moves[l] = <<>>, t.pc \notin {"restore", "commit"},
         t.kind = "sale" => t.todo = t.cart
  PROVE  Books'
  <1>1. tx'[s] = t /\ committed' = committed /\ \A r \in Sessions : r # s => tx'[r] = tx[r]
    BY BeginEffect
  <1>2. Own(s)'
    BY <1>1, OwnFresh
  <1> QED
    BY <1>1, <1>2, BooksStep

LEMMA BeginsBooks ==
  ASSUME Types, Types', Roles, Books, NEW s \in Sessions
  PROVE  /\ \A o \in Orders, cart \in Carts : BeginSale(s, o, cart) => Books'
         /\ \A o \in Orders : BeginCancel(s, o) => Books'
         /\ \A l \in Lots : BeginDispose(s, l) => Books'
         /\ \A l \in Lots, n \in Quantities, st \in Statuses, e \in Days :
              BeginReceive(s, l, n, [status |-> st, expiry |-> e]) => Books'
  <1>1. ASSUME NEW o \in Orders, NEW cart \in Carts, BeginSale(s, o, cart) PROVE Books'
    <2>1. PICK t : t = SaleTx(o, cart)
      OBVIOUS
    <2>2. Begin(s, t)
      BY <1>1, <2>1 DEF BeginSale, SaleTx
    <2> QED
      BY <2>1, <2>2, SaleTxType, BeginBooks
  <1>2. ASSUME NEW o \in Orders, BeginCancel(s, o) PROVE Books'
    <2>1. PICK t : t = CancelTx(o)
      OBVIOUS
    <2>2. Begin(s, t)
      BY <1>2, <2>1 DEF BeginCancel, CancelTx
    <2> QED
      BY <2>1, <2>2, CancelTxType, BeginBooks
  <1>3. ASSUME NEW l \in Lots, BeginDispose(s, l) PROVE Books'
    <2>1. PICK t : t = DisposeTx(l)
      OBVIOUS
    <2>2. Begin(s, t)
      BY <1>3, <2>1 DEF BeginDispose, DisposeTx
    <2> QED
      BY <2>1, <2>2, DisposeTxType, BeginBooks
  <1>4. ASSUME NEW l \in Lots, NEW n \in Quantities, NEW st \in Statuses, NEW e \in Days,
               BeginReceive(s, l, n, [status |-> st, expiry |-> e])
        PROVE  Books'
    <2>1. PICK t : t = ReceiveTx(l, n, [status |-> st, expiry |-> e])
      OBVIOUS
    <2>2. Begin(s, t)
      BY <1>4, <2>1 DEF BeginReceive, ReceiveTx
    <2> QED
      BY <2>1, <2>2, ReceiveTxType, BeginBooks
  <1> QED
    BY <1>1, <1>2, <1>3, <1>4

----------------------------------------------------------------------------
(* Commits and the books                                                   *)

\* A commit leaves the other transactions their books: what they have changed is locked.
LEMMA PostOthers ==
  ASSUME Types, Types', Roles, Protected, Books, NEW s \in Sessions, Post(s),
         NEW r \in Sessions, r # s,
         tx[r].kind = "cancel" => alloc'[tx[r].target] = alloc[tx[r].target]
  PROVE  Own(r)'
  <1>1. Ended(s) /\ stock' = [l \in Lots |-> Visible(s, l)]
    BY DEF Post, Ended
  <1>2. tx'[r] = tx[r]
    BY <1>1, EndEffect
  <1>3. ASSUME NEW l \in Lots, tx[r].moves[l] # <<>> PROVE stock'[l] = stock[l]
    <2>1. ForUpdate("stock", l) \in tx[r].held
      BY <1>3, MovesAreLocked
    <2> QED
      BY <1>1, <2>1, PostProtects
  <1>4. Own(r)
    BY DEF Books
  <1> QED
    BY <1>2, <1>3, <1>4, OwnFrame

\* Movements of one type for one order.
AllAre(m, type, o) == \A i \in DOMAIN m : m[i].type = type /\ m[i].order = o

\* What the movements of a sale or a cancellation add to the ledger of a lot.
GrowsBy(l, m, type, o) ==
  LET c == ledger[l] \o m IN
  /\ Chained(c, 0) /\ LastAfter(c, 0) = LastAfter(m, stock[l])
  /\ Total(Filtered(c, {"nhap_hang"}, Everyone)) = Moved(l, "nhap_hang")
  /\ Total(Filtered(c, {"xuat_huy"}, Everyone)) = Moved(l, "xuat_huy")
  /\ \A t \in {"xuat_ban", "tra_hang"}, p \in Orders :
       Total(Filtered(c, {t}, {p}))
         = Total(Filtered(ledger[l], {t}, {p})) + IF t = type /\ p = o THEN Total(m) ELSE 0

LEMMA PostLedger ==
  ASSUME Types, NEW l \in Lots, LotBooks(l), NEW m \in Seq(MovementRow), Chained(m, stock[l]),
         NEW type \in {"xuat_ban", "tra_hang"}, NEW o \in Orders, AllAre(m, type, o)
  PROVE  GrowsBy(l, m, type, o)
  <1> DEFINE a == ledger[l]
             c == a \o m
  <1>1. a \in Seq(MovementRow) /\ stock[l] \in Nat /\ Chained(a, 0) /\ stock[l] = LastAfter(a, 0)
    BY DEF Types, LotBooks
  <1>2. \A t : Moved(l, t) = Total(Filtered(a, {t}, Everyone))
    BY DEF Moved, get_inventory_ledger, Everyone
  <1> HIDE DEF a
  <1>3. Chained(c, 0) /\ LastAfter(c, 0) = LastAfter(m, stock[l])
    BY <1>1, ChainConcat
  <1>4. \A types, orders : Total(Filtered(c, types, orders))
                             = Total(Filtered(a, types, orders)) + Total(Filtered(m, types, orders))
    BY <1>1, FilteredConcat
  <1>5. ASSUME NEW t \in {"nhap_hang", "xuat_huy"}
        PROVE  Total(Filtered(c, {t}, Everyone)) = Moved(l, t)
    <2>1. Total(Filtered(m, {t}, Everyone)) = 0
      BY FilteredNone DEF AllAre
    <2>2. Total(Filtered(a, {t}, Everyone)) \in Nat
      BY <1>1, FilteredTotal
    <2> QED
      BY <1>2, <1>4, <2>1, <2>2
  <1>6. ASSUME NEW t \in {"xuat_ban", "tra_hang"}, NEW p \in Orders
        PROVE  Total(Filtered(c, {t}, {p}))
                 = Total(Filtered(a, {t}, {p})) + IF t = type /\ p = o THEN Total(m) ELSE 0
    <2>1. CASE t = type /\ p = o
      <3>1. Filtered(m, {t}, {p}) = m
        BY <2>1, FilteredAll DEF AllAre
      <3> QED
        BY <1>4, <2>1, <3>1
    <2>2. CASE ~(t = type /\ p = o)
      <3>1. Total(Filtered(m, {t}, {p})) = 0
        BY <2>2, FilteredNone DEF AllAre
      <3> QED
        BY <1>4, <2>2, <3>1
    <2> QED
      BY <2>1, <2>2
  <1> QED
    BY <1>3, <1>5, <1>6 DEF a, GrowsBy

\* The live orders of a lot when one more is, or one less.
LiveOrders == {o \in Orders : order[o].status = "live"}

LEMMA LiveOnType ==
  ASSUME Types, NEW l \in Lots
  PROVE  /\ LiveOn(l) = SumFunctionOnSet([o \in Orders |-> Allocated(o, l)], LiveOrders)
         /\ IsFiniteSet(LiveOrders) /\ LiveOn(l) \in Nat
         /\ \A o \in Orders : Allocated(o, l) \in Nat
  <1>1. IsFiniteSet(LiveOrders)
    BY Finiteness, FS_Subset DEF LiveOrders
  <1>2. PICK g : g = [o \in Orders |-> Allocated(o, l)]
    OBVIOUS
  <1>3. \A o \in LiveOrders : g[o] \in Nat
    BY <1>2, AllocatedType DEF LiveOrders
  <1>4. SumFunctionOnSet(g, LiveOrders) \in Nat
    BY <1>1, <1>3, SumNat
  <1>5. LiveOn(l) = SumFunctionOnSet(g, LiveOrders)
    BY <1>2 DEF LiveOn, LiveOrders
  <1> QED
    BY <1>1, <1>2, <1>4, <1>5, AllocatedType

LEMMA LiveOnTypeNext ==
  ASSUME Types', NEW l \in Lots
  PROVE  LiveOn(l)' \in Nat
  <1>1. PICK g : g = [p \in Orders |-> SumFunctionOnSet(alloc'[p][l], DOMAIN alloc'[p][l])]
    OBVIOUS
  <1>2. PICK S : S = {p \in Orders : order'[p].status = "live"}
    OBVIOUS
  <1>3. IsFiniteSet(S) /\ S \in SUBSET Orders
    BY <1>2, Finiteness, FS_Subset
  <1>4. ASSUME NEW p \in Orders PROVE g[p] \in Nat
    <2>1. PICK f : f = alloc'[p][l]
      OBVIOUS
    <2>2. f \in Seq(Nat \ {0})
      BY <2>1 DEF Types
    <2>3. DOMAIN f = 1..Len(f) /\ \A i \in DOMAIN f : f[i] \in Nat
      BY <2>2
    <2>4. IsFiniteSet(DOMAIN f)
      BY <2>2, <2>3, FS_Interval
    <2>5. SumFunctionOnSet(f, DOMAIN f) \in Nat
      BY <2>3, <2>4, SumNat
    <2> QED
      BY <1>1, <2>1, <2>5
  <1>5. SumFunctionOnSet(g, S) \in Nat
    BY <1>3, <1>4, SumNat
  <1> QED
    BY <1>1, <1>2, <1>5 DEF LiveOn, Allocated

LEMMA LiveOnMore ==
  ASSUME Types, Types', NEW o \in Orders, NEW l \in Lots, LiveOrders' = LiveOrders \cup {o}, o \notin LiveOrders,
         \A p \in Orders \ {o} : alloc'[p][l] = alloc[p][l]
  PROVE  LiveOn(l)' = LiveOn(l) + Allocated(o, l)'
  <1>1. PICK g : g = [p \in Orders |-> Allocated(p, l)]
    OBVIOUS
  <1>2. PICK h : h = [p \in Orders |-> Allocated(p, l)']
    OBVIOUS
  <1>3. LiveOn(l) = SumFunctionOnSet(g, LiveOrders) /\ IsFiniteSet(LiveOrders) /\ \A p \in Orders : g[p] \in Nat
    BY <1>1, LiveOnType
  <1>4. \A p \in Orders : Allocated(p, l)' \in Nat
    <2> SUFFICES ASSUME NEW p \in Orders PROVE Allocated(p, l)' \in Nat
      OBVIOUS
    <2>1. PICK f : f = alloc'[p][l]
      OBVIOUS
    <2>2. f \in Seq(Nat \ {0})
      BY <2>1 DEF Types
    <2>3. DOMAIN f = 1..Len(f) /\ \A i \in DOMAIN f : f[i] \in Nat
      BY <2>2
    <2>4. IsFiniteSet(DOMAIN f)
      BY <2>2, <2>3, FS_Interval
    <2>5. SumFunctionOnSet(f, DOMAIN f) \in Nat
      BY <2>3, <2>4, SumNat
    <2> QED
      BY <2>1, <2>5 DEF Allocated
  <1>5. LiveOn(l)' = SumFunctionOnSet(h, LiveOrders')
    BY <1>2 DEF LiveOn, LiveOrders
  <1>6. \A p \in LiveOrders : h[p] = g[p] /\ g[p] \in Int /\ p \in Orders
    BY <1>1, <1>2, <1>3 DEF LiveOrders, Allocated
  <1>7. \A p \in LiveOrders \cup {o} : h[p] \in Int
    BY <1>2, <1>4, <1>6
  <1>8. SumFunctionOnSet(h, LiveOrders \cup {o}) = SumFunctionOnSet(h, LiveOrders) + h[o]
    BY <1>3, <1>7, SumAdd
  <1>9. SumFunctionOnSet(h, LiveOrders) = SumFunctionOnSet(g, LiveOrders)
    BY <1>3, <1>6, SumSame
  <1> QED
    BY <1>2, <1>3, <1>5, <1>8, <1>9

LEMMA LiveOnLess ==
  ASSUME Types, NEW o \in LiveOrders, NEW l \in Lots, LiveOrders' = LiveOrders \ {o}, alloc' = alloc
  PROVE  LiveOn(l) = LiveOn(l)' + Allocated(o, l)
  <1>1. PICK g : g = [p \in Orders |-> Allocated(p, l)]
    OBVIOUS
  <1>2. LiveOn(l) = SumFunctionOnSet(g, LiveOrders) /\ IsFiniteSet(LiveOrders) /\ \A p \in Orders : g[p] \in Nat
    BY <1>1, LiveOnType
  <1>3. LiveOn(l)' = SumFunctionOnSet(g, LiveOrders \ {o})
    BY <1>1 DEF LiveOn, LiveOrders, Allocated
  <1>4. \A p \in LiveOrders : g[p] \in Int
    BY <1>2 DEF LiveOrders
  <1>5. SumFunctionOnSet(g, LiveOrders) = SumFunctionOnSet(g, LiveOrders \ {o}) + g[o]
    BY <1>2, <1>4, SumRemove
  <1>6. o \in Orders
    BY DEF LiveOrders
  <1> QED
    BY <1>1, <1>2, <1>3, <1>5, <1>6

\* A sale of m for order o that commits.
SaleCommits(s, o, m) ==
  /\ tx[s].kind = "sale" /\ tx[s].todo = <<>> /\ o \in Orders /\ order[o].status = "none" /\ Post(s)
  /\ order'[o].status = "live" /\ order'[o].cart = tx[s].cart
  /\ \A p \in Orders : p # o => order'[p] = order[p] /\ alloc'[p] = alloc[p]
  /\ \A l \in Lots :
       /\ m[l] \in Seq(MovementRow) /\ Total(m[l]) \in Nat
       /\ stock'[l] = Visible(s, l) /\ ledger'[l] = ledger[l] \o m[l]
       /\ sold'[l] = sold[l] + Total(m[l]) /\ Allocated(o, l)' = Total(m[l])
  /\ tx'[s] = NullTx /\ \A r \in Sessions : r # s => tx'[r] = tx[r]

LEMMA CommitSaleEffect ==
  ASSUME Types, Roles, NEW s \in Sessions, CommitSale(s), NEW o, o = tx[s].target,
         NEW m, m = tx[s].moves
  PROVE  SaleCommits(s, o, m)
  <1> DEFINE taken == [l \in Lots |-> [i \in DOMAIN m[l] |-> m[l][i].qty]]
             new == [status |-> "live", cart |-> tx[s].cart]
  <1>1. /\ Ready(s, "sale", "read") /\ tx[s].todo = <<>> /\ Post(s)
        /\ sold' = [l \in Lots |-> sold[l] + Total(m[l])]
        /\ order' = [order EXCEPT ![o] = new]
        /\ alloc' = [alloc EXCEPT ![o] = taken]
    BY DEF CommitSale
  <1>2. tx[s].kind = "sale" /\ o \in Orders /\ order[o].status = "none"
    BY <1>1 DEF Ready, Roles, SaleRole
  <1>3. \A l \in Lots : m[l] \in Seq(MovementRow) /\ Total(m[l]) \in Nat
    <2>1. m \in [Lots -> Seq(MovementRow)]
      BY TxFields
    <2> QED
      BY <2>1, TotalType
  <1>4. new.status = "live" /\ new.cart = tx[s].cart
    OBVIOUS
  <1>5. \A l \in Lots : taken[l] = [i \in DOMAIN m[l] |-> m[l][i].qty]
    OBVIOUS
  <1> HIDE DEF new, taken
  <1>6. order'[o] = new /\ alloc'[o] = taken /\ \A p \in Orders : p # o => order'[p] = order[p] /\ alloc'[p] = alloc[p]
    BY <1>1, <1>2 DEF Types
  <1>7. ASSUME NEW l \in Lots PROVE Allocated(o, l)' = Total(m[l])
    <2>1. PICK k : k = m[l]
      OBVIOUS
    <2>2. alloc'[o][l] = [i \in DOMAIN k |-> k[i].qty]
      BY <1>5, <1>6, <2>1
    <2>3. DOMAIN alloc'[o][l] = DOMAIN k
      BY <2>2
    <2>5. Allocated(o, l)' = SumFunctionOnSet(alloc'[o][l], DOMAIN alloc'[o][l])
      BY DEF Allocated
    <2>6. SumFunctionOnSet(alloc'[o][l], DOMAIN alloc'[o][l]) = Total(m[l])
      BY <2>1, <2>2, <2>3 DEF Total
    <2> QED
      BY <2>5, <2>6
  <1>8. Ended(s) /\ stock' = [l \in Lots |-> Visible(s, l)] /\ ledger' = [l \in Lots |-> ledger[l] \o m[l]]
    BY <1>1 DEF Post, Ended
  <1>9. tx'[s] = NullTx /\ \A r \in Sessions : r # s => tx'[r] = tx[r]
    BY <1>8, EndEffect
  <1> QED
    BY <1>1, <1>2, <1>3, <1>4, <1>6, <1>7, <1>8, <1>9 DEF SaleCommits

LEMMA CommitSaleLots ==
  ASSUME Types, Types', Roles, Books, NEW s \in Sessions, CommitSale(s), NEW l \in Lots
  PROVE  LotBooks(l)'
  <1>1. PICK o : o = tx[s].target
    OBVIOUS
  <1>2. PICK m : m = tx[s].moves[l]
    OBVIOUS
  <1>0. PICK moves : moves = tx[s].moves
    OBVIOUS
  <1>3. /\ tx[s].kind = "sale" /\ o \in Orders /\ order[o].status = "none"
        /\ order'[o].status = "live" /\ \A p \in Orders : p # o => order'[p] = order[p] /\ alloc'[p] = alloc[p]
        /\ m \in Seq(MovementRow) /\ Total(m) \in Nat /\ stock'[l] = Visible(s, l) /\ ledger'[l] = ledger[l] \o m
        /\ sold'[l] = sold[l] + Total(m) /\ Allocated(o, l)' = Total(m)
    <2>1. SaleCommits(s, o, moves)
      BY <1>0, <1>1, CommitSaleEffect
    <2> QED
      BY <1>0, <1>2, <2>1 DEF SaleCommits
  <1>4. /\ Chained(m, stock[l]) /\ Visible(s, l) = stock[l] - Total(m) /\ Visible(s, l) = LastAfter(m, stock[l])
        /\ AllAre(m, "xuat_ban", o)
    BY <1>1, <1>2, <1>3 DEF Books, Own, Pending, Visible, AllAre
  <1>5. LotBooks(l)
    BY DEF Books
  <1>6. /\ Chained(ledger'[l], 0) /\ LastAfter(ledger'[l], 0) = stock'[l]
        /\ Total(Filtered(ledger'[l], {"nhap_hang"}, Everyone)) = Moved(l, "nhap_hang")
        /\ Total(Filtered(ledger'[l], {"xuat_huy"}, Everyone)) = Moved(l, "xuat_huy")
        /\ \A t \in {"xuat_ban", "tra_hang"}, p \in Orders :
             Total(Filtered(ledger'[l], {t}, {p}))
               = Total(Filtered(ledger[l], {t}, {p})) + IF t = "xuat_ban" /\ p = o THEN Total(m) ELSE 0
    <2>1. GrowsBy(l, m, "xuat_ban", o)
      BY <1>3, <1>4, <1>5, PostLedger
    <2> QED
      BY <1>3, <1>4, <2>1 DEF GrowsBy
  <1>7. Moved(l, "nhap_hang")' = Moved(l, "nhap_hang") /\ Moved(l, "xuat_huy")' = Moved(l, "xuat_huy")
    BY <1>6 DEF Moved, get_inventory_ledger, Everyone
  <1>8. LiveOn(l)' = LiveOn(l) + Total(m)
    <2>1. o \notin LiveOrders
      BY <1>3 DEF LiveOrders
    <2>2. LiveOrders' = LiveOrders \cup {o}
      <3>1. LiveOrders' = {p \in Orders : order'[p].status = "live"}
        BY DEF LiveOrders
      <3> QED
        BY <1>3, <3>1 DEF LiveOrders
    <2>3. \A p \in Orders \ {o} : alloc'[p][l] = alloc[p][l]
      BY <1>3
    <2> QED
      BY <1>3, <2>1, <2>2, <2>3, LiveOnMore
  <1>9. ASSUME NEW p \in Orders PROVE TraceOf(p, l)'
    <2>1. TraceOf(p, l) /\ Allocated(p, l) \in Nat
      BY <1>5, AllocatedType DEF LotBooks
    <2>2. CASE p = o
      <3>1. alloc[o][l] = <<>>
        BY <1>3 DEF Books, OrderBooks
      <3>2. DOMAIN alloc[o][l] = {}
        BY <3>1
      <3>3. Allocated(o, l) = 0
        BY <3>2, SumEmpty DEF Allocated
      <3>4. /\ Total(Filtered(ledger[l], {"xuat_ban"}, {o})) = 0
            /\ Total(Filtered(ledger[l], {"tra_hang"}, {o})) = 0
        BY <1>3, <2>1, <2>2, <3>3 DEF TraceOf
      <3>5. /\ Total(Filtered(ledger'[l], {"xuat_ban"}, {o})) = Total(m)
            /\ Total(Filtered(ledger'[l], {"tra_hang"}, {o})) = 0
        BY <1>3, <1>6, <3>4
      <3> QED
        BY <1>3, <2>2, <3>5 DEF TraceOf
    <2>3. CASE p # o
      <3>1. Allocated(p, l)' = Allocated(p, l) /\ order'[p] = order[p]
        BY <1>3, <2>3 DEF Allocated
      <3>2. \A t \in {"xuat_ban", "tra_hang"} :
               Total(Filtered(ledger'[l], {t}, {p})) = Total(Filtered(ledger[l], {t}, {p})) + 0
        BY <1>6, <2>3
      <3> QED
        BY <2>1, <3>1, <3>2 DEF TraceOf
    <2> QED
      BY <2>2, <2>3
  <1>10. /\ LiveOn(l) \in Nat /\ sold[l] = LiveOn(l) /\ stock[l] \in Nat /\ Moved(l, "xuat_huy") \in Nat
         /\ Moved(l, "nhap_hang") = stock[l] + LiveOn(l) + Moved(l, "xuat_huy")
    <2>1. ledger[l] \in Seq(MovementRow) /\ stock[l] \in Nat
      BY DEF Types
    <2>2. Moved(l, "xuat_huy") \in Nat
      BY <2>1, FilteredTotal DEF Moved, get_inventory_ledger
    <2> QED
      BY <1>5, <2>1, <2>2, LiveOnType DEF LotBooks
  <1>11. stock'[l] = stock[l] - Total(m)
    BY <1>3, <1>4
  <1>12. Moved(l, "nhap_hang")' = stock'[l] + LiveOn(l)' + Moved(l, "xuat_huy")'
    BY <1>3, <1>7, <1>8, <1>10, <1>11
  <1>13. sold'[l] = LiveOn(l)'
    BY <1>3, <1>8, <1>10
  <1> QED
    BY <1>6, <1>9, <1>12, <1>13 DEF LotBooks

LEMMA CommitSaleBooks ==
  ASSUME Types, Types', Roles, Protected, Books, NEW s \in Sessions, CommitSale(s)
  PROVE  Books'
  <1>1. PICK o : o = tx[s].target
    OBVIOUS
  <1>2. PICK m : m = tx[s].moves
    OBVIOUS
  <1>3. /\ tx[s].kind = "sale" /\ tx[s].todo = <<>> /\ o \in Orders /\ order[o].status = "none" /\ Post(s)
        /\ order'[o].status = "live" /\ order'[o].cart = tx[s].cart
        /\ \A p \in Orders : p # o => order'[p] = order[p] /\ alloc'[p] = alloc[p]
        /\ \A l \in Lots : Allocated(o, l)' = Total(m[l]) /\ Total(m[l]) \in Nat
        /\ tx'[s] = NullTx /\ \A r \in Sessions : r # s => tx'[r] = tx[r]
    <2>1. SaleCommits(s, o, m)
      BY <1>1, <1>2, CommitSaleEffect
    <2> QED
      BY <2>1 DEF SaleCommits
  <1>4. ASSUME NEW r \in Sessions PROVE Own(r)'
    <2>1. CASE r = s
      BY <1>3, <2>1, NullOwn
    <2>2. CASE r # s
      <3>1. tx[r].kind = "cancel" => tx[r].target \in Orders /\ tx[r].target # o
        BY <1>3 DEF Roles, CancelRole
      <3>2. tx[r].kind = "cancel" => alloc'[tx[r].target] = alloc[tx[r].target]
        BY <1>3, <3>1
      <3> QED
        BY <1>3, <2>2, <3>2, PostOthers
    <2> QED
      BY <2>1, <2>2
  <1>5. ASSUME NEW p \in Orders PROVE OrderBooks(p)'
    <2>1. CASE p = o
      <3>1. ASSUME NEW item \in Items
            PROVE  SumFunctionOnSet([l \in Lots |-> Allocated(o, l)'], OfItem(item)) = Demanded(tx[s].cart, item)
        <4>1. PICK g : g = [l \in Lots |-> Total(tx[s].moves[l])]
          OBVIOUS
        <4>2. [l \in Lots |-> Allocated(o, l)'] = g
          BY <1>2, <1>3, <4>1
        <4>3. Selling(s, item)
          BY DEF Books, Own
        <4>4. Demanded(tx[s].todo, item) = 0
          <5>1. PICK e : e = tx[s].todo
            OBVIOUS
          <5>2. e = <<>> /\ DOMAIN e = {}
            BY <1>3, <5>1
          <5>3. {i \in DOMAIN e : e[i].item = item} = {}
            BY <5>2
          <5>4. Demanded(e, item) = 0
            BY <5>3, SumEmpty DEF Demanded
          <5> QED
            BY <5>1, <5>4
        <4>5. SoldSoFar(s, item) = SumFunctionOnSet(g, OfItem(item))
          BY <4>1 DEF SoldSoFar
        <4>6. SumFunctionOnSet(g, OfItem(item)) \in Nat
          <5>1. OfItem(item) \in SUBSET Lots /\ IsFiniteSet(OfItem(item))
            BY FiniteLots DEF OfItem
          <5>2. \A l \in OfItem(item) : g[l] \in Nat
            BY <1>2, <1>3, <4>1, <5>1
          <5> QED
            BY <5>1, <5>2, SumNat
        <4> QED
          BY <1>3, <4>2, <4>3, <4>4, <4>5, <4>6 DEF Selling
      <3>2. ASSUME NEW item \in Items
            PROVE  SumFunctionOnSet([l \in Lots |-> Allocated(o, l)'], OfItem(item)) = Demanded(order'[o].cart, item)
        BY <1>3, <3>1
      <3>3. \A item \in Items :
              SumFunctionOnSet([l \in Lots |-> Allocated(o, l)'], OfItem(item)) = Demanded(order'[o].cart, item)
        BY <3>2
      <3>4. order'[o].status # "none"
        BY <1>3
      <3>5. OrderBooks(o)'
        BY <3>3, <3>4 DEF OrderBooks, OfItem, Demanded
      <3> QED
        BY <2>1, <3>5
    <2>2. CASE p # o
      <3>1. order'[p] = order[p] /\ alloc'[p] = alloc[p] /\ OrderBooks(p)
        BY <1>3, <2>2 DEF Books
      <3> QED
        BY <3>1 DEF OrderBooks, Allocated, OfItem, Demanded
    <2> QED
      BY <2>1, <2>2
  <1> QED
    BY <1>4, <1>5, CommitSaleLots DEF Books

\* A cancellation of order o that commits: it restores all the order was allocated.
CancelCommits(s, o, m) ==
  /\ tx[s].kind = "cancel" /\ tx[s].pc = "commit" /\ tx[s].todo = <<>> /\ o \in Orders
  /\ order[o].status = "live" /\ Post(s) /\ ForUpdate("order", o) \in tx[s].held
  /\ order'[o].status = "cancelled" /\ order'[o].cart = order[o].cart /\ alloc' = alloc
  /\ \A p \in Orders : p # o => order'[p] = order[p]
  /\ \A l \in Lots :
       /\ m[l] \in Seq(MovementRow) /\ Total(m[l]) \in Nat
       /\ stock'[l] = Visible(s, l) /\ ledger'[l] = ledger[l] \o m[l]
       /\ sold'[l] = Max({sold[l] - Total(m[l]), 0}) /\ Total(m[l]) = Allocated(o, l)
  /\ tx'[s] = NullTx /\ \A r \in Sessions : r # s => tx'[r] = tx[r]

LEMMA CommitCancelEffect ==
  ASSUME Types, Roles, Protected, Books, NEW s \in Sessions, CommitCancel(s), NEW o, o = tx[s].target,
         NEW m, m = tx[s].moves
  PROVE  CancelCommits(s, o, m)
  <1>1. /\ Ready(s, "cancel", "commit") /\ Post(s) /\ alloc' = alloc
        /\ sold' = [l \in Lots |-> Max({sold[l] - Total(m[l]), 0})]
        /\ order' = [order EXCEPT ![o].status = "cancelled"]
    BY DEF CommitCancel
  <1>2. tx[s].kind = "cancel" /\ tx[s].pc = "commit" /\ o \in Orders
    BY <1>1 DEF Ready, Roles, CancelRole
  <1>3. tx[s].todo = <<>> /\ order[o].status = "live" /\ ForUpdate("order", o) \in tx[s].held
    BY <1>2 DEF Protected, LocksOk, CancelLocks
  <1>4. \A l \in Lots : m[l] \in Seq(MovementRow) /\ Total(m[l]) \in Nat
    <2>1. m \in [Lots -> Seq(MovementRow)]
      BY TxFields
    <2> QED
      BY <2>1, TotalType
  <1>5. /\ order'[o].status = "cancelled" /\ order'[o].cart = order[o].cart
        /\ \A p \in Orders : p # o => order'[p] = order[p]
    BY <1>1, <1>2 DEF Types, OrderRow
  <1>6. ASSUME NEW l \in Lots PROVE Total(m[l]) = Allocated(o, l)
    <2>1. Restoring(s, l)
      BY DEF Books, Own
    <2>2. LeftToRestore(s, l) = {}
      BY <1>3 DEF LeftToRestore
    <2>3. SumFunctionOnSet(alloc[tx[s].target][l], LeftToRestore(s, l)) = 0
      BY <2>2, SumEmpty
    <2> QED
      BY <1>2, <1>4, <2>1, <2>3 DEF Restoring
  <1>7. Ended(s) /\ stock' = [l \in Lots |-> Visible(s, l)] /\ ledger' = [l \in Lots |-> ledger[l] \o m[l]]
    BY <1>1 DEF Post, Ended
  <1>8. tx'[s] = NullTx /\ \A r \in Sessions : r # s => tx'[r] = tx[r]
    BY <1>7, EndEffect
  <1> QED
    BY <1>1, <1>2, <1>3, <1>4, <1>5, <1>6, <1>7, <1>8 DEF CancelCommits

LEMMA CommitCancelLots ==
  ASSUME Types, Types', Roles, Protected, Books, NEW s \in Sessions, CommitCancel(s), NEW l \in Lots
  PROVE  LotBooks(l)'
  <1>1. PICK o : o = tx[s].target
    OBVIOUS
  <1>2. PICK moves : moves = tx[s].moves
    OBVIOUS
  <1>0. PICK m : m = moves[l]
    OBVIOUS
  <1>3. /\ tx[s].kind = "cancel" /\ o \in Orders /\ order[o].status = "live" /\ alloc' = alloc
        /\ order'[o].status = "cancelled" /\ \A p \in Orders : p # o => order'[p] = order[p]
        /\ m \in Seq(MovementRow) /\ Total(m) \in Nat /\ stock'[l] = Visible(s, l) /\ ledger'[l] = ledger[l] \o m
        /\ sold'[l] = Max({sold[l] - Total(m), 0}) /\ Total(m) = Allocated(o, l)
    <2>1. CancelCommits(s, o, moves)
      BY <1>1, <1>2, CommitCancelEffect
    <2> QED
      BY <1>0, <2>1 DEF CancelCommits
  <1>4. /\ Chained(m, stock[l]) /\ Visible(s, l) = stock[l] + Total(m) /\ Visible(s, l) = LastAfter(m, stock[l])
        /\ AllAre(m, "tra_hang", o)
    BY <1>0, <1>1, <1>2, <1>3 DEF Books, Own, Pending, Visible, AllAre
  <1>5. LotBooks(l)
    BY DEF Books
  <1>6. /\ Chained(ledger'[l], 0) /\ LastAfter(ledger'[l], 0) = stock'[l]
        /\ Total(Filtered(ledger'[l], {"nhap_hang"}, Everyone)) = Moved(l, "nhap_hang")
        /\ Total(Filtered(ledger'[l], {"xuat_huy"}, Everyone)) = Moved(l, "xuat_huy")
        /\ \A t \in {"xuat_ban", "tra_hang"}, p \in Orders :
             Total(Filtered(ledger'[l], {t}, {p}))
               = Total(Filtered(ledger[l], {t}, {p})) + IF t = "tra_hang" /\ p = o THEN Total(m) ELSE 0
    <2>1. GrowsBy(l, m, "tra_hang", o)
      BY <1>3, <1>4, <1>5, PostLedger
    <2> QED
      BY <1>3, <1>4, <2>1 DEF GrowsBy
  <1>7. Moved(l, "nhap_hang")' = Moved(l, "nhap_hang") /\ Moved(l, "xuat_huy")' = Moved(l, "xuat_huy")
    BY <1>6 DEF Moved, get_inventory_ledger, Everyone
  <1>8. LiveOn(l) = LiveOn(l)' + Total(m)
    <2>1. o \in LiveOrders
      BY <1>3 DEF LiveOrders
    <2>2. LiveOrders' = LiveOrders \ {o}
      <3>1. LiveOrders' = {p \in Orders : order'[p].status = "live"}
        BY DEF LiveOrders
      <3> QED
        BY <1>3, <3>1 DEF LiveOrders
    <2> QED
      BY <1>3, <2>1, <2>2, LiveOnLess
  <1>9. LiveOn(l)' \in Nat
    BY LiveOnTypeNext
  <1>10. \A p \in Orders : Allocated(p, l)' = Allocated(p, l) /\ Allocated(p, l) \in Nat
    BY <1>3, AllocatedType DEF Allocated
  <1>11. ASSUME NEW p \in Orders PROVE TraceOf(p, l)'
    <2>1. TraceOf(p, l)
      BY <1>5 DEF LotBooks
    <2>2. CASE p = o
      <3>1. /\ Total(Filtered(ledger[l], {"xuat_ban"}, {o})) = Allocated(o, l)
            /\ Total(Filtered(ledger[l], {"tra_hang"}, {o})) = 0
        BY <1>3, <2>1, <2>2 DEF TraceOf
      <3>2. /\ Total(Filtered(ledger'[l], {"xuat_ban"}, {o})) = Allocated(o, l) + 0
            /\ Total(Filtered(ledger'[l], {"tra_hang"}, {o})) = 0 + Total(m)
        BY <1>3, <1>6, <3>1
      <3>3. Allocated(o, l)' = Allocated(o, l) /\ Allocated(o, l) \in Nat
        BY <1>3, <1>10
      <3> QED
        BY <1>3, <2>2, <3>2, <3>3 DEF TraceOf
    <2>3. CASE p # o
      <3>1. Allocated(p, l)' = Allocated(p, l) /\ order'[p] = order[p] /\ Allocated(p, l) \in Nat
        BY <1>3, <1>10, <2>3
      <3>2. \A t \in {"xuat_ban", "tra_hang"} :
               Total(Filtered(ledger'[l], {t}, {p})) = Total(Filtered(ledger[l], {t}, {p})) + 0
        BY <1>6, <2>3
      <3> QED
        BY <2>1, <3>1, <3>2 DEF TraceOf
    <2> QED
      BY <2>2, <2>3
  <1>12. /\ sold[l] = LiveOn(l) /\ stock[l] \in Nat /\ Moved(l, "xuat_huy") \in Nat
         /\ Moved(l, "nhap_hang") = stock[l] + LiveOn(l) + Moved(l, "xuat_huy")
    <2>1. ledger[l] \in Seq(MovementRow) /\ stock[l] \in Nat
      BY DEF Types
    <2>2. Moved(l, "xuat_huy") \in Nat
      BY <2>1, FilteredTotal DEF Moved, get_inventory_ledger
    <2> QED
      BY <1>5, <2>1, <2>2 DEF LotBooks
  <1>13. stock'[l] = stock[l] + Total(m)
    BY <1>3, <1>4
  <1>14. Moved(l, "nhap_hang")' = stock'[l] + LiveOn(l)' + Moved(l, "xuat_huy")'
    BY <1>3, <1>7, <1>8, <1>9, <1>12, <1>13
  <1>15. sold'[l] = LiveOn(l)'
    <2>1. PICK d : d = sold[l] - Total(m)
      OBVIOUS
    <2>2. d = LiveOn(l)' /\ d \in Nat
      BY <1>3, <1>8, <1>9, <1>12, <2>1
    <2>3. Max({d, 0}) = d
      BY <2>2, MaxOfTwo
    <2> QED
      BY <1>3, <2>1, <2>2, <2>3
  <1> QED
    BY <1>6, <1>11, <1>14, <1>15 DEF LotBooks

LEMMA CommitCancelBooks ==
  ASSUME Types, Types', Roles, Protected, Books, NEW s \in Sessions, CommitCancel(s)
  PROVE  Books'
  <1>1. PICK o : o = tx[s].target
    OBVIOUS
  <1>2. PICK m : m = tx[s].moves
    OBVIOUS
  <1>3. CancelCommits(s, o, m)
    BY <1>1, <1>2, CommitCancelEffect
  <1>4. ASSUME NEW r \in Sessions PROVE Own(r)'
    <2>1. CASE r = s
      BY <1>3, <2>1, NullOwn DEF CancelCommits
    <2>2. CASE r # s
      BY <1>3, <2>2, PostOthers DEF CancelCommits
    <2> QED
      BY <2>1, <2>2
  <1>5. ASSUME NEW p \in Orders PROVE OrderBooks(p)'
    <2>1. OrderBooks(p) /\ alloc' = alloc /\ order'[p].cart = order[p].cart
          /\ (order'[p].status = "none" => order[p].status = "none")
      BY <1>3 DEF CancelCommits, Books
    <2> QED
      BY <2>1 DEF OrderBooks, Allocated, OfItem, Demanded
  <1> QED
    BY <1>4, <1>5, CommitCancelLots DEF Books

\* A lot nothing happens to.
LEMMA LotBooksSame ==
  ASSUME NEW l \in Lots, LotBooks(l), order' = order, alloc' = alloc,
         stock'[l] = stock[l], sold'[l] = sold[l], ledger'[l] = ledger[l]
  PROVE  LotBooks(l)'
  <1>1. LiveOn(l)' = LiveOn(l)
    BY DEF LiveOn, Allocated
  <1>2. \A type : Moved(l, type)' = Moved(l, type)
    BY DEF Moved, get_inventory_ledger
  <1>3. \A o \in Orders : TraceOf(o, l)' <=> TraceOf(o, l)
    BY DEF TraceOf, Allocated
  <1> QED
    BY <1>1, <1>2, <1>3 DEF LotBooks

LEMMA OneMovement ==
  ASSUME NEW x \in MovementRow, x.before = 0, x.type = "nhap_hang", x.after = x.qty, x.order = NoTarget
  PROVE  LET m == <<x>> IN
         /\ Chained(m, 0) /\ LastAfter(m, 0) = x.qty
         /\ Total(Filtered(m, {"nhap_hang"}, Everyone)) = x.qty /\ Total(Filtered(m, {"xuat_huy"}, Everyone)) = 0
         /\ \A o \in Orders : /\ Total(Filtered(m, {"xuat_ban"}, {o})) = 0
                              /\ Total(Filtered(m, {"tra_hang"}, {o})) = 0
  <1> DEFINE m == <<x>>
  <1>1. m \in Seq(MovementRow) /\ DOMAIN m = {1} /\ m[1] = x /\ Len(m) = 1 /\ m # <<>>
    OBVIOUS
  <1>2. x.qty \in Nat
    BY DEF MovementRow
  <1>3. Total(m) = x.qty
    BY TotalOne
  <1> HIDE DEF m
  <1>4. Chained(m, 0) /\ LastAfter(m, 0) = x.qty
    BY <1>1, <1>2 DEF Chained, LastAfter
  <1>5. Filtered(m, {"nhap_hang"}, Everyone) = m
    BY <1>1, FilteredAll DEF Everyone
  <1>6. Total(Filtered(m, {"xuat_huy"}, Everyone)) = 0
    BY <1>1, FilteredNone
  <1>7. ASSUME NEW o \in Orders
        PROVE  Total(Filtered(m, {"xuat_ban"}, {o})) = 0 /\ Total(Filtered(m, {"tra_hang"}, {o})) = 0
    BY <1>1, FilteredNone
  <1> QED
    BY <1>3, <1>4, <1>5, <1>6, <1>7 DEF m

LEMMA CommitReceiveBooks ==
  ASSUME Types, Types', Roles, Protected, Books, NEW s \in Sessions, CommitReceive(s), ~Rollback(s)
  PROVE  Books'
  <1>1. PICK k : k = tx[s].target
    OBVIOUS
  <1>2. PICK n : n = tx[s].seen
    OBVIOUS
  <1>3. PICK x : x = Movement("nhap_hang", n, 0, n, NoTarget)
    OBVIOUS
  <1>4. /\ Ready(s, "receive", "insert") /\ Ended(s) /\ stock' = [stock EXCEPT ![k] = n]
        /\ ledger' = [ledger EXCEPT ![k] = <<x>>] /\ sold' = sold /\ order' = order /\ alloc' = alloc
    BY <1>1, <1>2, <1>3 DEF CommitReceive, Ended
  <1>5. k \in Lots /\ n \in Nat \ {0} /\ lot[k].status = "none"
    <2>1. k \in Lots /\ n > 0 /\ lot[k] = NoLot
      BY <1>1, <1>2, <1>4 DEF Ready, Roles, LotRole
    <2>2. n \in Nat
      BY <1>2, TxFields
    <2> QED
      BY <2>1, <2>2 DEF NoLot
  <1>6. /\ x \in MovementRow /\ x.before = 0 /\ x.type = "nhap_hang" /\ x.after = n /\ x.qty = n /\ x.order = NoTarget
    BY <1>3, <1>5 DEF Movement, MovementRow, MovementType
  <1>7. /\ sold[k] = 0 /\ (\A o \in Orders : alloc[o][k] = <<>>) /\ \A r \in Sessions : tx[r].moves[k] = <<>>
    BY <1>5 DEF Roles, NothingOf
  <1>8. /\ stock'[k] = n /\ ledger'[k] = <<x>>
        /\ \A l \in Lots : l # k => stock'[l] = stock[l] /\ ledger'[l] = ledger[l]
    BY <1>4, <1>5 DEF Types
  <1>9. tx'[s] = NullTx /\ \A r \in Sessions : r # s => tx'[r] = tx[r]
    BY <1>4, EndEffect
  <1>10. ASSUME NEW r \in Sessions PROVE Own(r)'
    <2>1. CASE r = s
      BY <1>9, <2>1, NullOwn
    <2>2. CASE r # s
      <3>1. \A l \in Lots : tx[r].moves[l] # <<>> => stock'[l] = stock[l]
        BY <1>7, <1>8
      <3> QED
        BY <1>4, <1>9, <2>2, <3>1, OwnFrame DEF Books
    <2> QED
      BY <2>1, <2>2
  <1>11. LotBooks(k)'
    <2>1. LotBooks(k)
      BY <1>5 DEF Books
    <2>2. LiveOn(k)' = LiveOn(k) /\ sold'[k] = 0 /\ LiveOn(k) = 0
      BY <1>4, <1>7, <2>1 DEF LiveOn, Allocated, LotBooks
    <2>3. PICK m : m = <<x>>
      OBVIOUS
    <2>4. /\ Chained(m, 0) /\ LastAfter(m, 0) = n
          /\ Total(Filtered(m, {"nhap_hang"}, Everyone)) = n /\ Total(Filtered(m, {"xuat_huy"}, Everyone)) = 0
          /\ \A o \in Orders : /\ Total(Filtered(m, {"xuat_ban"}, {o})) = 0
                               /\ Total(Filtered(m, {"tra_hang"}, {o})) = 0
      BY <1>6, <2>3, OneMovement
    <2>5. Moved(k, "nhap_hang")' = n /\ Moved(k, "xuat_huy")' = 0
      BY <1>8, <2>3, <2>4 DEF Moved, get_inventory_ledger, Everyone
    <2>6. ASSUME NEW o \in Orders PROVE TraceOf(o, k)'
      <3>1. alloc'[o][k] = <<>> /\ DOMAIN alloc'[o][k] = {}
        BY <1>4, <1>7
      <3>2. Allocated(o, k)' = 0
        BY <3>1, SumEmpty DEF Allocated
      <3> QED
        BY <1>8, <2>3, <2>4, <3>2 DEF TraceOf
    <2>7. Moved(k, "nhap_hang")' = stock'[k] + LiveOn(k)' + Moved(k, "xuat_huy")'
      BY <1>5, <1>8, <2>2, <2>5
    <2>8. Chained(ledger'[k], 0) /\ stock'[k] = LastAfter(ledger'[k], 0)
      BY <1>8, <2>3, <2>4
    <2> QED
      BY <2>2, <2>6, <2>7, <2>8 DEF LotBooks
  <1>12. \A l \in Lots : l # k => LotBooks(l)'
    BY <1>4, <1>8, LotBooksSame DEF Books
  <1>13. \A o \in Orders : OrderBooks(o)'
    BY <1>4 DEF Books, OrderBooks, Allocated, Demanded, OfItem
  <1> QED
    BY <1>10, <1>11, <1>12, <1>13 DEF Books

LEMMA CommitDisposeBooks ==
  ASSUME Types, Types', Roles, Protected, Books, NEW s \in Sessions, CommitDispose(s), ~Rollback(s)
  PROVE  Books'
  <1>1. PICK k : k = tx[s].target
    OBVIOUS
  <1>2. PICK n : n = stock[k]
    OBVIOUS
  <1>3. PICK x : x = Movement("xuat_huy", n, n, 0, NoTarget)
    OBVIOUS
  <1>4. /\ Ready(s, "dispose", "check") /\ Ended(s) /\ stock' = [stock EXCEPT ![k] = 0] /\ n > 0
        /\ ledger' = [ledger EXCEPT ![k] = Append(ledger[k], x)] /\ sold' = sold /\ order' = order /\ alloc' = alloc
    BY <1>1, <1>2, <1>3 DEF CommitDispose, Ended
  <1>5. k \in Lots /\ n \in Nat \ {0} /\ HasBoth(s, k)
    <2>1. k \in Lots /\ HasBoth(s, k)
      BY <1>1, <1>4 DEF Ready, Roles, LotRole, Protected, LocksOk, DisposeLocks
    <2>2. n \in Nat
      BY <1>2, <2>1 DEF Types
    <2> QED
      BY <1>4, <2>1, <2>2
  <1>6. x \in MovementRow /\ x.before = n /\ x.type = "xuat_huy" /\ x.after = 0 /\ x.qty = n /\ x.order = NoTarget
    BY <1>3, <1>5 DEF Movement, MovementRow, MovementType
  <1>7. PICK a : a = ledger[k]
    OBVIOUS
  <1>8. /\ stock'[k] = 0 /\ ledger'[k] = Append(a, x) /\ a \in Seq(MovementRow)
        /\ \A l \in Lots : l # k => stock'[l] = stock[l] /\ ledger'[l] = ledger[l]
    BY <1>4, <1>5, <1>7 DEF Types
  <1>9. tx'[s] = NullTx /\ \A r \in Sessions : r # s => tx'[r] = tx[r]
    BY <1>4, EndEffect
  <1>10. ASSUME NEW r \in Sessions PROVE Own(r)'
    <2>1. CASE r = s
      BY <1>9, <2>1, NullOwn
    <2>2. CASE r # s
      <3>1. tx[r].moves[k] = <<>>
        <4>1. ForUpdate("stock", k) \notin tx[r].held
          BY <1>5, <2>2, OnlyOneHolds DEF HasBoth, Protected
        <4> QED
          BY <1>5, <4>1, MovesAreLocked
      <3>2. \A l \in Lots : tx[r].moves[l] # <<>> => stock'[l] = stock[l]
        BY <1>8, <3>1
      <3> QED
        BY <1>4, <1>9, <2>2, <3>2, OwnFrame DEF Books
    <2> QED
      BY <2>1, <2>2
  <1>11. LotBooks(k)'
    <2>1. LotBooks(k)
      BY <1>5 DEF Books
    <2>2. LiveOn(k)' = LiveOn(k) /\ sold'[k] = LiveOn(k)' /\ LiveOn(k) \in Nat
      BY <1>4, <1>5, <2>1, LiveOnType DEF LiveOn, Allocated, LotBooks
    <2>3. PICK b : b = <<x>>
      OBVIOUS
    <2>4. Append(a, x) = a \o b /\ b \in Seq(MovementRow) /\ DOMAIN b = {1} /\ b[1] = x
      BY <1>6, <1>8, <2>3
    <2>5. PICK c : c = a \o b
      OBVIOUS
    <2>6. \A types, orders : Total(Filtered(c, types, orders))
                               = Total(Filtered(a, types, orders)) + Total(Filtered(b, types, orders))
      BY <1>8, <2>4, <2>5, FilteredConcat
    <2>7. \A types, orders : Total(Filtered(a, types, orders)) \in Nat
      BY <1>8, FilteredTotal
    <2>8. Filtered(b, {"xuat_huy"}, Everyone) = b /\ Total(b) = n
      <3>1. \A i \in DOMAIN b : b[i].type \in {"xuat_huy"} /\ b[i].order \in Everyone
        BY <1>6, <2>4 DEF Everyone
      <3>2. Filtered(b, {"xuat_huy"}, Everyone) = b
        BY <2>4, <3>1, FilteredAll
      <3>3. Total(b) = n
        BY <1>6, <2>3, TotalOne
      <3> QED
        BY <3>2, <3>3
    <2>9. Total(Filtered(b, {"nhap_hang"}, Everyone)) = 0
      BY <1>6, <2>4, FilteredNone
    <2>10. ASSUME NEW o \in Orders, NEW t \in {"xuat_ban", "tra_hang"} PROVE Total(Filtered(b, {t}, {o})) = 0
      BY <1>6, <2>4, FilteredNone
    <2>11. Chained(c, 0) /\ LastAfter(c, 0) = 0
      <3>1. Chained(a, 0) /\ x.before = LastAfter(a, 0) /\ x.after = x.before - x.qty
        BY <1>2, <1>5, <1>6, <1>7, <2>1 DEF LotBooks
      <3> QED
        BY <1>6, <1>8, <2>4, <2>5, <3>1, ChainAppend, ZenonT(40)
    <2>12. ledger'[k] = c
      BY <1>8, <2>4, <2>5
    <2>13. /\ Moved(k, "nhap_hang")' = Moved(k, "nhap_hang") + 0 /\ Moved(k, "xuat_huy")' = Moved(k, "xuat_huy") + n
           /\ Moved(k, "nhap_hang") \in Nat /\ Moved(k, "xuat_huy") \in Nat
      BY <1>7, <2>6, <2>7, <2>8, <2>9, <2>12 DEF Moved, get_inventory_ledger, Everyone
    <2>14. Moved(k, "nhap_hang") = n + LiveOn(k) + Moved(k, "xuat_huy")
      BY <1>2, <2>1 DEF LotBooks
    <2>15. Moved(k, "nhap_hang")' = stock'[k] + LiveOn(k)' + Moved(k, "xuat_huy")'
      BY <1>5, <1>8, <2>2, <2>13, <2>14
    <2>16. ASSUME NEW o \in Orders PROVE TraceOf(o, k)'
      <3>1. TraceOf(o, k) /\ Allocated(o, k)' = Allocated(o, k) /\ order' = order
        BY <1>4, <2>1 DEF LotBooks, Allocated
      <3>2. ASSUME NEW t \in {"xuat_ban", "tra_hang"}
            PROVE  Total(Filtered(c, {t}, {o})) = Total(Filtered(a, {t}, {o}))
        <4>1. Total(Filtered(c, {t}, {o})) = Total(Filtered(a, {t}, {o})) + Total(Filtered(b, {t}, {o}))
          BY <2>6
        <4>2. Total(Filtered(b, {t}, {o})) = 0
          BY <2>10
        <4>3. Total(Filtered(a, {t}, {o})) \in Nat
          BY <2>7
        <4> QED
          BY <4>1, <4>2, <4>3
      <3> QED
        BY <1>7, <2>12, <3>1, <3>2 DEF TraceOf
    <2> QED
      BY <1>8, <2>2, <2>11, <2>12, <2>15, <2>16 DEF LotBooks
  <1>12. \A l \in Lots : l # k => LotBooks(l)'
    BY <1>4, <1>8, LotBooksSame DEF Books
  <1>13. \A o \in Orders : OrderBooks(o)'
    BY <1>4 DEF Books, OrderBooks, Allocated, Demanded, OfItem
  <1> QED
    BY <1>10, <1>11, <1>12, <1>13 DEF Books

LEMMA InitBooks == Init => Books
  <1> SUFFICES ASSUME Init PROVE Books
    OBVIOUS
  <1>0. Types
    BY InitTyped
  <1>1. ASSUME NEW s \in Sessions PROVE Own(s)
    <2>1. tx[s] = NullTx /\ tx[s].kind = "idle" /\ \A l \in Lots : tx[s].moves[l] = <<>>
      BY NullTxRow DEF Init
    <2>2. \A l \in Lots : Pending(s, l)
      <3> SUFFICES ASSUME NEW l \in Lots PROVE Pending(s, l)
        OBVIOUS
      <3>1. DOMAIN tx[s].moves[l] = {}
        BY <2>1
      <3> QED
        BY <2>1, <3>1 DEF Pending, Chained
    <2> QED
      BY <2>1, <2>2 DEF Own, Restoring, Selling
  <1>2. ASSUME NEW o \in Orders, NEW l \in Lots PROVE Allocated(o, l) = 0
    <2>1. alloc[o][l] = <<>> /\ DOMAIN alloc[o][l] = {}
      BY DEF Init
    <2> QED
      BY <2>1, SumEmpty DEF Allocated
  <1>3. ASSUME NEW l \in Lots PROVE LotBooks(l)
    <2>1. PICK m : m = ledger[l]
      OBVIOUS
    <2>2. m = <<>> /\ stock[l] = 0 /\ sold[l] = 0 /\ m \in Seq(MovementRow) /\ DOMAIN m = {}
      BY <2>1 DEF Init
    <2>3. \A types, orders : Total(Filtered(m, types, orders)) = 0
      BY <2>2, FilteredNone
    <2>4. LiveOn(l) = 0
      <3>1. {o \in Orders : order[o].status = "live"} = {}
        BY DEF Init
      <3> QED
        BY <3>1, SumEmpty DEF LiveOn
    <2>5. Moved(l, "nhap_hang") = 0 /\ Moved(l, "xuat_huy") = 0
      BY <2>1, <2>3 DEF Moved, get_inventory_ledger
    <2>6. Chained(m, 0) /\ LastAfter(m, 0) = 0
      BY <2>2 DEF Chained, LastAfter
    <2>7. ASSUME NEW o \in Orders PROVE TraceOf(o, l)
      <3>1. /\ Total(Filtered(m, {"xuat_ban"}, {o})) = 0
            /\ Total(Filtered(m, {"tra_hang"}, {o})) = 0
        BY <2>3
      <3> QED
        BY <1>2, <2>1, <3>1 DEF TraceOf
    <2> QED
      BY <2>1, <2>2, <2>4, <2>5, <2>6, <2>7 DEF LotBooks
  <1>4. ASSUME NEW o \in Orders PROVE OrderBooks(o)
    <2>1. order[o].cart = <<>> /\ \A l \in Lots : alloc[o][l] = <<>>
      BY DEF Init
    <2>2. ASSUME NEW item \in Items
          PROVE  SumFunctionOnSet([l \in Lots |-> Allocated(o, l)], OfItem(item)) = Demanded(order[o].cart, item)
      <3>1. PICK g : g = [l \in Lots |-> Allocated(o, l)]
        OBVIOUS
      <3>2. OfItem(item) \in SUBSET Lots /\ IsFiniteSet(OfItem(item))
        BY FiniteLots DEF OfItem
      <3>3. \A l \in OfItem(item) : g[l] = 0
        BY <1>2, <3>1, <3>2
      <3>4. SumFunctionOnSet(g, OfItem(item)) = 0
        BY <3>2, <3>3, SumZero
      <3>5. PICK e : e = order[o].cart
        OBVIOUS
      <3>6. {i \in DOMAIN e : e[i].item = item} = {}
        BY <2>1, <3>5
      <3>7. Demanded(e, item) = 0
        BY <3>6, SumEmpty DEF Demanded
      <3> QED
        BY <3>1, <3>4, <3>5, <3>7
    <2> QED
      BY <2>1, <2>2 DEF OrderBooks
  <1> QED
    BY <1>1, <1>3, <1>4 DEF Books

LEMMA BooksKept ==
  ASSUME Types, Roles, Protected, Books, [Next]_vars
  PROVE  Books'
  <1>0. Types'
    BY TypesKept
  <1>1. ASSUME NEW s \in Sessions, Step(s) PROVE Books'
    <2>1. CASE Rollback(s)
      BY <1>0, <2>1, RollbackBooks
    <2>2. CASE CommitReceive(s) /\ ~Rollback(s)
      BY <1>0, <2>2, CommitReceiveBooks
    <2>3. CASE CommitDispose(s) /\ ~Rollback(s)
      BY <1>0, <2>3, CommitDisposeBooks
    <2> QED
      BY <1>0, <1>1, <2>1, <2>2, <2>3, StepBooks, CommitSaleBooks, CommitCancelBooks DEF Step
  <1>2. ASSUME NEW s \in Sessions, Rollback(s) PROVE Books'
    BY <1>0, <1>2, RollbackBooks
  <1>3. ASSUME UNCHANGED <<stock, sold, ledger, order, alloc, tx>> PROVE Books'
    <2>1. \A r \in Sessions : Own(r)'
      BY <1>0, <1>3, OwnFrame DEF Books
    <2> QED
      BY <1>3, <2>1, CommittedBooks DEF Books
  <1>4. ASSUME NEW l \in Lots, NEW new, UpdateBatch(l, new) PROVE Books'
    BY <1>3, <1>4 DEF UpdateBatch
  <1>5. CASE Midnight
    BY <1>3, <1>5 DEF Midnight
  <1>6. CASE UNCHANGED vars
    BY <1>3, <1>6 DEF vars
  <1> QED
    BY <1>0, <1>1, <1>2, <1>4, <1>5, <1>6, BeginsBooks DEF Next, Fail, DeadlockVictim

\* The books hold after every step: what each transaction has pending follows on from the
\* committed stock and is what its cart demands or its order was allocated, and the
\* committed stock, counters, ledger and allocations agree lot by lot and order by order.
THEOREM BooksHold == Spec => []Books
  <1>1. Typed /\ Protected /\ Books /\ [Next]_vars => Books'
    BY BooksKept DEF Typed
  <1> QED
    BY InitBooks, TypedHolds, ProtectedHolds, <1>1, PTL DEF Spec

\* An order is allocated item by item all its cart demands, or nothing, whatever fails or
\* crosses: no transaction that stops half way leaves an order with some of its goods.
THEOREM OrdersAreWhole == Spec => []OrderWhole
  <1>1. Books => OrderWhole
    BY DEF Books, OrderBooks, OrderWhole, OfItem
  <1> QED
    BY BooksHold, <1>1, PTL

----------------------------------------------------------------------------
(* The codes of the lots                                                   *)

LEMMA CodesAre ==
  Codes <=> \A k, l \in Lots : lot[k] # NoLot /\ lot[l] # NoLot /\ k # l /\ ItemOf[k] = ItemOf[l]
                                 => lot[k].code # lot[l].code
  BY DEF Codes, _batch_metadata

LEMMA CodesKept ==
  ASSUME Types, Roles, Codes, [Next]_vars
  PROVE  Codes'
  <1>1. ASSUME lot' = lot PROVE Codes'
    BY <1>1 DEF Codes, _batch_metadata
  <1>2. ASSUME NEW l \in Lots, \A k \in Lots : k # l => lot'[k] = lot[k],
               \A k \in Lots : ItemOf[k] = ItemOf[l] /\ lot[k] # NoLot /\ k # l => lot[k].code # lot'[l].code
        PROVE  Codes'
    <2>1. \A j, k \in Lots : lot'[j] # NoLot /\ lot'[k] # NoLot /\ j # k /\ ItemOf[j] = ItemOf[k]
                               => lot'[j].code # lot'[k].code
      BY <1>2, CodesAre
    <2> QED
      BY <2>1 DEF Codes, _batch_metadata
  <1>3. ASSUME NEW s \in Sessions, CommitReceive(s), ~Rollback(s) PROVE Codes'
    <2>1. PICK l : l = tx[s].target
      OBVIOUS
    <2>2. l \in Lots /\ lot' = [lot EXCEPT ![l] = tx[s].lot] /\ ~CodeTaken(s)
      BY <1>3, <2>1 DEF CommitReceive, Ready, Roles, LotRole
    <2>3. lot'[l] = tx[s].lot /\ \A k \in Lots : k # l => lot'[k] = lot[k]
      BY <2>2 DEF Types
    <2> QED
      BY <1>2, <2>1, <2>2, <2>3 DEF CodeTaken
  <1>4. ASSUME NEW l \in Lots, lot[l] # NoLot, lot' = [lot EXCEPT ![l] = lot'[l]], lot'[l].code = lot[l].code
        PROVE  Codes'
    <2>1. \A k \in Lots : k # l => lot'[k] = lot[k]
      BY <1>4 DEF Types
    <2> QED
      BY <1>2, <1>4, <2>1, CodesAre
  <1>5. ASSUME NEW s \in Sessions, CommitDispose(s), ~Rollback(s) PROVE Codes'
    <2>1. PICK l : l = tx[s].target
      OBVIOUS
    <2>2. l \in Lots /\ lot' = [lot EXCEPT ![l].status = "hethan"] /\ stock[l] > 0
      BY <1>5, <2>1 DEF CommitDispose, Ready, Roles, LotRole
    <2>3. lot[l] # NoLot
      <3>1. stock[l] # 0
        BY <2>2
      <3> QED
        BY <2>2, <3>1 DEF Roles, NothingOf, NoLot
    <2>4. lot'[l].code = lot[l].code /\ lot' = [lot EXCEPT ![l] = lot'[l]]
      BY <2>2 DEF Types, LotRow
    <2> QED
      BY <1>4, <2>2, <2>3, <2>4
  <1>6. ASSUME NEW l \in Lots, NEW st, NEW e, UpdateBatch(l, [status |-> st, expiry |-> e, code |-> lot[l].code])
        PROVE  Codes'
    <2>1. PICK new : new = [status |-> st, expiry |-> e, code |-> lot[l].code]
      OBVIOUS
    <2>2. new.code = lot[l].code
      BY <2>1
    <2>3. lot' = [lot EXCEPT ![l] = new] /\ lot[l] # NoLot
      BY <1>6, <2>1 DEF UpdateBatch
    <2>4. lot'[l] = new
      BY <2>3 DEF Types
    <2> QED
      BY <1>4, <2>2, <2>3, <2>4
  <1>7. ASSUME NEW s \in Sessions, Step(s) PROVE Codes'
    <2>1. ASSUME Rollback(s) PROVE lot' = lot
      BY <2>1 DEF Rollback, committed
    <2>2. CASE CommitReceive(s) \/ CommitDispose(s)
      BY <1>1, <1>3, <1>5, <2>1, <2>2
    <2>3. CASE ~(CommitReceive(s) \/ CommitDispose(s))
      <3>1. lot' = lot
        BY <1>7, <2>1, <2>3 DEF Step, Acquire, ReadLots, Take, CommitSale, CheckCancel, Restore, WriteLedger,
           CommitCancel, committed
      <3> QED
        BY <1>1, <3>1
    <2> QED
      BY <2>2, <2>3
  <1>8. ASSUME NEW s \in Sessions, Rollback(s) \/ \E t : Begin(s, t) PROVE lot' = lot
    BY <1>8 DEF Rollback, Begin, committed
  <1>9. CASE Midnight \/ UNCHANGED vars
    BY <1>1, <1>9 DEF Midnight, vars
  <1> QED
    BY <1>1, <1>6, <1>7, <1>8, <1>9 DEF Next, Fail, DeadlockVictim, BeginSale, BeginCancel, BeginDispose, BeginReceive

\* No two lots of an item ever have one code, however many are received at the same time.
THEOREM CodesAreUnique == Spec => []OneLotPerCode
  <1>1. Init => Codes
    BY DEF Init, Codes
  <1>2. Typed /\ Codes /\ [Next]_vars => Codes'
    BY CodesKept DEF Typed
  <1>3. Codes => OneLotPerCode
    BY DEF Codes, OneLotPerCode
  <1> QED
    BY TypedHolds, <1>1, <1>2, <1>3, PTL DEF Spec

\* The three books of the stock agree after any crossing of transactions, for any number of
\* lots, orders and sessions: the stock and its counters, the ledger, and what each order
\* took and gave back, as the trace of a lot shows them.
THEOREM StockIsAccounted == Spec => []StockAccounted
  <1>1. ASSUME Types PROVE TypeOK
    <2>1. \A l \in Lots : ledger[l] \in Seq(MovementRow)
      BY <1>1 DEF Types
    <2>2. ASSUME NEW l \in Lots
          PROVE  /\ lot[l].status \in LotStatus \cup {"none"} /\ lot[l].expiry \in Nat
                 /\ stock[l] \in Nat /\ sold[l] \in Nat
                 /\ \A i \in DOMAIN ledger[l] : ledger[l][i] \in MovementRow
      <3>1. lot[l] \in LotRow /\ stock[l] \in Nat /\ sold[l] \in Nat
        BY <1>1 DEF Types
      <3>2. \A i \in DOMAIN ledger[l] : ledger[l][i] \in MovementRow
        BY <2>1
      <3> QED
        BY <3>1, <3>2 DEF LotRow
    <2>3. ASSUME NEW o \in Orders
          PROVE  /\ order[o].status \in {"none", "live", "cancelled"}
                 /\ \A l \in Lots : alloc[o][l] \in Seq(Nat \ {0})
      BY <1>1 DEF Types, OrderRow
    <2>4. ASSUME NEW s \in Sessions
          PROVE  /\ tx[s].kind \in {"idle", "sale", "cancel", "dispose", "receive"}
                 /\ \A l \in Lots : \A i \in DOMAIN tx[s].moves[l] : tx[s].moves[l][i] \in MovementRow
      <3>1. tx[s].kind \in Kinds /\ tx[s].moves \in [Lots -> Seq(MovementRow)]
        BY <1>1, TxFields
      <3>2. \A l \in Lots : tx[s].moves[l] \in Seq(MovementRow)
        BY <3>1
      <3> QED
        BY <3>1, <3>2 DEF Kinds
    <2>5. today \in Days
      BY <1>1 DEF Types
    <2> QED
      BY <2>2, <2>3, <2>4, <2>5 DEF TypeOK
  <1>2. ASSUME Types, Books PROVE StockConserved /\ LedgerChain
    <2>1. \A l \in Lots : LotBooks(l)
      BY <1>2 DEF Books
    <2>2. StockConserved
      BY <2>1 DEF LotBooks, StockConserved, _batch_metadata
    <2>3. LedgerChain
      BY <2>1 DEF LotBooks, LedgerChain, Chained
    <2> QED
      BY <2>2, <2>3
  <1>3. ASSUME Types, Books PROVE RestoredOnce
    <2> SUFFICES ASSUME NEW l \in Lots, NEW o \in Orders
                 PROVE  /\ Total(Filtered(get_batch_trace(l).movements, {"xuat_ban"}, {o}))
                             = SumFunctionOnSet(get_batch_trace(l).allocations[o],
                                                DOMAIN get_batch_trace(l).allocations[o])
                        /\ Total(Filtered(get_batch_trace(l).movements, {"tra_hang"}, {o}))
                             = IF order[o].status = "cancelled"
                                 THEN SumFunctionOnSet(get_batch_trace(l).allocations[o],
                                                       DOMAIN get_batch_trace(l).allocations[o])
                                 ELSE 0
      BY DEF RestoredOnce
    <2>1. ledger[l] \in Seq(MovementRow)
      BY <1>3 DEF Types
    <2>2. get_batch_trace(l).movements = ledger[l]
      BY <2>1, Unfiltered DEF get_batch_trace, get_inventory_ledger, Everyone
    <2>3. get_batch_trace(l).allocations[o] = alloc[o][l]
      BY DEF get_batch_trace
    <2>4. TraceOf(o, l)
      BY <1>3 DEF Books, LotBooks
    <2> QED
      BY <2>2, <2>3, <2>4 DEF TraceOf, Allocated
  <1>4. Typed /\ Books /\ OneLotPerCode => StockAccounted
    BY <1>1, <1>2, <1>3 DEF StockAccounted, Typed
  <1> QED
    BY TypedHolds, BooksHold, CodesAreUnique, <1>4, PTL

----------------------------------------------------------------------------
(* What is on offer                                                        *)

\* What a sale finds in the rows it has locked is part of what the page offers that day.
LEMMA RowsAreOffered ==
  ASSUME Types, Roles, Protected, Books, NEW s \in Sessions, Ready(s, "sale", "take"), tx[s].day = today
  PROVE  Amount(s, tx[s].rows, Len(tx[s].rows)) <= sellable_stock(Head(tx[s].todo).item)
  <1> DEFINE item == Head(tx[s].todo).item
  <1>1. PICK rows : rows = tx[s].rows
    OBVIOUS
  <1>2. rows \in Seq(Lots) /\ DOMAIN rows = 1..Len(rows) /\ Len(rows) \in Nat /\ tx[s].kind = "sale"
    BY <1>1, TxFields DEF Ready
  <1>3. /\ \A i, j \in DOMAIN rows : i # j => rows[i] # rows[j]
        /\ \A i \in DOMAIN rows : /\ rows[i] \in Lots /\ ItemOf[rows[i]] = item
                                  /\ lot[rows[i]].status = "hoatdong" /\ lot[rows[i]].expiry >= today
    <2>1. SaleRows(s)
      BY DEF Protected, LocksOk
    <2> QED
      BY <1>1, <1>2, <2>1 DEF SaleRows, Sellable, Ready
  <1>4. ASSUME NEW l \in Lots
        PROVE  Visible(s, l) \in Nat /\ stock[l] \in Nat /\ Visible(s, l) <= stock[l]
    <2>1. Visible(s, l) \in Nat /\ stock[l] \in Nat /\ Total(tx[s].moves[l]) \in Nat
      <3>1. tx[s].moves \in [Lots -> Seq(MovementRow)]
        BY TxFields
      <3> QED
        BY <3>1, VisibleType, TotalType DEF Types
    <2>2. Visible(s, l) = stock[l] - Total(tx[s].moves[l])
      BY <1>2 DEF Books, Own, Pending
    <2> QED
      BY <2>1, <2>2
  <1>5. PICK D : D = DOMAIN rows
    OBVIOUS
  <1>6. IsFiniteSet(D)
    BY <1>2, <1>5, FS_Interval
  <1>7. PICK v : v = [i \in D |-> Visible(s, rows[i])]
    OBVIOUS
  <1>8. PICK g : g = [l \in Lots |-> Visible(s, l)]
    OBVIOUS
  <1>9. PICK R : R = {rows[i] : i \in D}
    OBVIOUS
  <1>10. PICK L : L = {l \in Lots : ItemOf[l] = item /\ lot[l].status = "hoatdong" /\ lot[l].expiry >= today}
    OBVIOUS
  <1>11. Amount(s, rows, Len(rows)) = SumFunctionOnSet(v, D)
    BY <1>2, <1>5, <1>7 DEF Amount
  <1>12. SumFunctionOnSet(g, R) = SumFunctionOnSet(v, D)
    <2>1. \A i \in D : g[rows[i]] \in Int /\ v[i] = g[rows[i]]
      BY <1>3, <1>4, <1>5, <1>7, <1>8
    <2>2. \A i, j \in D : i # j => rows[i] # rows[j]
      BY <1>3, <1>5
    <2>3. SumFunctionOnSet(g, {rows[i] : i \in D}) = SumFunctionOnSet(v, D)
      BY <1>6, <2>1, <2>2, SumImage
    <2> QED
      BY <1>9, <2>3
  <1>13. R \in SUBSET L /\ L \in SUBSET Lots /\ IsFiniteSet(R) /\ IsFiniteSet(L)
    <2>1. R \in SUBSET L /\ L \in SUBSET Lots
      BY <1>3, <1>5, <1>9, <1>10
    <2> QED
      BY <2>1, FiniteLots
  <1>14. SumFunctionOnSet(g, R) <= SumFunctionOnSet(stock, R)
    <2>1. \A l \in R : g[l] \in Int /\ stock[l] \in Int /\ g[l] <= stock[l]
      BY <1>4, <1>8, <1>13
    <2> QED
      BY <1>13, <2>1, SumLeq
  <1>15. SumFunctionOnSet(stock, R) <= SumFunctionOnSet(stock, L)
    <2>1. \A l \in L : stock[l] \in Nat
      BY <1>4, <1>13
    <2> QED
      BY <1>13, <2>1, SumGrows
  <1>16. SumFunctionOnSet(g, R) \in Int /\ SumFunctionOnSet(stock, R) \in Int /\ SumFunctionOnSet(stock, L) \in Int
    <2>1. \A l \in R : g[l] \in Int /\ stock[l] \in Int
      BY <1>4, <1>8, <1>13
    <2>2. \A l \in L : stock[l] \in Int
      BY <1>4, <1>13
    <2> QED
      BY <1>13, <2>1, <2>2, SumType
  <1>17. sellable_stock(item) = SumFunctionOnSet(stock, L)
    BY <1>10 DEF sellable_stock
  <1> HIDE DEF item
  <1>18. Amount(s, rows, Len(rows)) <= sellable_stock(item)
    BY <1>11, <1>12, <1>14, <1>15, <1>16, <1>17
  <1> QED
    BY <1>1, <1>18 DEF item

\* What is sold is on offer: not blocked, not expired, and part of what the pages show,
\* however long the sale waited for its locks.
THEOREM OnlyTheOfferedIsSold == Spec => []OnlyOfferedIsSold
  <1>1. Typed /\ Protected /\ Books => OfferCoversSales
    BY RowsAreOffered DEF Typed, OfferCoversSales
  <1>2. NothingBlockedIsSold /\ OfferCoversSales => OnlyOfferedIsSold
    BY DEF OnlyOfferedIsSold
  <1> QED
    BY TypedHolds, ProtectedHolds, BooksHold, NothingBlocked, <1>1, <1>2, PTL

----------------------------------------------------------------------------
(* The contract                                                            *)

\* Nobody orders nothing.
NonEmpty == \A s \in Sessions : tx[s].kind = "sale" => tx[s].cart # <<>>

LEMMA NonEmptyKept ==
  ASSUME Types, Roles, NonEmpty, [Next]_vars
  PROVE  NonEmpty'
  <1>1. ASSUME NEW s \in Sessions, \A r \in Sessions : r # s => tx'[r] = tx[r],
               tx'[s].kind # "sale" \/ Kept(tx[s], tx'[s]) \/ tx'[s].cart # <<>>
        PROVE  NonEmpty'
    BY <1>1 DEF NonEmpty, Kept
  <1>2. ASSUME NEW s \in Sessions, Ended(s) PROVE NonEmpty'
    BY <1>1, <1>2, EndEffect, NullTxRow
  <1>3. ASSUME NEW s \in Sessions, Rollback(s) PROVE NonEmpty'
    BY <1>2, <1>3 DEF Rollback, Ended
  <1>4. ASSUME NEW s \in Sessions, OthersKept(s), Kept(tx[s], tx'[s]) PROVE NonEmpty'
    BY <1>1, <1>4 DEF OthersKept
  <1>5. ASSUME NEW s \in Sessions, Step(s) PROVE NonEmpty'
    <2>1. CASE Acquire(s)
      BY <1>4, <2>1, AcquireEffect
    <2>2. CASE ReadLots(s)
      BY <1>4, <2>2, ReadLotsEffect
    <2>3. CASE Take(s)
      BY <1>3, <1>4, <2>3, TakeEffect
    <2>4. CASE CheckCancel(s)
      BY <1>3, <1>4, <2>4, CheckCancelEffect
    <2>5. CASE Restore(s)
      BY <1>4, <2>5, RestorePiece, RestoreEffect
    <2>6. CASE WriteLedger(s)
      BY <1>4, <2>6, WriteLedgerEffect
    <2>7. CASE CommitSale(s) \/ CommitCancel(s)
      BY <1>2, <2>7 DEF CommitSale, CommitCancel, Post, Ended
    <2>8. CASE CommitReceive(s)
      BY <1>2, <1>3, <2>8 DEF CommitReceive, Ended
    <2>9. CASE CommitDispose(s)
      BY <1>2, <1>3, <2>9 DEF CommitDispose, Ended
    <2> QED
      BY <1>5, <2>1, <2>2, <2>3, <2>4, <2>5, <2>6, <2>7, <2>8, <2>9 DEF Step
  <1>6. ASSUME NEW s \in Sessions, NEW t, Begin(s, t), t.kind # "sale" \/ t.cart # <<>> PROVE NonEmpty'
    <2>1. tx'[s] = t /\ \A r \in Sessions : r # s => tx'[r] = tx[r]
      BY <1>6, BeginEffect
    <2> QED
      BY <1>1, <1>6, <2>1
  <1>7. ASSUME NEW s \in Sessions, NEW o \in Orders, NEW cart \in Carts, BeginSale(s, o, cart) PROVE NonEmpty'
    <2>1. PICK t : t = SaleTx(o, cart)
      OBVIOUS
    <2>2. Begin(s, t)
      BY <1>7, <2>1 DEF BeginSale, SaleTx
    <2>3. t.cart # <<>>
      BY <2>1, SaleTxType, CartsAreDemands
    <2> QED
      BY <1>6, <2>2, <2>3
  <1>8. ASSUME NEW s \in Sessions, NEW o \in Orders, BeginCancel(s, o) PROVE NonEmpty'
    <2>1. PICK t : t = CancelTx(o)
      OBVIOUS
    <2>2. Begin(s, t)
      BY <1>8, <2>1 DEF BeginCancel, CancelTx
    <2> QED
      BY <1>6, <2>1, <2>2, CancelTxType
  <1>9. ASSUME NEW s \in Sessions, NEW l \in Lots, BeginDispose(s, l) PROVE NonEmpty'
    <2>1. PICK t : t = DisposeTx(l)
      OBVIOUS
    <2>2. Begin(s, t)
      BY <1>9, <2>1 DEF BeginDispose, DisposeTx
    <2> QED
      BY <1>6, <2>1, <2>2, DisposeTxType
  <1>10. ASSUME NEW s \in Sessions, NEW l \in Lots, NEW n \in Quantities, NEW st \in Statuses, NEW e \in Days,
                BeginReceive(s, l, n, [status |-> st, expiry |-> e])
         PROVE  NonEmpty'
    <2>1. PICK t : t = ReceiveTx(l, n, [status |-> st, expiry |-> e])
      OBVIOUS
    <2>2. Begin(s, t)
      BY <1>10, <2>1 DEF BeginReceive, ReceiveTx
    <2> QED
      BY <1>6, <2>1, <2>2, ReceiveTxType
  <1>11. ASSUME tx' = tx PROVE NonEmpty'
    BY <1>11 DEF NonEmpty
  <1> QED
    BY <1>3, <1>5, <1>7, <1>8, <1>9, <1>10, <1>11 DEF Next, Fail, DeadlockVictim, UpdateBatch, Midnight, vars

LEMMA ReserveStep ==
  ASSUME NEW o \in Orders, order[o].status = "none", order'[o].status = "live",
         \A p \in Orders : p # o => order'[p] = order[p] /\ alloc'[p] = alloc[p],
         NEW w, DOMAIN w = Lots, \A l \in Lots : Allocated(o, l)' = w[l],
         \A l \in Lots : 0 <= w[l] /\ w[l] <= stock[l], \E l \in Lots : w[l] > 0,
         stock' = [l \in Lots |-> stock[l] - w[l]], w = [l \in Lots |-> w[l]]
  PROVE  Contract!Reserve(o)
  <1>1. PICK a : a = Phases
    OBVIOUS
  <1>2. PICK b : b = Phases'
    OBVIOUS
  <1>3. PICK c : c = Holdings
    OBVIOUS
  <1>4. PICK d : d = Holdings'
    OBVIOUS
  <1>5. a[o] = "none" /\ b = [a EXCEPT ![o] = "live"]
    BY <1>1, <1>2 DEF Phases
  <1>6. \A p \in Orders : p # o => \A l \in Lots : Held(p, l)' = Held(p, l)
    BY DEF Held, Allocated
  <1>7. \A l \in Lots : Held(o, l)' = w[l]
    BY DEF Held
  <1>8. d[o] = w
    BY <1>4, <1>7 DEF Holdings
  <1>9. d = [c EXCEPT ![o] = w]
    BY <1>3, <1>4, <1>6, <1>7, <1>8 DEF Holdings
  <1>10. /\ a[o] = "none" /\ b = [a EXCEPT ![o] = "live"]
         /\ \A l \in Lots : 0 <= d[o][l] /\ d[o][l] <= stock[l]
         /\ \E l \in Lots : d[o][l] > 0
         /\ d = [c EXCEPT ![o] = d[o]]
         /\ stock' = [l \in Lots |-> stock[l] - d[o][l]]
    BY <1>5, <1>8, <1>9
  <1> QED
    BY <1>1, <1>2, <1>3, <1>4, <1>10 DEF Contract!Reserve

LEMMA ReturnStep ==
  ASSUME NEW o \in Orders, order[o].status = "live", order'[o].status = "cancelled",
         \A p \in Orders : p # o => order'[p] = order[p], alloc' = alloc,
         stock' = [l \in Lots |-> stock[l] + Allocated(o, l)]
  PROVE  Contract!Return(o)
  <1>1. PICK a : a = Phases
    OBVIOUS
  <1>2. PICK b : b = Phases'
    OBVIOUS
  <1>3. PICK c : c = Holdings
    OBVIOUS
  <1>4. PICK d : d = Holdings'
    OBVIOUS
  <1>5. a[o] = "live" /\ b = [a EXCEPT ![o] = "cancelled"]
    BY <1>1, <1>2 DEF Phases
  <1>6. \A p \in Orders : p # o => \A l \in Lots : Held(p, l)' = Held(p, l)
    BY DEF Held, Allocated
  <1>7. \A l \in Lots : Held(o, l)' = 0 /\ Held(o, l) = Allocated(o, l)
    BY DEF Held
  <1>8. \A l \in Lots : c[o][l] = Allocated(o, l)
    BY <1>3, <1>7 DEF Holdings
  <1>9. d = [c EXCEPT ![o] = [l \in Lots |-> 0]]
    BY <1>3, <1>4, <1>6, <1>7 DEF Holdings
  <1>10. stock' = [l \in Lots |-> stock[l] + c[o][l]]
    BY <1>8
  <1> QED
    BY <1>1, <1>2, <1>3, <1>4, <1>5, <1>9, <1>10 DEF Contract!Return, Contract!Nothing

LEMMA ContractUnchanged ==
  ASSUME order' = order, alloc' = alloc
  PROVE  UNCHANGED <<Phases, Holdings>>
  BY DEF Phases, Holdings, Held, Allocated

\* A sale that commits wants something.
LEMMA SaleTakesSomething ==
  ASSUME Types, Books, NonEmpty, NEW s \in Sessions, tx[s].kind = "sale", tx[s].todo = <<>>
  PROVE  \E l \in Lots : Total(tx[s].moves[l]) > 0
  <1>1. PICK cart : cart = tx[s].cart
    OBVIOUS
  <1>2. cart \in Seq(Demand) /\ cart # <<>>
    BY <1>1, TxFields DEF NonEmpty
  <1>3. PICK item : item = cart[1].item
    OBVIOUS
  <1>4. cart[1] \in Demand /\ cart[1].qty \in Nat \ {0} /\ item \in Items
    <2>1. cart[1] \in Demand
      BY <1>2
    <2> QED
      BY <1>3, <2>1 DEF Demand
  <1>5. Demanded(cart, item) > 0
    <2>1. Tail(cart) \in Seq(Demand)
      BY <1>2
    <2>2. Demanded(Tail(cart), item) \in Nat
      BY <2>1, DemandedType
    <2>3. Demanded(cart, item) = Demanded(Tail(cart), item) + cart[1].qty
      BY <1>2, <1>3, DemandedTail
    <2> QED
      BY <1>4, <2>2, <2>3
  <1>6. Demanded(tx[s].todo, item) = 0
    <2>1. PICK e : e = tx[s].todo
      OBVIOUS
    <2>2. e = <<>> /\ DOMAIN e = {}
      BY <2>1
    <2>3. {i \in DOMAIN e : e[i].item = item} = {}
      BY <2>2
    <2>4. Demanded(e, item) = 0
      BY <2>3, SumEmpty DEF Demanded
    <2> QED
      BY <2>1, <2>4
  <1>7. SoldSoFar(s, item) + 0 = Demanded(cart, item)
    BY <1>1, <1>4, <1>6 DEF Books, Own, Selling
  <1>8. \A l \in Lots : Total(tx[s].moves[l]) \in Nat
    <2>1. tx[s].moves \in [Lots -> Seq(MovementRow)]
      BY TxFields
    <2> QED
      BY <2>1, TotalType
  <1>9. SUFFICES ASSUME \A l \in Lots : ~(Total(tx[s].moves[l]) > 0) PROVE FALSE
    OBVIOUS
  <1>10. PICK g : g = [l \in Lots |-> Total(tx[s].moves[l])]
    OBVIOUS
  <1>11. \A l \in Lots : g[l] = 0
    BY <1>8, <1>9, <1>10
  <1>12. OfItem(item) \in SUBSET Lots /\ IsFiniteSet(OfItem(item))
    BY FiniteLots DEF OfItem
  <1>13. SumFunctionOnSet(g, OfItem(item)) = 0
    BY <1>11, <1>12, SumZero
  <1>14. SoldSoFar(s, item) = 0
    BY <1>10, <1>13 DEF SoldSoFar
  <1> QED
    BY <1>5, <1>7, <1>14

LEMMA CommitSaleReserves ==
  ASSUME Types, Roles, Books, NonEmpty, NEW s \in Sessions, CommitSale(s)
  PROVE  \E o \in Orders : Contract!Reserve(o)
  <1>1. PICK o : o = tx[s].target
    OBVIOUS
  <1>2. PICK m : m = tx[s].moves
    OBVIOUS
  <1>3. SaleCommits(s, o, m)
    BY <1>1, <1>2, CommitSaleEffect
  <1>4. PICK w : w = [l \in Lots |-> Total(m[l])]
    OBVIOUS
  <1>5. ASSUME NEW l \in Lots
        PROVE  /\ w[l] = Total(m[l]) /\ w[l] \in Nat /\ Visible(s, l) = stock[l] - w[l]
               /\ Visible(s, l) \in Nat /\ stock[l] \in Nat
    <2>1. Pending(s, l)
      BY DEF Books, Own
    <2>2. w[l] = Total(m[l]) /\ w[l] \in Nat
      BY <1>3, <1>4 DEF SaleCommits
    <2>3. Visible(s, l) = stock[l] - w[l]
      BY <1>2, <1>3, <2>1, <2>2 DEF Pending, SaleCommits
    <2> QED
      BY <2>2, <2>3, VisibleType DEF Types
  <1>6. \E l \in Lots : w[l] > 0
    BY <1>2, <1>3, <1>5, SaleTakesSomething DEF SaleCommits
  <1>7. stock' = [l \in Lots |-> stock[l] - w[l]]
    BY <1>3, <1>5 DEF SaleCommits, Post
  <1>8. /\ o \in Orders /\ order[o].status = "none" /\ order'[o].status = "live"
        /\ \A p \in Orders : p # o => order'[p] = order[p] /\ alloc'[p] = alloc[p]
        /\ \A l \in Lots : Allocated(o, l)' = w[l]
    BY <1>3, <1>5 DEF SaleCommits
  <1>9. \A l \in Lots : 0 <= w[l] /\ w[l] <= stock[l]
    BY <1>5
  <1>10. DOMAIN w = Lots /\ w = [l \in Lots |-> w[l]]
    BY <1>4
  <1> QED
    BY <1>6, <1>7, <1>8, <1>9, <1>10, ReserveStep

LEMMA CommitCancelReturns ==
  ASSUME Types, Roles, Protected, Books, NEW s \in Sessions, CommitCancel(s)
  PROVE  \E o \in Orders : Contract!Return(o)
  <1>1. PICK o : o = tx[s].target
    OBVIOUS
  <1>2. PICK m : m = tx[s].moves
    OBVIOUS
  <1>3. CancelCommits(s, o, m)
    BY <1>1, <1>2, CommitCancelEffect
  <1>4. \A l \in Lots : Visible(s, l) = stock[l] + Allocated(o, l)
    <2> SUFFICES ASSUME NEW l \in Lots PROVE Visible(s, l) = stock[l] + Allocated(o, l)
      OBVIOUS
    <2>1. Pending(s, l)
      BY DEF Books, Own
    <2> QED
      BY <1>2, <1>3, <2>1 DEF Pending, CancelCommits
  <1>5. stock' = [l \in Lots |-> stock[l] + Allocated(o, l)]
    BY <1>3, <1>4 DEF CancelCommits, Post
  <1>6. /\ o \in Orders /\ order[o].status = "live" /\ order'[o].status = "cancelled"
        /\ \A p \in Orders : p # o => order'[p] = order[p]
        /\ alloc' = alloc
    BY <1>3 DEF CancelCommits
  <1> QED
    BY <1>5, <1>6, ReturnStep

LEMMA CommitReceiveReceives ==
  ASSUME Types, Roles, NEW s \in Sessions, CommitReceive(s), ~Rollback(s)
  PROVE  \E l \in Lots : Contract!Receive(l)
  <1>1. PICK k : k = tx[s].target
    OBVIOUS
  <1>2. PICK n : n = tx[s].seen
    OBVIOUS
  <1>3. Ready(s, "receive", "insert") /\ stock' = [stock EXCEPT ![k] = n] /\ order' = order /\ alloc' = alloc
    BY <1>1, <1>2 DEF CommitReceive
  <1>4. k \in Lots /\ n > 0 /\ lot[k].status = "none"
    BY <1>1, <1>2, <1>3 DEF Ready, Roles, LotRole, NoLot
  <1>5. stock[k] = 0 /\ stock'[k] = n
    BY <1>3, <1>4 DEF Types, Roles, NothingOf
  <1>6. stock'[k] > stock[k] /\ stock' = [stock EXCEPT ![k] = stock'[k]]
    BY <1>3, <1>4, <1>5
  <1>7. Contract!Receive(k)
    BY <1>3, <1>6, ContractUnchanged DEF Contract!Receive
  <1> QED
    BY <1>4, <1>7

LEMMA CommitDisposeDiscards ==
  ASSUME Types, Roles, NEW s \in Sessions, CommitDispose(s), ~Rollback(s)
  PROVE  \E l \in Lots : Contract!Discard(l)
  <1>1. PICK k : k = tx[s].target
    OBVIOUS
  <1>2. /\ Ready(s, "dispose", "check") /\ stock[k] > 0 /\ stock' = [stock EXCEPT ![k] = 0]
        /\ order' = order /\ alloc' = alloc
    BY <1>1 DEF CommitDispose
  <1>3. k \in Lots
    BY <1>1, <1>2 DEF Ready, Roles, LotRole
  <1>4. Contract!Discard(k)
    BY <1>2, ContractUnchanged DEF Contract!Discard
  <1> QED
    BY <1>3, <1>4

LEMMA NextKeepsContract ==
  ASSUME Types, Roles, Protected, Books, NonEmpty, [Next]_vars
  PROVE  [Contract!StockNext]_(Contract!stockVars)
  <1> DEFINE Step0 == Contract!StockNext \/ UNCHANGED Contract!stockVars
  <1>1. ASSUME order' = order, alloc' = alloc, stock' = stock PROVE Step0
    BY <1>1, ContractUnchanged DEF Contract!stockVars
  <1>2. ASSUME \E o \in Orders : Contract!Reserve(o) \/ Contract!Return(o) PROVE Step0
    BY <1>2 DEF Contract!StockNext
  <1>3. ASSUME \E l \in Lots : Contract!Receive(l) \/ Contract!Discard(l) PROVE Step0
    BY <1>3 DEF Contract!StockNext
  <1> HIDE DEF Step0
  <1>4. ASSUME NEW s \in Sessions, Rollback(s) PROVE Step0
    BY <1>1, <1>4 DEF Rollback, committed
  <1>5. ASSUME NEW s \in Sessions, Step(s) PROVE Step0
    <2>1. CASE CommitSale(s)
      BY <1>2, <2>1, CommitSaleReserves
    <2>2. CASE CommitCancel(s)
      BY <1>2, <2>2, CommitCancelReturns
    <2>3. CASE CommitReceive(s)
      BY <1>3, <1>4, <2>3, CommitReceiveReceives
    <2>4. CASE CommitDispose(s)
      BY <1>3, <1>4, <2>4, CommitDisposeDiscards
    <2>5. CASE committed' = committed
      BY <1>1, <2>5 DEF committed
    <2> QED
      BY <1>5, <2>1, <2>2, <2>3, <2>4, <2>5 DEF Step, Acquire, ReadLots, Take, CheckCancel, Restore, WriteLedger, Rollback
  <1>6. ASSUME NEW s \in Sessions, NEW t, Begin(s, t) PROVE Step0
    BY <1>1, <1>6 DEF Begin, committed
  <1>7. ASSUME NEW s \in Sessions, NEW o \in Orders, NEW cart \in Carts, BeginSale(s, o, cart) PROVE Step0
    BY <1>6, <1>7 DEF BeginSale
  <1>8. ASSUME NEW s \in Sessions, NEW o \in Orders, BeginCancel(s, o) PROVE Step0
    BY <1>6, <1>8 DEF BeginCancel
  <1>9. ASSUME NEW s \in Sessions, NEW l \in Lots, BeginDispose(s, l) PROVE Step0
    BY <1>6, <1>9 DEF BeginDispose
  <1>10. ASSUME NEW s \in Sessions, NEW l \in Lots, NEW n, NEW new, BeginReceive(s, l, n, new) PROVE Step0
    BY <1>6, <1>10 DEF BeginReceive
  <1>11. ASSUME NEW l \in Lots, NEW new, UpdateBatch(l, new) PROVE Step0
    BY <1>1, <1>11 DEF UpdateBatch
  <1>12. ASSUME Midnight PROVE Step0
    BY <1>1, <1>12 DEF Midnight
  <1>13. ASSUME UNCHANGED vars PROVE Step0
    BY <1>1, <1>13 DEF vars
  <1>14. Step0
    BY <1>4, <1>5, <1>7, <1>8, <1>9, <1>10, <1>11, <1>12, <1>13 DEF Next, Fail, DeadlockVictim
  <1> QED
    BY <1>14 DEF Step0

LEMMA InitKeepsContract == Init => Contract!StockInit /\ NonEmpty
  <1> SUFFICES ASSUME Init PROVE Contract!StockInit /\ NonEmpty
    OBVIOUS
  <1>1. NonEmpty
    BY NullTxRow DEF Init, NonEmpty
  <1>2. Phases = [o \in Orders |-> "none"]
    BY DEF Init, Phases
  <1>3. \A o \in Orders, l \in Lots : Held(o, l) = 0
    BY DEF Init, Held
  <1>4. Holdings = [o \in Orders |-> [l \in Lots |-> 0]]
    BY <1>3 DEF Holdings
  <1>5. stock = [l \in Lots |-> 0]
    BY DEF Init
  <1> QED
    BY <1>1, <1>2, <1>4, <1>5 DEF Contract!StockInit, Contract!Nothing

\* To a reader of the committed rows every transaction is one step that the contract of the
\* stock allows: it reserves all an order needs, returns exactly that, receives or discards
\* a lot, or does nothing, whatever its statements cross on the way.
THEOREM StockContractKept == Spec => KeepsStockContract
  <1>1. Typed /\ NonEmpty /\ [Next]_vars => NonEmpty'
    BY NonEmptyKept DEF Typed
  <1>2. Typed /\ Protected /\ Books /\ NonEmpty /\ [Next]_vars => [Contract!StockNext]_(Contract!stockVars)
    BY NextKeepsContract DEF Typed
  <1> QED
    BY InitKeepsContract, TypedHolds, ProtectedHolds, BooksHold, <1>1, <1>2, PTL
    DEF Spec, KeepsStockContract, Contract!StockSpec

----------------------------------------------------------------------------
(* First expired, first out                                                *)

\* What a statement of a sale has yet to lock or has locked: a lot of its item that the
\* sale has locked is one of its rows, will be, or is none that it could sell.
SaleLooks(s) ==
  tx[s].kind = "sale" =>
    /\ \A l \in Lots : ForUpdate("stock", l) \in tx[s].held => HasBoth(s, l) /\ lot[l].status # "none"
    /\ \A i \in DOMAIN tx[s].want : lot[tx[s].want[i].id].status # "none"
    /\ tx[s].pc = "take" =>
         \A l \in Lots : ItemOf[l] = Head(tx[s].todo).item /\ HasBoth(s, l) =>
           \/ \E i \in DOMAIN tx[s].rows : tx[s].rows[i] = l
           \/ \E i \in DOMAIN tx[s].want : tx[s].want[i] = ForUpdate("stock", l)
           \/ ~Sellable(s, l, tx[s].day)
Looks == \A s \in Sessions : SaleLooks(s)

\* Its rows come in the order of their expiry dates, and so do those it still waits for.
RowsSorted(s) ==
  tx[s].kind = "sale" /\ tx[s].pc = "take" =>
    /\ \A i, j \in DOMAIN tx[s].want :
         i < j => lot[tx[s].want[i].id].expiry <= lot[tx[s].want[j].id].expiry
    /\ \A i \in DOMAIN tx[s].rows, j \in DOMAIN tx[s].want :
         lot[tx[s].rows[i]].expiry <= lot[tx[s].want[j].id].expiry
    /\ \A i, j \in DOMAIN tx[s].rows :
         i < j => lot[tx[s].rows[i]].expiry <= lot[tx[s].rows[j]].expiry
Sorted == \A s \in Sessions : RowsSorted(s)

\* What a step is to the transaction of a session s: none of its own, one of the steps of a
\* sale before its end, or one that leaves it no sale that has read anything.
Unread(u) == u.kind # "sale" \/ (u.held = {} /\ u.want = <<>> /\ u.pc # "take")

LEMMA StepsOfSale ==
  ASSUME Types, Roles, [Next]_vars, NEW s \in Sessions
  PROVE  \/ tx'[s] = tx[s]
         \/ Unread(tx'[s]) /\ (tx[s].kind # "sale" \/ tx'[s] = NullTx)
         \/ Acquire(s) \/ ReadLots(s)
         \/ Take(s) /\ ~Rollback(s)
  <1> DEFINE Goal == \/ tx'[s] = tx[s]
                     \/ Unread(tx'[s]) /\ (tx[s].kind # "sale" \/ tx'[s] = NullTx)
                     \/ Acquire(s) \/ ReadLots(s)
                     \/ Take(s) /\ ~Rollback(s)
  <1>1. ASSUME NEW r \in Sessions, Ended(r) PROVE Goal
    <2>1. tx'[r] = NullTx /\ \A q \in Sessions : q # r => tx'[q] = tx[q]
      BY <1>1, EndEffect
    <2> QED
      BY <2>1, NullTxRow DEF Unread
  <1>2. ASSUME NEW r \in Sessions, OthersKept(r), Kept(tx[r], tx'[r]), tx[r].kind # "sale" PROVE Goal
    BY <1>2 DEF OthersKept, Kept, Unread
  <1>3. ASSUME NEW r \in Sessions, OthersKept(r), Acquire(r) \/ ReadLots(r) \/ (Take(r) /\ ~Rollback(r)) PROVE Goal
    BY <1>3 DEF OthersKept
  <1>4. ASSUME NEW r \in Sessions, NEW t, Begin(r, t), Unread(t) PROVE Goal
    <2>1. tx'[r] = t /\ tx[r] = NullTx /\ \A q \in Sessions : q # r => tx'[q] = tx[q]
      BY <1>4, BeginEffect
    <2> QED
      BY <1>4, <2>1, NullTxRow
  <1>5. ASSUME tx' = tx PROVE Goal
    BY <1>5
  <1> HIDE DEF Goal
  <1>6. ASSUME NEW r \in Sessions, Rollback(r) PROVE Goal
    BY <1>1, <1>6 DEF Rollback, Ended
  <1>7. ASSUME NEW r \in Sessions, Step(r) PROVE Goal
    <2>1. CASE Acquire(r)
      BY <1>3, <2>1, AcquireEffect
    <2>2. CASE ReadLots(r)
      BY <1>3, <2>2, ReadLotsEffect
    <2>3. CASE Take(r)
      BY <1>3, <1>6, <2>3, TakeEffect
    <2>4. CASE CheckCancel(r)
      BY <1>2, <1>6, <2>4, CheckCancelEffect DEF Ready
    <2>5. CASE Restore(r)
      <3>1. tx[r].kind = "cancel"
        BY <2>5 DEF Restore, Ready
      <3> QED
        BY <1>2, <2>5, <3>1, RestorePiece, RestoreEffect
    <2>6. CASE WriteLedger(r)
      BY <1>2, <2>6, WriteLedgerEffect DEF Ready
    <2>7. CASE CommitSale(r) \/ CommitCancel(r)
      BY <1>1, <2>7 DEF CommitSale, CommitCancel, Post, Ended
    <2>8. CASE CommitReceive(r)
      BY <1>1, <1>6, <2>8 DEF CommitReceive, Ended
    <2>9. CASE CommitDispose(r)
      BY <1>1, <1>6, <2>9 DEF CommitDispose, Ended
    <2> QED
      BY <1>7, <2>1, <2>2, <2>3, <2>4, <2>5, <2>6, <2>7, <2>8, <2>9 DEF Step
  <1>8. ASSUME NEW r \in Sessions, NEW o \in Orders, NEW cart \in Carts, BeginSale(r, o, cart) PROVE Goal
    <2>1. PICK t : t = SaleTx(o, cart)
      OBVIOUS
    <2>2. Begin(r, t)
      BY <1>8, <2>1 DEF BeginSale, SaleTx
    <2>3. Unread(t)
      BY <2>1, SaleTxType DEF Unread
    <2> QED
      BY <1>4, <2>2, <2>3
  <1>9. ASSUME NEW r \in Sessions, NEW o \in Orders, BeginCancel(r, o) PROVE Goal
    <2>1. PICK t : t = CancelTx(o)
      OBVIOUS
    <2>2. Begin(r, t)
      BY <1>9, <2>1 DEF BeginCancel, CancelTx
    <2>3. Unread(t)
      BY <2>1, CancelTxType DEF Unread
    <2> QED
      BY <1>4, <2>2, <2>3
  <1>10. ASSUME NEW r \in Sessions, NEW l \in Lots, BeginDispose(r, l) PROVE Goal
    <2>1. PICK t : t = DisposeTx(l)
      OBVIOUS
    <2>2. Begin(r, t)
      BY <1>10, <2>1 DEF BeginDispose, DisposeTx
    <2>3. Unread(t)
      BY <2>1, DisposeTxType DEF Unread
    <2> QED
      BY <1>4, <2>2, <2>3
  <1>11. ASSUME NEW r \in Sessions, NEW l \in Lots, NEW n \in Quantities, NEW st \in Statuses, NEW e \in Days,
                BeginReceive(r, l, n, [status |-> st, expiry |-> e])
         PROVE  Goal
    <2>1. PICK t : t = ReceiveTx(l, n, [status |-> st, expiry |-> e])
      OBVIOUS
    <2>2. Begin(r, t)
      BY <1>11, <2>1 DEF BeginReceive, ReceiveTx
    <2>3. Unread(t)
      BY <2>1, ReceiveTxType DEF Unread
    <2> QED
      BY <1>4, <2>2, <2>3
  <1>12. Goal
    BY <1>5, <1>6, <1>7, <1>8, <1>9, <1>10, <1>11 DEF Next, Fail, DeadlockVictim, UpdateBatch, Midnight, vars
  <1> QED
    BY <1>12 DEF Goal

\* What a transaction has locked stays as it is while others run, no lot is lost, and no
\* date moves unless managers move it.
LEMMA LockedStays ==
  ASSUME Types, Roles, Protected, [Next]_vars, NEW s \in Sessions, tx'[s] = tx[s]
  PROVE  /\ \A l \in Lots : HasBoth(s, l) /\ lot[l].status # "none" => lot'[l] = lot[l] /\ stock'[l] = stock[l]
         /\ \A l \in Lots : lot[l].status # "none" => lot'[l].status # "none"
         /\ Expiries = {} => \A l \in Lots : lot[l].status # "none" => lot'[l].expiry = lot[l].expiry
  <1> DEFINE Goal ==
        /\ \A l \in Lots : HasBoth(s, l) /\ lot[l].status # "none" => lot'[l] = lot[l] /\ stock'[l] = stock[l]
        /\ \A l \in Lots : lot[l].status # "none" => lot'[l].status # "none"
        /\ Expiries = {} => \A l \in Lots : lot[l].status # "none" => lot'[l].expiry = lot[l].expiry
  <1>1. ASSUME lot' = lot, stock' = stock PROVE Goal
    BY <1>1
  <1>2. ASSUME NEW r \in Sessions, Ended(r), r = s PROVE \A l \in Lots : ~HasBoth(s, l)
    <2>1. tx[s].held = {}
      BY <1>2, EndEffect, NullTxRow
    <2> QED
      BY <2>1 DEF HasBoth
  <1>3. ASSUME NEW r \in Sessions, CommitSale(r) \/ CommitCancel(r) PROVE Goal
    <2>1. Ended(r) /\ lot' = lot /\ stock' = [l \in Lots |-> Visible(r, l)]
      BY <1>3 DEF CommitSale, CommitCancel, Post, Ended
    <2>2. ASSUME r # s, NEW l \in Lots, HasBoth(s, l) PROVE stock'[l] = stock[l]
      BY <2>1, <2>2, PostProtects DEF HasBoth
    <2> QED
      BY <1>2, <2>1, <2>2
  <1>4. ASSUME NEW r \in Sessions, CommitReceive(r), ~Rollback(r) PROVE Goal
    <2>1. PICK l \in Lots : l = tx[r].target /\ lot[l].status = "none"
      BY <1>4 DEF CommitReceive, Ready, Roles, LotRole, NoLot
    <2>2. lot' = [lot EXCEPT ![l] = tx[r].lot] /\ stock' = [stock EXCEPT ![l] = tx[r].seen]
      BY <1>4, <2>1 DEF CommitReceive
    <2>3. \A k \in Lots : lot[k].status # "none" => lot'[k] = lot[k] /\ stock'[k] = stock[k]
      BY <2>1, <2>2 DEF Types
    <2> QED
      BY <2>3
  <1>5. ASSUME NEW r \in Sessions, CommitDispose(r), ~Rollback(r) PROVE Goal
    <2>1. PICK l \in Lots : l = tx[r].target /\ HasBoth(r, l)
      <3>1. Ready(r, "dispose", "check")
        BY <1>5 DEF CommitDispose
      <3>2. tx[r].target \in Lots /\ HasBoth(r, tx[r].target)
        BY <3>1 DEF Ready, Roles, LotRole, Protected, LocksOk, DisposeLocks
      <3> QED
        BY <3>2
    <2>2. Ended(r) /\ lot' = [lot EXCEPT ![l].status = "hethan"] /\ stock' = [stock EXCEPT ![l] = 0]
      BY <1>5, <2>1 DEF CommitDispose, Ended
    <2>3. r # s => ~HasBoth(s, l)
      BY <2>1, OnlyOneHolds DEF Protected, HasBoth
    <2>4. \A k \in Lots : k # l => lot'[k] = lot[k] /\ stock'[k] = stock[k]
      BY <2>2 DEF Types
    <2>5. lot'[l].status = "hethan" /\ lot'[l].expiry = lot[l].expiry
      BY <2>2 DEF Types, LotRow
    <2> QED
      BY <1>2, <2>2, <2>3, <2>4, <2>5
  <1>6. ASSUME NEW l \in Lots, NEW st \in Statuses, NEW e \in Expiries \cup {lot[l].expiry},
               UpdateBatch(l, [status |-> st, expiry |-> e, code |-> lot[l].code])
        PROVE  Goal
    <2>1. PICK new : new = [status |-> st, expiry |-> e, code |-> lot[l].code]
      OBVIOUS
    <2>2. new.status # "none" /\ (Expiries = {} => new.expiry = lot[l].expiry)
      BY <2>1, ManagersStatuses DEF LotStatus
    <2>3. lot' = [lot EXCEPT ![l] = new] /\ stock' = stock /\ ~HasBoth(s, l)
      BY <1>6, <2>1 DEF UpdateBatch, HasBoth
    <2>4. lot'[l] = new /\ \A k \in Lots : k # l => lot'[k] = lot[k]
      BY <2>3 DEF Types
    <2> QED
      BY <2>2, <2>3, <2>4
  <1> HIDE DEF Goal
  <1>7. ASSUME NEW r \in Sessions, Rollback(r) PROVE Goal
    BY <1>1, <1>7 DEF Rollback, committed
  <1>8. ASSUME NEW r \in Sessions, Step(r) PROVE Goal
    <2>1. CASE committed' = committed
      BY <1>1, <2>1 DEF committed
    <2>2. CASE CommitSale(r) \/ CommitCancel(r) \/ CommitReceive(r) \/ CommitDispose(r)
      BY <1>3, <1>4, <1>5, <1>7, <2>2
    <2> QED
      BY <1>8, <2>1, <2>2 DEF Step, Acquire, ReadLots, Take, CheckCancel, Restore, WriteLedger, Rollback
  <1>9. ASSUME NEW r \in Sessions, NEW t, Begin(r, t) PROVE Goal
    BY <1>1, <1>9 DEF Begin, committed
  <1>10. ASSUME NEW r \in Sessions, NEW o \in Orders, NEW cart \in Carts, BeginSale(r, o, cart) PROVE Goal
    BY <1>9, <1>10 DEF BeginSale
  <1>11. ASSUME NEW r \in Sessions, NEW o \in Orders, BeginCancel(r, o) PROVE Goal
    BY <1>9, <1>11 DEF BeginCancel
  <1>12. ASSUME NEW r \in Sessions, NEW l \in Lots, BeginDispose(r, l) PROVE Goal
    BY <1>9, <1>12 DEF BeginDispose
  <1>13. ASSUME NEW r \in Sessions, NEW l \in Lots, NEW n, NEW new, BeginReceive(r, l, n, new) PROVE Goal
    BY <1>9, <1>13 DEF BeginReceive
  <1>14. ASSUME Midnight PROVE Goal
    BY <1>1, <1>14 DEF Midnight
  <1>15. ASSUME UNCHANGED vars PROVE Goal
    BY <1>1, <1>15 DEF vars
  <1>16. Goal
    BY <1>6, <1>7, <1>8, <1>10, <1>11, <1>12, <1>13, <1>14, <1>15 DEF Next, Fail, DeadlockVictim
  <1> QED
    BY <1>16 DEF Goal

LEMMA UnreadLooks == ASSUME NEW s \in Sessions, Unread(tx'[s]) PROVE SaleLooks(s)' /\ RowsSorted(s)'
  BY DEF Unread, SaleLooks, RowsSorted

LEMMA FrameLooks ==
  ASSUME Types, Roles, Protected, [Next]_vars, NEW s \in Sessions, tx'[s] = tx[s], SaleLooks(s)
  PROVE  SaleLooks(s)' /\ (Expiries = {} /\ RowsSorted(s) => RowsSorted(s)')
  <1>1. /\ \A l \in Lots : HasBoth(s, l) /\ lot[l].status # "none" => lot'[l] = lot[l] /\ stock'[l] = stock[l]
        /\ \A l \in Lots : lot[l].status # "none" => lot'[l].status # "none"
        /\ Expiries = {} => \A l \in Lots : lot[l].status # "none" => lot'[l].expiry = lot[l].expiry
    BY LockedStays
  <1> SUFFICES ASSUME tx[s].kind = "sale"
               PROVE  SaleLooks(s)' /\ (Expiries = {} /\ RowsSorted(s) => RowsSorted(s)')
    BY DEF SaleLooks, RowsSorted
  <1>2. tx[s].rows \in Seq(Lots) /\ SaleRole(s)
    BY TxFields DEF Roles
  <1>3. /\ \A i \in DOMAIN tx[s].want : tx[s].want[i].id \in Lots /\ lot[tx[s].want[i].id].status # "none"
        /\ \A i \in DOMAIN tx[s].rows : tx[s].rows[i] \in Lots /\ lot[tx[s].rows[i]].status # "none"
    BY <1>2 DEF SaleRole, SaleLooks
  <1>4. \A l \in Lots : HasBoth(s, l) =>
          lot[l].status # "none" /\ (Sellable(s, l, tx[s].day)' => Sellable(s, l, tx[s].day))
    BY <1>1 DEF SaleLooks, HasBoth, Sellable, Visible
  <1>5. SaleLooks(s)'
    BY <1>1, <1>3, <1>4 DEF SaleLooks, HasBoth
  <1>6. ASSUME Expiries = {}, RowsSorted(s) PROVE RowsSorted(s)'
    <2>1. \A i \in DOMAIN tx[s].want : lot'[tx[s].want[i].id].expiry = lot[tx[s].want[i].id].expiry
      BY <1>1, <1>3, <1>6
    <2>2. \A i \in DOMAIN tx[s].rows : lot'[tx[s].rows[i]].expiry = lot[tx[s].rows[i]].expiry
      BY <1>1, <1>3, <1>6
    <2> QED
      BY <1>6, <2>1, <2>2 DEF RowsSorted
  <1> QED
    BY <1>5, <1>6

\* The next lock of a sale: a lot joins its rows with both its locks, or is none it could sell.
LEMMA AcquireLooks ==
  ASSUME Types, Roles, Protected, NEW s \in Sessions, Acquire(s), SaleLooks(s)
  PROVE  SaleLooks(s)' /\ (RowsSorted(s) => RowsSorted(s)')
  <1> DEFINE t == tx[s]
             u == tx'[s]
             k == Head(t.want)
  <1>1. /\ t.want # <<>> /\ committed' = committed /\ Kept(t, u) /\ u.pc = t.pc /\ u.todo = t.todo
        /\ u.day = t.day /\ u.moves = t.moves /\ u.want = Tail(t.want) /\ u.held = t.held \cup {k}
        /\ u.rows = IF t.kind = "sale" /\ k.table = "stock" /\ Sellable(s, k.id, t.day)
                      THEN Append(t.rows, k.id) ELSE t.rows
    BY AcquireEffect
  <1> SUFFICES ASSUME t.kind = "sale" PROVE SaleLooks(s)' /\ (RowsSorted(s) => RowsSorted(s)')
    BY <1>1 DEF Kept, SaleLooks, RowsSorted
  <1>2. t.want \in Seq(LockRow) /\ t.rows \in Seq(Lots) /\ SaleWants(s) /\ SaleRole(s) /\ SaleRows(s)
    BY TxFields DEF Protected, LocksOk, Roles
  <1>3. /\ 1 \in DOMAIN t.want /\ k = t.want[1] /\ Len(t.want) \in Nat /\ DOMAIN t.want = 1..Len(t.want)
        /\ DOMAIN u.want = 1..(Len(t.want) - 1)
        /\ \A i \in DOMAIN u.want : i + 1 \in DOMAIN t.want /\ u.want[i] = t.want[i + 1]
    BY <1>1, <1>2, TailElements
  <1>4. /\ k.id \in Lots /\ lot[k.id].status # "none" /\ ItemOf[k.id] = Head(t.todo).item
        /\ k = ForUpdate("lot", k.id) \/ (k = ForUpdate("stock", k.id) /\ ForUpdate("lot", k.id) \in t.held)
    <2>1. k.id \in Lots /\ lot[k.id].status # "none" /\ ItemOf[k.id] = Head(t.todo).item
      BY <1>2, <1>3 DEF SaleRole, SaleWants, SaleLooks
    <2>2. k = ForUpdate("lot", k.id) \/ (k = ForUpdate("stock", k.id) /\ k.table = "stock")
      BY <1>2, <1>3, LockFields DEF SaleWants
    <2>3. k.table = "stock" => ForUpdate("lot", k.id) \in t.held
      BY <1>2, <1>3 DEF SaleWants
    <2> QED
      BY <2>1, <2>2, <2>3
  <1>5. \A l \in Lots : Sellable(s, l, tx[s].day)' => Sellable(s, l, tx[s].day)
    BY <1>1 DEF Sellable, Visible, committed
  <1>6. lot' = lot /\ u.kind = "sale"
    BY <1>1 DEF committed, Kept
  <1>7. /\ \A i \in DOMAIN t.rows : i \in DOMAIN u.rows /\ u.rows[i] = t.rows[i]
        /\ \A i \in DOMAIN u.rows : i \in DOMAIN t.rows
             \/ (u.rows[i] = k.id /\ \A j \in DOMAIN u.rows : j <= i)
        /\ k = ForUpdate("stock", k.id) /\ Sellable(s, k.id, t.day) => \E i \in DOMAIN u.rows : u.rows[i] = k.id
    <2>1. CASE u.rows = t.rows /\ ~(k.table = "stock" /\ Sellable(s, k.id, t.day))
      BY <2>1, LockFields
    <2>2. CASE u.rows = Append(t.rows, k.id)
      <3>1. /\ DOMAIN u.rows = 1..(Len(t.rows) + 1) /\ DOMAIN t.rows = 1..Len(t.rows) /\ Len(t.rows) \in Nat
            /\ \A i \in DOMAIN u.rows : IF i = Len(t.rows) + 1 THEN u.rows[i] = k.id
                                        ELSE i \in DOMAIN t.rows /\ u.rows[i] = t.rows[i]
        BY <1>2, <1>4, <2>2, AppendElements
      <3>2. /\ Len(t.rows) + 1 \in DOMAIN u.rows /\ \A j \in DOMAIN u.rows : j <= Len(t.rows) + 1
            /\ \A j \in DOMAIN t.rows : j \in DOMAIN u.rows /\ j # Len(t.rows) + 1
        BY <3>1
      <3> QED
        BY <3>1, <3>2
    <2> QED
      BY <1>1, <2>1, <2>2
  <1>8. SaleLooks(s)'
    <2>1. ASSUME NEW l \in Lots, ForUpdate("stock", l) \in u.held PROVE HasBoth(s, l)' /\ lot[l].status # "none"
      <3>1. CASE ForUpdate("stock", l) \in t.held
        BY <1>1, <3>1 DEF SaleLooks, HasBoth
      <3>2. CASE ForUpdate("stock", l) = k
        <4>1. l = k.id /\ k.table = "stock"
          BY <3>2, LockFields
        <4> QED
          BY <1>1, <1>4, <2>1, <4>1, LockFields DEF HasBoth
      <3> QED
        BY <1>1, <2>1, <3>1, <3>2
    <2>2. \A i \in DOMAIN u.want : lot[u.want[i].id].status # "none"
      BY <1>3 DEF SaleLooks
    <2>3. ASSUME u.pc = "take", NEW l \in Lots, ItemOf[l] = Head(u.todo).item, HasBoth(s, l)'
          PROVE  \/ \E i \in DOMAIN u.rows : u.rows[i] = l
                 \/ \E i \in DOMAIN u.want : u.want[i] = ForUpdate("stock", l)
                 \/ ~Sellable(s, l, tx[s].day)'
      <3>1. CASE k = ForUpdate("stock", l)
        <4>1. l = k.id
          BY <3>1, LockFields
        <4> QED
          BY <1>5, <1>7, <3>1, <4>1
      <3>2. CASE k # ForUpdate("stock", l)
        <4>1. HasBoth(s, l)
          BY <1>1, <2>3, <3>2 DEF SaleLooks, HasBoth
        <4>2. \/ \E i \in DOMAIN t.rows : t.rows[i] = l
              \/ \E i \in DOMAIN t.want : t.want[i] = ForUpdate("stock", l)
              \/ ~Sellable(s, l, tx[s].day)
          BY <1>1, <2>3, <4>1 DEF SaleLooks
        <4>3. ASSUME NEW i \in DOMAIN t.want, t.want[i] = ForUpdate("stock", l)
              PROVE  \E j \in DOMAIN u.want : u.want[j] = ForUpdate("stock", l)
          <5>1. i # 1
            BY <1>3, <3>2, <4>3
          <5>2. i - 1 \in DOMAIN u.want /\ (i - 1) + 1 = i
            BY <1>3, <5>1
          <5> QED
            BY <1>3, <4>3, <5>2
        <4> QED
          BY <1>5, <1>7, <4>2, <4>3
      <3> QED
        BY <3>1, <3>2
    <2> QED
      BY <1>1, <1>6, <2>1, <2>2, <2>3 DEF SaleLooks
  <1>9. ASSUME RowsSorted(s) PROVE RowsSorted(s)'
    <2> SUFFICES ASSUME u.pc = "take" PROVE RowsSorted(s)'
      BY DEF RowsSorted
    <2> USE <1>9
    <2>1. ASSUME NEW i \in DOMAIN u.want, NEW j \in DOMAIN u.want, i < j
          PROVE  lot[u.want[i].id].expiry <= lot[u.want[j].id].expiry
      <3>1. i + 1 \in DOMAIN t.want /\ j + 1 \in DOMAIN t.want /\ i + 1 < j + 1
        BY <1>3, <2>1
      <3>2. lot[t.want[i + 1].id].expiry <= lot[t.want[j + 1].id].expiry
        BY <1>1, <3>1 DEF RowsSorted
      <3> QED
        BY <1>3, <3>2
    <2>2. ASSUME NEW j \in DOMAIN u.want
          PROVE  /\ lot[k.id].expiry <= lot[u.want[j].id].expiry
                 /\ \A i \in DOMAIN t.rows : lot[t.rows[i]].expiry <= lot[u.want[j].id].expiry
      <3>1. j + 1 \in DOMAIN t.want /\ 1 < j + 1 /\ u.want[j] = t.want[j + 1]
        BY <1>3
      <3> QED
        BY <1>1, <1>3, <3>1 DEF RowsSorted
    <2>3. \A i \in DOMAIN t.rows : lot[t.rows[i]].expiry <= lot[k.id].expiry
      BY <1>1, <1>3 DEF RowsSorted
    <2>4. ASSUME NEW i \in DOMAIN u.rows, NEW j \in DOMAIN u.rows, i < j
          PROVE  lot[u.rows[i]].expiry <= lot[u.rows[j]].expiry
      <3>1. i \in DOMAIN t.rows /\ u.rows[i] = t.rows[i]
        <4>1. ~(j <= i)
          <5>1. u.rows \in Seq(Lots)
            BY <1>1, <1>2, <1>4
          <5>2. i \in Nat /\ j \in Nat
            BY <5>1
          <5> QED
            BY <2>4, <5>2
        <4> QED
          BY <1>7, <4>1
      <3>2. CASE j \in DOMAIN t.rows
        BY <1>1, <1>7, <2>4, <3>1, <3>2 DEF RowsSorted
      <3>3. CASE j \notin DOMAIN t.rows
        BY <1>7, <2>3, <3>1, <3>3
      <3> QED
        BY <3>2, <3>3
    <2>5. \A i \in DOMAIN u.rows, j \in DOMAIN u.want : lot[u.rows[i]].expiry <= lot[u.want[j].id].expiry
      BY <1>7, <2>2
    <2> QED
      BY <1>6, <2>1, <2>4, <2>5 DEF RowsSorted
  <1> QED
    BY <1>8, <1>9

\* The query of a statement finds the lots that the sale could sell, in the order of their dates.
LEMMA ReadLotsLooks ==
  ASSUME Types, Roles, NEW s \in Sessions, ReadLots(s), SaleLooks(s)
  PROVE  SaleLooks(s)' /\ RowsSorted(s)'
  <1>1. PICK item : item = Head(tx[s].todo).item
    OBVIOUS
  <1>2. PICK S : S = {l \in Lots : ItemOf[l] = item /\ Sellable(s, l, today)}
    OBVIOUS
  <1>3. /\ tx[s].kind = "sale" /\ Kept(tx[s], tx'[s]) /\ tx'[s].pc = "take" /\ tx'[s].todo = tx[s].todo
        /\ tx'[s].day = today /\ tx'[s].moves = tx[s].moves /\ tx'[s].held = tx[s].held
        /\ tx'[s].rows = <<>> /\ committed' = committed
    BY ReadLotsEffect DEF Ready
  <1>4. PICK q \in ByExpiry(S) : q \in Seq(Lots) /\ tx'[s].want = LocksOf(q)
    BY <1>1, <1>2, ReadLotsTypes
  <1>5. IsFiniteSet(S)
    BY <1>2, FiniteLots
  <1>6. /\ \A i \in DOMAIN q : q[i] \in S
        /\ \A x \in S : \E i \in DOMAIN q : q[i] = x
        /\ \A i, j \in DOMAIN q : i < j => lot[q[i]].expiry <= lot[q[j]].expiry
        /\ DOMAIN q = 1..Len(q) /\ Len(q) \in Nat
    <2>1. /\ q \in Bijection(1..Cardinality(S), S)
          /\ \A i, j \in DOMAIN q : i < j => lot[q[i]].expiry <= lot[q[j]].expiry
      BY DEF ByExpiry
    <2>2. q \in Seq(S) /\ \A x \in S : \E i \in DOMAIN q : q[i] = x
      BY <1>5, <2>1, ListedOnce
    <2> QED
      BY <2>1, <2>2
  <1>7. PICK w : w = LocksOf(q)
    OBVIOUS
  <1>8. /\ DOMAIN w = 1..(2 * Len(q))
        /\ \A i \in DOMAIN w : \/ i % 2 = 1 /\ (i + 1) \div 2 \in DOMAIN q /\ w[i] = ForUpdate("lot", q[(i + 1) \div 2])
                               \/ i % 2 = 0 /\ i \div 2 \in DOMAIN q /\ w[i] = ForUpdate("stock", q[i \div 2])
    <2>1. /\ DOMAIN LocksOf(q) = 1..(2 * Len(q))
          /\ \A i \in 1..(2 * Len(q)) :
               \/ /\ i % 2 = 1 /\ (i + 1) \div 2 \in DOMAIN q
                  /\ LocksOf(q)[i] = ForUpdate("lot", q[(i + 1) \div 2])
               \/ i % 2 = 0 /\ i \div 2 \in DOMAIN q /\ LocksOf(q)[i] = ForUpdate("stock", q[i \div 2])
      BY <1>4, LocksOfType
    <2> QED
      BY <1>7, <2>1
  <1>9. \A i \in DOMAIN w : (i + 1) \div 2 \in DOMAIN q /\ w[i].id = q[(i + 1) \div 2]
    <2> SUFFICES ASSUME NEW i \in DOMAIN w PROVE (i + 1) \div 2 \in DOMAIN q /\ w[i].id = q[(i + 1) \div 2]
      OBVIOUS
    <2>1. CASE i % 2 = 1
      BY <1>8, <2>1, LockFields
    <2>2. CASE i % 2 # 1
      <3>1. i % 2 = 0 /\ i \div 2 \in DOMAIN q /\ w[i] = ForUpdate("stock", q[i \div 2])
        BY <1>8, <2>2
      <3>2. (i + 1) \div 2 = i \div 2
        <4>1. i \in Nat
          BY <1>6, <1>8
        <4> QED
          BY <3>1, <4>1
      <3> QED
        BY <3>1, <3>2, LockFields
    <2> QED
      BY <2>1, <2>2
  <1>10. \A l \in S : lot[l].status # "none"
    BY <1>2 DEF Sellable
  <1>11. ASSUME NEW l \in S PROVE \E i \in DOMAIN w : w[i] = ForUpdate("stock", l)
    <2>1. PICK p \in DOMAIN q : q[p] = l
      BY <1>6
    <2>2. 2 * p \in DOMAIN w /\ (2 * p) % 2 = 0 /\ (2 * p) \div 2 = p
      BY <1>6, <1>8
    <2>3. w[2 * p] = ForUpdate("stock", q[(2 * p) \div 2])
      BY <1>8, <2>2
    <2> QED
      BY <2>1, <2>2, <2>3
  <1>12. tx'[s].kind = "sale" /\ lot' = lot /\ tx'[s].want = w /\ DOMAIN tx'[s].rows = {}
    BY <1>3, <1>4, <1>7 DEF Kept, committed
  <1>13. SaleLooks(s)'
    <2>1. \A l \in Lots : ForUpdate("stock", l) \in tx'[s].held => HasBoth(s, l)' /\ lot[l].status # "none"
      BY <1>3 DEF SaleLooks, HasBoth
    <2>2. \A i \in DOMAIN w : lot[w[i].id].status # "none"
      BY <1>6, <1>9, <1>10
    <2>3. ASSUME NEW l \in Lots, ItemOf[l] = Head(tx'[s].todo).item
          PROVE  (\E i \in DOMAIN w : w[i] = ForUpdate("stock", l)) \/ ~Sellable(s, l, tx[s].day)'
      <3>1. Sellable(s, l, tx[s].day)' => Sellable(s, l, today)
        BY <1>3 DEF Sellable, Visible, committed
      <3>2. l \in S \/ ~Sellable(s, l, today)
        BY <1>1, <1>2, <1>3, <2>3
      <3> QED
        BY <1>11, <3>1, <3>2
    <2> QED
      BY <1>12, <2>1, <2>2, <2>3 DEF SaleLooks
  <1>14. RowsSorted(s)'
    <2>1. ASSUME NEW i \in DOMAIN w, NEW j \in DOMAIN w, i < j PROVE lot[w[i].id].expiry <= lot[w[j].id].expiry
      <3>1. /\ (i + 1) \div 2 \in DOMAIN q /\ w[i].id = q[(i + 1) \div 2]
            /\ (j + 1) \div 2 \in DOMAIN q /\ w[j].id = q[(j + 1) \div 2]
        BY <1>9
      <3>2. (i + 1) \div 2 <= (j + 1) \div 2
        <4>1. i \in Nat /\ j \in Nat
          BY <1>6, <1>8
        <4> QED
          BY <2>1, <4>1
      <3>3. CASE (i + 1) \div 2 = (j + 1) \div 2
        <4>1. q[(i + 1) \div 2] \in Lots
          BY <1>4, <3>1
        <4>2. lot[w[i].id].expiry \in Nat
          BY <3>1, <4>1 DEF Types, LotRow
        <4> QED
          BY <3>1, <3>3, <4>2
      <3>4. CASE (i + 1) \div 2 # (j + 1) \div 2
        <4>1. (i + 1) \div 2 < (j + 1) \div 2
          BY <1>6, <3>1, <3>2, <3>4
        <4> QED
          BY <1>6, <3>1, <4>1
      <3> QED
        BY <3>3, <3>4
    <2> QED
      BY <1>12, <2>1 DEF RowsSorted
  <1> QED
    BY <1>13, <1>14

\* Once it has taken, a sale reads again.
LEMMA TakeLooks ==
  ASSUME Types, NEW s \in Sessions, Take(s), ~Rollback(s), SaleLooks(s)
  PROVE  SaleLooks(s)' /\ RowsSorted(s)'
  <1>1. /\ tx[s].kind = "sale" /\ Kept(tx[s], tx'[s]) /\ tx'[s].pc = "read" /\ tx'[s].want = <<>>
        /\ tx'[s].held = tx[s].held /\ lot' = lot
    BY TakeEffect DEF Ready, committed
  <1>2. DOMAIN tx'[s].want = {}
    BY <1>1
  <1>3. SaleLooks(s)'
    BY <1>1, <1>2 DEF SaleLooks, HasBoth
  <1> QED
    BY <1>1, <1>3 DEF RowsSorted

LEMMA LooksKept ==
  ASSUME Types, Roles, Protected, Looks, [Next]_vars
  PROVE  Looks' /\ (Expiries = {} /\ Sorted => Sorted')
  <1>1. ASSUME NEW s \in Sessions
        PROVE  SaleLooks(s)' /\ (Expiries = {} /\ RowsSorted(s) => RowsSorted(s)')
    <2>1. SaleLooks(s)
      BY DEF Looks
    <2>2. CASE tx'[s] = tx[s]
      BY <2>1, <2>2, FrameLooks
    <2>3. CASE Unread(tx'[s])
      BY <2>3, UnreadLooks
    <2>4. CASE Acquire(s)
      BY <2>1, <2>4, AcquireLooks
    <2>5. CASE ReadLots(s)
      BY <2>1, <2>5, ReadLotsLooks
    <2>6. CASE Take(s) /\ ~Rollback(s)
      BY <2>1, <2>6, TakeLooks
    <2> QED
      BY <2>2, <2>3, <2>4, <2>5, <2>6, StepsOfSale
  <1> QED
    BY <1>1 DEF Looks, Sorted

LEMMA InitLooks == Init => Looks /\ Sorted
  <1> SUFFICES ASSUME Init PROVE Looks /\ Sorted
    OBVIOUS
  <1>1. \A s \in Sessions : tx[s] = NullTx
    BY DEF Init
  <1> QED
    BY <1>1, NullTxRow DEF Looks, Sorted, SaleLooks, RowsSorted

LEMMA LooksAlways == Spec => []Looks
  <1>1. Typed /\ Protected /\ Looks /\ [Next]_vars => Looks'
    BY LooksKept DEF Typed
  <1> QED
    BY InitLooks, TypedHolds, ProtectedHolds, <1>1, PTL DEF Spec

LEMMA AmountGrows ==
  ASSUME Types, NEW s \in Sessions, NEW rows \in Seq(Lots), NEW m \in 0..Len(rows), NEW n \in 0..Len(rows), m <= n
  PROVE  Amount(s, rows, m) <= Amount(s, rows, n)
  <1>1. PICK v : v = [i \in DOMAIN rows |-> Visible(s, rows[i])]
    OBVIOUS
  <1>2. \A i \in 1..Len(rows) : v[i] \in Nat
    BY <1>1, VisibleType
  <1>3. m \in Int /\ n \in Int /\ Len(rows) \in Nat
    OBVIOUS
  <1>4. IsFiniteSet(1..n) /\ 1..m \in SUBSET (1..n) /\ \A i \in 1..n : v[i] \in Nat
    <2>1. IsFiniteSet(1..n)
      BY <1>3, FS_Interval
    <2>2. 1..m \in SUBSET (1..n) /\ \A i \in 1..n : i \in 1..Len(rows)
      BY <1>3
    <2> QED
      BY <1>2, <2>1, <2>2
  <1>5. SumFunctionOnSet(v, 1..m) <= SumFunctionOnSet(v, 1..n)
    BY <1>4, SumGrows
  <1> QED
    BY <1>1, <1>5 DEF Amount

\* When a statement takes from a lot, the lots of its item that are left with something and
\* that the sale has locked come after it among its rows.
LEMMA TakesInOrder ==
  ASSUME Types, Roles, Protected, Looks, [Next]_vars, NEW s \in Sessions, NEW a \in Lots, NEW b \in Lots,
         TakesFrom(s, b), ItemOf[a] = ItemOf[b], ForUpdate("stock", a) \in tx[s].held,
         Sellable(s, a, tx[s].day)'
  PROVE  /\ tx[s].pc = "take" /\ lot' = lot
         /\ \E i, j \in DOMAIN tx[s].rows : i <= j /\ tx[s].rows[i] = b /\ tx[s].rows[j] = a
  <1>1. tx[s].kind = "sale" /\ Len(tx'[s].moves[b]) > Len(tx[s].moves[b])
    BY DEF TakesFrom
  <1>2. tx[s].moves \in [Lots -> Seq(MovementRow)] /\ Len(tx[s].moves[b]) \in Nat
    BY TxFields
  <1>3. tx'[s].moves[b] # tx[s].moves[b] /\ tx'[s] # NullTx
    <2>1. Len(<<>>) = 0
      OBVIOUS
    <2> QED
      BY <1>1, <1>2, <2>1, NullTxRow
  <1>4. ~Acquire(s) /\ ~ReadLots(s)
    BY <1>3, AcquireEffect, ReadLotsEffect
  <1>5. Take(s) /\ ~Rollback(s)
    BY <1>1, <1>3, <1>4, StepsOfSale
  <1>6. PICK rows : rows = tx[s].rows
    OBVIOUS
  <1>7. PICK qty : qty = Head(tx[s].todo).qty
    OBVIOUS
  <1>8. /\ tx[s].pc = "take" /\ tx[s].want = <<>> /\ tx'[s].day = tx[s].day /\ lot' = lot
        /\ tx'[s].moves = [l \in Lots |-> IF TakenFrom(s, l) = 0 THEN tx[s].moves[l]
                             ELSE Append(tx[s].moves[l],
                                         Movement("xuat_ban", TakenFrom(s, l), Visible(s, l),
                                                  Visible(s, l) - TakenFrom(s, l), tx[s].target))]
    BY <1>5, TakeEffect DEF Ready, committed
  <1>9. rows \in Seq(Lots) /\ SaleRows(s) /\ DOMAIN rows = 1..Len(rows) /\ Len(rows) \in Nat
    <2>1. rows \in Seq(Lots) /\ SaleRows(s)
      BY <1>6, TxFields DEF Protected, LocksOk
    <2> QED
      BY <2>1
  <1>10. qty \in Nat /\ tx[s].todo \in Seq(Demand) /\ tx[s].todo # <<>>
    <2>1. tx[s].todo \in Seq(Demand) /\ tx[s].todo # <<>>
      BY <1>1, <1>8 DEF Roles, SaleRole
    <2>2. Head(tx[s].todo) \in Demand
      BY <2>1
    <2> QED
      BY <1>7, <2>1, <2>2 DEF Demand
  <1>11. ASSUME NEW l \in Lots, TakenFrom(s, l) # 0
         PROVE  \E i \in DOMAIN rows : rows[i] = l /\ TakenFrom(s, l) = Taken(s, rows, qty, i)
    <2>1. \E i \in DOMAIN rows : rows[i] = l
      BY <1>6, <1>11 DEF TakenFrom
    <2>2. TakenFrom(s, l) = Taken(s, rows, qty, CHOOSE i \in DOMAIN rows : rows[i] = l)
      BY <1>6, <1>7, <2>1 DEF TakenFrom
    <2> QED
      BY <2>1, <2>2
  <1>12. \A i, j \in DOMAIN rows : i # j => rows[i] # rows[j]
    BY <1>1, <1>6, <1>9 DEF SaleRows
  <1>13. ASSUME NEW i \in DOMAIN rows, NEW l \in Lots, rows[i] = l PROVE TakenFrom(s, l) = Taken(s, rows, qty, i)
    <2>1. (CHOOSE j \in DOMAIN rows : rows[j] = l) = i
      BY <1>12, <1>13
    <2> QED
      BY <1>6, <1>7, <1>13, <2>1 DEF TakenFrom
  <1>14. TakenFrom(s, b) # 0
    BY <1>3, <1>8
  <1>15. PICK i \in DOMAIN rows : rows[i] = b /\ Taken(s, rows, qty, i) # 0
    BY <1>11, <1>14
  <1>16. Visible(s, a) \in Nat /\ TakenFrom(s, a) \in Nat /\ TakenFrom(s, a) <= Visible(s, a)
    BY <1>10, VisibleType, TakenFromBounds
  \* Nothing is left in a lot from which all is taken.
  <1>17. TakenFrom(s, a) # Visible(s, a)
    <2> SUFFICES ASSUME TakenFrom(s, a) = Visible(s, a) PROVE FALSE
      OBVIOUS
    <2>1. Visible(s, a)' > 0
      BY DEF Sellable
    <2>2. CASE TakenFrom(s, a) = 0
      <3>1. tx'[s].moves[a] = tx[s].moves[a] /\ committed' = committed
        BY <1>5, <1>8, <2>2, TakeEffect
      <3>2. Visible(s, a)' = Visible(s, a)
        BY <3>1 DEF Visible, committed
      <3>3. Visible(s, a)' = 0
        BY <2>2, <3>2
      <3> QED
        BY <2>1, <3>3
    <2>3. CASE TakenFrom(s, a) # 0
      <3>1. PICK m : m = Movement("xuat_ban", TakenFrom(s, a), Visible(s, a),
                                  Visible(s, a) - TakenFrom(s, a), tx[s].target)
        OBVIOUS
      <3>2. m.after = 0
        BY <1>16, <3>1 DEF Movement
      <3>3. tx'[s].moves[a] = Append(tx[s].moves[a], m)
        BY <1>8, <2>3, <3>1
      <3>4. PICK old \in Seq(MovementRow) : old = tx[s].moves[a]
        BY <1>2
      <3>5. PICK new : new = Append(old, m)
        OBVIOUS
      <3>6. new # <<>> /\ new[Len(new)] = m
        BY <3>5
      <3>7. Visible(s, a)' = 0
        BY <3>2, <3>3, <3>4, <3>5, <3>6 DEF Visible, LastAfter
      <3> QED
        BY <2>1, <3>7
    <2> QED
      BY <2>2, <2>3
  <1>18. Sellable(s, a, tx[s].day)
    <2>1. Visible(s, a) > 0
      BY <1>16, <1>17
    <2> QED
      BY <1>8, <2>1 DEF Sellable
  <1>19. PICK j \in DOMAIN rows : rows[j] = a
    <2>1. SaleLooks(s) /\ HasBoth(s, a) /\ DOMAIN tx[s].want = {}
      BY <1>1, <1>8 DEF Looks, SaleLooks
    <2>2. ItemOf[a] = Head(tx[s].todo).item
      BY <1>1, <1>6, <1>9, <1>15 DEF SaleRows
    <2> QED
      BY <1>1, <1>6, <1>8, <1>18, <2>1, <2>2 DEF SaleLooks
  <1>20. i <= j
    <2> SUFFICES ASSUME j < i PROVE FALSE
      BY <1>9
    <2>1. PICK A : A = [n \in 0..Len(rows) |-> Amount(s, rows, n)]
      OBVIOUS
    <2>2. /\ i \in 1..Len(rows) /\ j \in 1..Len(rows) /\ j <= i - 1
          /\ i - 1 \in 0..Len(rows) /\ j - 1 \in 0..Len(rows) /\ j \in 0..Len(rows)
      BY <1>9
    <2>3. /\ Amount(s, rows, i - 1) \in Nat /\ Amount(s, rows, j - 1) \in Nat
          /\ Amount(s, rows, j) = Amount(s, rows, j - 1) + Visible(s, rows[j])
          /\ Amount(s, rows, j) <= Amount(s, rows, i - 1)
      BY <1>9, <2>2, AmountType, AmountStep, AmountGrows
    <2>4. qty > Amount(s, rows, i - 1)
      <3>1. qty <= Amount(s, rows, i - 1) => Taken(s, rows, qty, i) = 0
        BY <1>9, <1>10, <2>2, TakenBounds
      <3> QED
        BY <1>10, <1>15, <2>3, <3>1
    <2>5. Taken(s, rows, qty, j) = IF qty <= Amount(s, rows, j - 1) THEN 0
                                   ELSE IF qty - Amount(s, rows, j - 1) <= Visible(s, rows[j])
                                          THEN qty - Amount(s, rows, j - 1) ELSE Visible(s, rows[j])
      <3>1. rows \in Seq(Lots) /\ qty \in Nat /\ j \in 1..Len(rows)
        BY <1>9, <1>10, <2>2
      <3> QED
        BY <3>1, TakenBounds, Zenon
    <2>6. Taken(s, rows, qty, j) = Visible(s, rows[j])
      BY <1>10, <1>16, <1>19, <2>3, <2>4, <2>5
    <2> QED
      BY <1>13, <1>17, <1>19, <2>6
  <1> QED
    BY <1>6, <1>8, <1>15, <1>19, <1>20

\* No step of a sale takes from a lot and leaves something behind in another of the item that
\* it has locked and could sell, unless that one came later in what its query returned.
THEOREM NothingIsPassedOver ==
  Spec => [][\A s \in Sessions, a, b \in Lots :
               /\ TakesFrom(s, b) /\ ItemOf[a] = ItemOf[b] /\ ForUpdate("stock", a) \in tx[s].held
               /\ Sellable(s, a, tx[s].day)'
               => \E i, j \in DOMAIN tx[s].rows : i <= j /\ tx[s].rows[i] = b /\ tx[s].rows[j] = a]_vars
  <1>1. Typed /\ Protected /\ Looks /\ [Next]_vars =>
          [\A s \in Sessions, a, b \in Lots :
             /\ TakesFrom(s, b) /\ ItemOf[a] = ItemOf[b] /\ ForUpdate("stock", a) \in tx[s].held
             /\ Sellable(s, a, tx[s].day)'
             => \E i, j \in DOMAIN tx[s].rows : i <= j /\ tx[s].rows[i] = b /\ tx[s].rows[j] = a]_vars
    BY TakesInOrder DEF Typed
  <1> QED
    BY TypedHolds, ProtectedHolds, LooksAlways, <1>1, PTL DEF Spec

\* While managers move no dates, that order is the order of the expiry dates: first expired,
\* first out, whatever else sells, is blocked, returned or disposed of in between.
THEOREM EarliestGoesFirst == ASSUME Expiries = {} PROVE Spec => EarliestFirst
  <1>1. Typed /\ Protected /\ Looks /\ Sorted /\ [Next]_vars => Sorted'
    BY LooksKept DEF Typed
  <1>2. Typed /\ Protected /\ Looks /\ Sorted /\ [Next]_vars =>
          [\A s \in Sessions, a, b \in Lots :
             /\ TakesFrom(s, b) /\ ItemOf[a] = ItemOf[b] /\ lot[a].expiry < lot[b].expiry
             /\ ForUpdate("stock", a) \in tx[s].held
             => ~Sellable(s, a, tx[s].day)']_vars
    <2> SUFFICES ASSUME Typed, Protected, Looks, Sorted, [Next]_vars,
                        NEW s \in Sessions, NEW a \in Lots, NEW b \in Lots,
                        TakesFrom(s, b), ItemOf[a] = ItemOf[b], lot[a].expiry < lot[b].expiry,
                        ForUpdate("stock", a) \in tx[s].held, Sellable(s, a, tx[s].day)'
                 PROVE  FALSE
      OBVIOUS
    <2>1. PICK i, j \in DOMAIN tx[s].rows : i <= j /\ tx[s].rows[i] = b /\ tx[s].rows[j] = a
      BY TakesInOrder DEF Typed
    <2>2. tx[s].kind = "sale" /\ tx[s].pc = "take"
      BY TakesInOrder DEF Typed, TakesFrom
    <2>3. lot[a].expiry \in Nat /\ lot[b].expiry \in Nat /\ tx[s].rows \in Seq(Lots)
      BY TxFields DEF Typed, Types, LotRow
    <2>4. i # j
      BY <2>1, <2>3
    <2>5. i < j
      <3>1. i \in Nat /\ j \in Nat
        BY <2>3
      <3> QED
        BY <2>1, <2>4, <3>1
    <2>6. lot[b].expiry <= lot[a].expiry
      BY <2>1, <2>2, <2>5 DEF Sorted, RowsSorted
    <2> QED
      BY <2>3, <2>6
  <1> QED
    BY InitLooks, TypedHolds, ProtectedHolds, LooksAlways, <1>1, <1>2, PTL DEF Spec, EarliestFirst
=============================================================================
