------------------------------ MODULE Inventory ------------------------------
(***************************************************************************)
(* Lots, their stock, the movement ledger, and the database transactions   *)
(* that sell, restore and dispose of stock.                                *)
(*                                                                         *)
(* A transaction takes its row locks one at a time and keeps them until it *)
(* commits or rolls back; in between it sees the committed rows (READ      *)
(* COMMITTED) and its own changes.  So a transaction is a sequence of      *)
(* steps here: what it has locked, which locks it still needs, and the     *)
(* movements it has written and not committed.                             *)
(*                                                                         *)
(* A sellable item is a product variant, a gift box, or one component lot: *)
(* a gift box in a cart stands for the demands order_service makes for it, *)
(* the box itself, the variants of its recipe and its component lots.      *)
(***************************************************************************)
EXTENDS Integers, Sequences, FiniteSetsExt, Functions

CONSTANTS
  Lots,       \* lot ids, numbered in the order in which a restoration sorts them:
              \*   by table (gift boxes, components, products), then by id
  Items,      \* what can be sold
  ItemOf,     \* the item of each lot
  Orders,     \* order ids
  Sessions,   \* database sessions, each with at most one transaction
  Carts,      \* what customers order: sequences of demands [item, qty]
  Quantities, \* sizes of incoming lots
  Statuses,   \* the statuses managers give to lots; only "hoatdong" is ever asked for
  Days,       \* the calendar, numbers
  Expiries,   \* the expiry dates managers may move a lot to
  NoTarget    \* the target of an idle session

LotStatus == {"hoatdong", "tamdung", "hethan", "daxuathet"}
Demand == [item : Items, qty : Nat \ {0}]
\* Component lots write "xuat_bom" where products and boxes write "xuat_ban".
MovementType == {"nhap_hang", "xuat_ban", "tra_hang", "xuat_huy"}

ASSUME LotIds == Lots \subseteq Nat /\ ItemOf \in [Lots -> Items]
ASSUME CartsAreDemands == Carts \subseteq Seq(Demand) /\ <<>> \notin Carts
ASSUME Numbers == Quantities \subseteq Nat \ {0} /\ Days \subseteq Nat /\ Expiries \subseteq Nat
ASSUME ManagersStatuses == Statuses \subseteq LotStatus
\* The tables and the connection pool are finite.
ASSUME Finiteness == IsFiniteSet(Lots) /\ IsFiniteSet(Orders) /\ IsFiniteSet(Sessions)
ASSUME NoTargetIsNone == NoTarget \notin Orders \cup Lots

VARIABLES
  today,   \* the date
  lot,     \* lohang*: status, expiry, code; "none" before the lot is received
  stock,   \* tonkho*.so_luong_hien_tai
  sold,    \* tonkho*.so_luong_da_ban, so_luong_da_su_dung
  ledger,  \* lichsukho*: the committed movements of each lot, in order
  order,   \* whether an order is live or cancelled, and what it was for
  alloc,   \* phanbolo_chitietdonhang: the quantities each order took from each lot
  tx       \* the transaction of each session

vars == <<today, lot, stock, sold, ledger, order, alloc, tx>>

----------------------------------------------------------------------------
(* Locks                                                                   *)

\* FOR UPDATE excludes every other lock on the row, FOR KEY SHARE (which the
\* foreign key of a ledger row takes on the lot it names) only FOR UPDATE.
Lock(table, id, mode) == [table |-> table, id |-> id, mode |-> mode]
ForUpdate(table, id) == Lock(table, id, "update")
KeyShare(table, id) == Lock(table, id, "share")

NoConflict(a, b) == FALSE                                    \* mutant
Conflict(a, b) ==
  /\ a.table = b.table /\ a.id = b.id
  /\ a.mode = "update" \/ b.mode = "update"

\* A lot that has not been received.
NoLot == [status |-> "none", expiry |-> 0, code |-> 0]

\* An idle session.  target: the order or lot it is about; todo: the demands not yet
\* met, or the allocations not yet restored; want: the locks to take before its next
\* statement; rows: the lots the current statement has locked, or those restored; day,
\* seen: the date and the quantity it relies on; lot: the row it inserts.
NullTx == [kind |-> "idle", target |-> NoTarget, pc |-> "idle", cart |-> <<>>, todo |-> <<>>,
           lot |-> NoLot, want |-> <<>>, rows |-> <<>>, day |-> 0, seen |-> 0,
           moves |-> [l \in Lots |-> <<>>], held |-> {}]

Waits(s, r) ==
  /\ s # r /\ tx[s].want # <<>>
  /\ \E h \in tx[r].held : Conflict(Head(tx[s].want), h)

\* Sessions that all wait for one another.
Deadlock(S) == S # {} /\ \A s \in S : \E r \in S : Waits(s, r)

----------------------------------------------------------------------------
(* What a session sees                                                     *)

LastAfter(moves, default) == IF moves = <<>> THEN default ELSE moves[Len(moves)].after

Visible(s, l) == LastAfter(tx[s].moves[l], stock[l])

\* The rows a sale may take from: usable on the day the statement ran, not empty.
Sellable(s, l, day) ==
  /\ lot[l].status = "hoatdong"
  /\ lot[l].expiry >= day
  /\ Visible(s, l) > 0

\* The lots of S in the order the query returns them: earliest expiry first.
ById(S) == {q \in Bijection(1..Cardinality(S), S) :          \* mutant
              \A i, j \in DOMAIN q : i < j => q[i] < q[j]}
ByExpiry(S) == {q \in Bijection(1..Cardinality(S), S) :
                  \A i, j \in DOMAIN q : i < j => lot[q[i]].expiry <= lot[q[j]].expiry}

Amount(s, rows, n) == SumFunctionOnSet([i \in DOMAIN rows |-> Visible(s, rows[i])], 1..n)

Enough(s, rows, qty) == Amount(s, rows, Len(rows)) >= qty

\* How much a sale of qty takes from the i-th of its locked rows: all of it while
\* more is needed, the rest of what is needed from the last, nothing after.
Taken(s, rows, qty, i) ==
  LET need == qty - Amount(s, rows, i - 1)
  IN  IF need <= 0 THEN 0 ELSE Min({need, Visible(s, rows[i])})

\* What it takes from lot l, which is at most one of its rows.
TakenFrom(s, l) ==
  LET rows == tx[s].rows IN
  IF \E i \in DOMAIN rows : rows[i] = l
    THEN Taken(s, rows, Head(tx[s].todo).qty, CHOOSE i \in DOMAIN rows : rows[i] = l)
    ELSE 0

Movement(type, qty, before, after, o) ==
  [type |-> type, qty |-> qty, before |-> before, after |-> after, order |-> o]

Total(moves) == SumFunctionOnSet([i \in DOMAIN moves |-> moves[i].qty], DOMAIN moves)

----------------------------------------------------------------------------
(* Transactions in general                                                 *)

Init ==
  /\ today \in Days
  /\ lot = [l \in Lots |-> NoLot]
  /\ stock = [l \in Lots |-> 0]
  /\ sold = [l \in Lots |-> 0]
  /\ ledger = [l \in Lots |-> <<>>]
  /\ order = [o \in Orders |-> [status |-> "none", cart |-> <<>>]]
  /\ alloc = [o \in Orders |-> [l \in Lots |-> <<>>]]
  /\ tx = [s \in Sessions |-> NullTx]

committed == <<today, lot, stock, sold, ledger, order, alloc>>

Begin(s, t) ==
  /\ tx[s] = NullTx
  /\ tx' = [tx EXCEPT ![s] = t]
  /\ UNCHANGED committed

RollbackUnreleased(s) ==                                     \* mutant
  /\ tx' = [tx EXCEPT ![s] = [NullTx EXCEPT !.held = tx[s].held]]
  /\ UNCHANGED committed
Rollback(s) ==
  /\ tx' = [tx EXCEPT ![s] = NullTx]
  /\ UNCHANGED committed

\* Anything may fail: a lost connection, a restart, a voucher that is used up; and
\* the database ends one transaction of every deadlock.
Fail(s) == tx[s].kind # "idle" /\ Rollback(s)
VictimGoesOn(s) ==                                           \* mutant
  /\ \E S \in SUBSET Sessions : s \in S /\ Deadlock(S)
  /\ tx' = [tx EXCEPT ![s].want = <<>>, ![s].todo = <<>>, ![s].rows = <<>>, ![s].pc = "read"]
  /\ UNCHANGED committed
DeadlockVictim(s) == (\E S \in SUBSET Sessions : s \in S /\ Deadlock(S)) /\ Rollback(s)

\* A sale looks at a lot again once it has both its locks, and leaves out one that
\* changed while it waited and no longer qualifies.
QualifiedBefore(s, l) == TRUE                                \* mutant
StillQualifies(s, l) == Sellable(s, l, tx[s].day)

\* The next lock, as soon as no other session holds one in its way.
Acquire(s) ==
  LET k == Head(tx[s].want)
      joins == tx[s].kind = "sale" /\ k.table = "stock" /\ StillQualifies(s, k.id)
  IN  /\ tx[s].want # <<>>
      /\ \A r \in Sessions : ~Waits(s, r)
      /\ tx' = [tx EXCEPT ![s].want = Tail(@), ![s].held = @ \cup {k},
                          ![s].rows = IF joins THEN Append(@, k.id) ELSE @]
      /\ UNCHANGED committed

\* A session runs its next statement once it has the locks of the last one.
Ready(s, kind, pc) == tx[s].kind = kind /\ tx[s].pc = pc /\ tx[s].want = <<>>

\* Its movements become the committed stock and the end of the ledger.
Post(s) ==
  /\ stock' = [l \in Lots |-> Visible(s, l)]
  /\ ledger' = [l \in Lots |-> ledger[l] \o tx[s].moves[l]]
  /\ tx' = [tx EXCEPT ![s] = NullTx]

----------------------------------------------------------------------------
(* Selling                                                                 *)

\* create_order.  Nobody else sees the row of the new order.
BeginSale(s, o, cart) ==
  /\ order[o].status = "none"
  /\ \A r \in Sessions : tx[r].target # o
  /\ Begin(s, [NullTx EXCEPT !.kind = "sale", !.target = o, !.pc = "read",
                             !.cart = cart, !.todo = cart, !.seen = today])

\* The SELECT ... FOR UPDATE of the next demand finds its rows, then locks them in
\* this order, each lot before its stock.
ReadLots(s) ==
  /\ Ready(s, "sale", "read") /\ tx[s].todo # <<>>
  /\ \E q \in ByExpiry({l \in Lots : /\ ItemOf[l] = Head(tx[s].todo).item
                                     /\ Sellable(s, l, today)}) :
       tx' = [tx EXCEPT ![s].pc = "take", ![s].day = today, ![s].rows = <<>>,
                        ![s].want = [i \in 1..(2 * Len(q)) |->
                          IF i % 2 = 1 THEN ForUpdate("lot", q[(i + 1) \div 2])
                                       ELSE ForUpdate("stock", q[i \div 2])]]
  /\ UNCHANGED committed

\* With its rows locked the demand is met from them, earliest first, or the sale fails.
Take(s) ==
  LET qty == Head(tx[s].todo).qty
      taken == [l \in Lots |-> TakenFrom(s, l)]
      Sale(l) == Movement("xuat_ban", taken[l], Visible(s, l), Visible(s, l) - taken[l], tx[s].target)
      moves == [l \in Lots |-> IF taken[l] = 0 THEN tx[s].moves[l]
                                              ELSE Append(tx[s].moves[l], Sale(l))]
  IN  /\ Ready(s, "sale", "take")
      /\ \/ ~Enough(s, tx[s].rows, qty) /\ Rollback(s)
         \/ /\ Enough(s, tx[s].rows, qty)
            /\ tx' = [tx EXCEPT ![s].pc = "read", ![s].todo = Tail(@), ![s].rows = <<>>,
                                ![s].moves = moves]
            /\ UNCHANGED committed

CommitSale(s) ==
  LET o == tx[s].target
      moves == tx[s].moves
  IN  /\ Ready(s, "sale", "read") /\ tx[s].todo = <<>>
      /\ Post(s)
      /\ sold' = [l \in Lots |-> sold[l] + Total(moves[l])]
      /\ order' = [order EXCEPT ![o] = [status |-> "live", cart |-> tx[s].cart]]
      /\ alloc' = [alloc EXCEPT ![o] = [l \in Lots |-> [i \in DOMAIN moves[l] |-> moves[l][i].qty]]]
      /\ UNCHANGED <<today, lot>>

----------------------------------------------------------------------------
(* Cancelling                                                              *)

\* The owner, a manager, the sweep or the agent cancels; two of them may meet.
BeginCancel(s, o) ==
  /\ order[o].status # "none"
  /\ Begin(s, [NullTx EXCEPT !.kind = "cancel", !.target = o, !.pc = "check",
                             !.want = <<ForUpdate("order", o)>>])

\* The allocations of an order, each a lot and a position, in the order of the lots.
InOrderOfSale(P) == Bijection(1..Cardinality(P), P)          \* mutant
InOrderOfLots(P) == {q \in Bijection(1..Cardinality(P), P) :
                       \A i, j \in DOMAIN q : i < j => q[i][1] <= q[j][1]}

\* An order that is paid or on its way is refused too (module OrderPayments): as far as
\* the stock goes, that transaction fails.
RestorableAgain(o) == TRUE                                   \* mutant
Restorable(o) == order[o].status = "live"

\* The stock rows are locked one by one.
NextToRestore(pieces) ==
  IF pieces = <<>> THEN <<>> ELSE <<ForUpdate("stock", Head(pieces)[1])>>

CheckCancel(s) ==
  LET o == tx[s].target IN
  /\ Ready(s, "cancel", "check")
  /\ \/ ~Restorable(o) /\ Rollback(s)
     \/ /\ Restorable(o)
        /\ \E q \in InOrderOfLots(UNION {{l} \X DOMAIN alloc[o][l] : l \in Lots}) :
             tx' = [tx EXCEPT ![s].pc = "restore", ![s].todo = q, ![s].want = NextToRestore(q)]
        /\ UNCHANGED committed

\* What one allocation took goes back.
Restore(s) ==
  LET piece == Head(tx[s].todo)
      l == piece[1]
      n == alloc[tx[s].target][l][piece[2]]
  IN  /\ Ready(s, "cancel", "restore") /\ tx[s].todo # <<>>
      /\ tx' = [tx EXCEPT ![s].todo = Tail(@), ![s].want = NextToRestore(Tail(tx[s].todo)),
                          ![s].rows = Append(@, l),
                          ![s].moves[l] = Append(@, Movement("tra_hang", n, Visible(s, l),
                                                             Visible(s, l) + n, tx[s].target))]
      /\ UNCHANGED committed

\* The flush: the new ledger rows lock the lots they name.
WriteLedger(s) ==
  /\ Ready(s, "cancel", "restore") /\ tx[s].todo = <<>>
  /\ tx' = [tx EXCEPT ![s].pc = "commit",
                      ![s].want = [i \in DOMAIN tx[s].rows |-> KeyShare("lot", tx[s].rows[i])]]
  /\ UNCHANGED committed

CommitCancel(s) ==
  LET moves == tx[s].moves
  IN  /\ Ready(s, "cancel", "commit")
      /\ Post(s)
      /\ sold' = [l \in Lots |-> Max({sold[l] - Total(moves[l]), 0})]
      /\ order' = [order EXCEPT ![tx[s].target].status = "cancelled"]
      /\ UNCHANGED <<today, lot, alloc>>

----------------------------------------------------------------------------
(* Lots                                                                    *)

\* The number that ends the code of the next lot of an item: one more than the highest
\* there is.  A code that is typed in, like a suggestion of some time ago, is refused at
\* once when it is taken, and is no different from this one when it is not.
_next_lot_code(item) == 1 + Max({0} \cup {lot[k].code : k \in {k \in Lots : ItemOf[k] = item}})

\* create_batch, with an expiry date not before today.  The insertion waits for another
\* one that has just chosen the same code: the entry of the code in the unique index is
\* a lock as good as any.  Ids come from a sequence, so lots get them in order.
BeginReceive(s, l, n, new) ==
  LET code == _next_lot_code(ItemOf[l]) IN
  /\ lot[l] = NoLot
  /\ new.expiry >= today
  /\ \A r \in Sessions : tx[r].target # l
  /\ \A k \in Lots : ItemOf[k] = ItemOf[l] /\ k < l =>
       lot[k] # NoLot \/ \E r \in Sessions : tx[r].target = k
  /\ Begin(s, [NullTx EXCEPT !.kind = "receive", !.target = l, !.pc = "insert", !.seen = n,
                             !.lot = [status |-> new.status, expiry |-> new.expiry, code |-> code],
                             !.want = <<ForUpdate(ItemOf[l], code)>>])

\* The unique index refuses the second lot of a code: a 500 for whoever waited.
CodeTaken(s) ==
  \E k \in Lots : ItemOf[k] = ItemOf[tx[s].target] /\ lot[k].code = tx[s].lot.code

CommitReceive(s) ==
  LET l == tx[s].target
      n == tx[s].seen
  IN  /\ Ready(s, "receive", "insert")
      /\ \/ CodeTaken(s) /\ Rollback(s)
         \/ /\ ~CodeTaken(s)
            /\ lot' = [lot EXCEPT ![l] = tx[s].lot]
            /\ stock' = [stock EXCEPT ![l] = n]
            /\ ledger' = [ledger EXCEPT ![l] = <<Movement("nhap_hang", n, 0, n, NoTarget)>>]
            /\ tx' = [tx EXCEPT ![s] = NullTx]
            /\ UNCHANGED <<today, sold, order, alloc>>

\* update_batch changes the status or the expiry date of a lot, one UPDATE of one row;
\* it waits for a sale or a disposal that has locked the lot.
UpdateBatch(l, new) ==
  /\ lot[l] # NoLot
  /\ new.expiry # lot[l].expiry => new.expiry >= today
  /\ \A s \in Sessions : ForUpdate("lot", l) \notin tx[s].held
  /\ lot' = [lot EXCEPT ![l] = new]
  /\ UNCHANGED <<today, stock, sold, ledger, order, alloc, tx>>

\* dispose_expired: a manager confirms the quantity seen on the screen.
BeginDispose(s, l) ==
  /\ stock[l] > 0
  /\ Begin(s, [NullTx EXCEPT !.kind = "dispose", !.target = l, !.pc = "check", !.seen = stock[l],
                             !.want = <<ForUpdate("lot", l), ForUpdate("stock", l)>>])

QuantityAsSeen(s) == TRUE                                    \* mutant
QuantityUnchanged(s) == stock[tx[s].target] = tx[s].seen

CommitDispose(s) ==
  LET l == tx[s].target
      may == lot[l].expiry < today /\ stock[l] > 0 /\ QuantityUnchanged(s)
  IN  /\ Ready(s, "dispose", "check")
      /\ \/ ~may /\ Rollback(s)
         \/ /\ may
            /\ stock' = [stock EXCEPT ![l] = 0]
            /\ ledger' = [ledger EXCEPT ![l] =
                            Append(@, Movement("xuat_huy", stock[l], stock[l], 0, NoTarget))]
            /\ lot' = [lot EXCEPT ![l].status = "hethan"]
            /\ tx' = [tx EXCEPT ![s] = NullTx]
            /\ UNCHANGED <<today, sold, order, alloc>>

Midnight ==
  /\ today + 1 \in Days
  /\ today' = today + 1
  /\ UNCHANGED <<lot, stock, sold, ledger, order, alloc, tx>>

----------------------------------------------------------------------------
(* What the pages show                                                     *)

\* What the page of a product offers of an item, customers and Leafie alike.
sellable_stock(item) ==
  SumFunctionOnSet(stock, {l \in Lots : /\ ItemOf[l] = item
                                        /\ lot[l].status = "hoatdong" /\ lot[l].expiry >= today})

\* The movements of one of the types for one of the orders, at their places in a ledger.
Filtered(moves, types, orders) ==
  [i \in {i \in DOMAIN moves : moves[i].type \in types /\ moves[i].order \in orders} |-> moves[i]]

\* The trace of a lot, which the back office audits by: how it stands, the movements of
\* its ledger, which can be filtered by type and by order, and what orders took of it.
_batch_metadata(l) ==
  [batch_code |-> <<ItemOf[l], lot[l].code>>, current_quantity |-> stock[l], sold_or_used_quantity |-> sold[l],
   expires_at |-> lot[l].expiry, status |-> lot[l].status]

get_inventory_ledger(l, types, orders) == Filtered(ledger[l], types, orders)

get_batch_trace(l) ==
  [batch |-> _batch_metadata(l),
   movements |-> get_inventory_ledger(l, MovementType, Orders \cup {NoTarget}),
   allocations |-> [o \in Orders |-> alloc[o][l]]]

----------------------------------------------------------------------------
Step(s) ==
  \/ Acquire(s)
  \/ ReadLots(s) \/ Take(s) \/ CommitSale(s)
  \/ CheckCancel(s) \/ Restore(s) \/ WriteLedger(s) \/ CommitCancel(s)
  \/ CommitDispose(s) \/ CommitReceive(s)

Next ==
  \/ \E s \in Sessions : Step(s) \/ Fail(s) \/ DeadlockVictim(s)
  \/ \E s \in Sessions, o \in Orders, cart \in Carts : BeginSale(s, o, cart)
  \/ \E s \in Sessions, o \in Orders : BeginCancel(s, o)
  \/ \E s \in Sessions, l \in Lots : BeginDispose(s, l)
  \/ \E s \in Sessions, l \in Lots, n \in Quantities, st \in Statuses, e \in Days :
       BeginReceive(s, l, n, [status |-> st, expiry |-> e])
  \/ \E l \in Lots : \E st \in Statuses, e \in Expiries \cup {lot[l].expiry} :
       UpdateBatch(l, [status |-> st, expiry |-> e, code |-> lot[l].code])
  \/ Midnight

\* A session runs on, its waits end in the order in which they began (the lock queue of
\* the database is fair), and the database breaks every deadlock.
Fairness ==
  \A s \in Sessions : SF_vars(Step(s)) /\ WF_vars(DeadlockVictim(s))

Spec == Init /\ [][Next]_vars
FairSpec == Spec /\ Fairness

----------------------------------------------------------------------------
(* Properties                                                              *)

MovementRow == [type : MovementType, qty : Nat \ {0}, before : Nat, after : Nat,
                order : Orders \cup {NoTarget}]

\* The types of the tables; stock is never negative.
TypeOK ==
  /\ today \in Days
  /\ \A l \in Lots : /\ lot[l].status \in LotStatus \cup {"none"} /\ lot[l].expiry \in Nat
                      /\ stock[l] \in Nat /\ sold[l] \in Nat
                      /\ \A i \in DOMAIN ledger[l] : ledger[l][i] \in MovementRow
  /\ \A o \in Orders : /\ order[o].status \in {"none", "live", "cancelled"}
                        /\ \A l \in Lots : alloc[o][l] \in Seq(Nat \ {0})
  /\ \A s \in Sessions : /\ tx[s].kind \in {"idle", "sale", "cancel", "dispose", "receive"}
                          /\ \A l \in Lots : \A i \in DOMAIN tx[s].moves[l] :
                               tx[s].moves[l][i] \in MovementRow

Moved(l, type) == Total(get_inventory_ledger(l, {type}, Orders \cup {NoTarget}))
Allocated(o, l) == SumFunctionOnSet(alloc[o][l], DOMAIN alloc[o][l])
LiveOn(l) == SumFunctionOnSet([o \in Orders |-> Allocated(o, l)], {o \in Orders : order[o].status = "live"})

\* Nothing is sold twice and nothing gets lost: what came in of a lot is in stock,
\* with a live order, or was disposed of, and the sold counter is what live orders
\* hold, so its clamp at zero (order_service.py:609,631,653) never hides anything.
StockConserved ==
  \A l \in Lots : LET b == _batch_metadata(l) IN
    /\ Moved(l, "nhap_hang") = b.current_quantity + LiveOn(l) + Moved(l, "xuat_huy")
    /\ b.sold_or_used_quantity = LiveOn(l)

\* The ledger is the history of the stock: each movement starts where the one before
\* it ended, whichever sessions made them, and the last one ends at today's stock.
LedgerChain ==
  \A l \in Lots :
    /\ \A i \in DOMAIN ledger[l] : LET m == ledger[l][i] IN
         /\ m.before = IF i = 1 THEN 0 ELSE ledger[l][i - 1].after
         /\ m.after = IF m.type \in {"nhap_hang", "tra_hang"} THEN m.before + m.qty
                                                             ELSE m.before - m.qty
    /\ stock[l] = LastAfter(ledger[l], 0)

\* However many actors cancel an order, and whatever fails on the way, it gives back
\* exactly what it took, once (order_service.py:586-690): the trace of a lot shows for
\* every order a sale of what it was allocated and, if it is cancelled, its return.
RestoredOnce ==
  \A l \in Lots : LET t == get_batch_trace(l) IN
    \A o \in Orders :
      LET For(type) == Total(Filtered(t.movements, {type}, {o}))
          taken == SumFunctionOnSet(t.allocations[o], DOMAIN t.allocations[o])
      IN  /\ For("xuat_ban") = taken
          /\ For("tra_hang") = IF order[o].status = "cancelled" THEN taken ELSE 0

\* No two lots of an item have one code, however many are received at the same time: a
\* code that is scanned or searched for leads to one lot.
OneLotPerCode ==
  \A k, l \in {l \in Lots : lot[l] # NoLot} :
    k # l => _batch_metadata(k).batch_code # _batch_metadata(l).batch_code

\* The three books agree after any crossing of transactions: the stock and its
\* counters, the ledger, and what each order took and gave back; and the trace that
\* shows them (inventory_trace_service.py:241-281) is that of one lot.
StockAccounted == TypeOK /\ StockConserved /\ LedgerChain /\ RestoredOnce /\ OneLotPerCode

Demanded(cart, item) ==
  SumFunctionOnSet([i \in DOMAIN cart |-> cart[i].qty], {i \in DOMAIN cart : cart[i].item = item})

\* An order is allocated wholly or not at all, item by item: no transaction that stops
\* half way leaves an order with some of its goods.
OrderWhole ==
  \A o \in Orders, item \in Items :
    SumFunctionOnSet([l \in Lots |-> Allocated(o, l)], {l \in Lots : ItemOf[l] = item})
      = Demanded(order[o].cart, item)

Sells(s, l) == tx[s].kind = "sale" /\ tx[s].moves[l] # <<>>

\* No sale takes from a lot that a manager has blocked or that had expired when the
\* sale began, not even if that changed while the sale waited for the lot.
NothingBlockedIsSold ==
  \A s \in Sessions, l \in Lots :
    Sells(s, l) => lot[l].status = "hoatdong" /\ lot[l].expiry >= tx[s].seen

\* A sale that holds its lots finds no more in them than the page of the item offers that
\* day: the two queries, one in SQL for the page and one for the sale, agree.
OfferCoversSales ==
  \A s \in Sessions :
    Ready(s, "sale", "take") /\ tx[s].day = today =>
      Amount(s, tx[s].rows, Len(tx[s].rows)) <= sellable_stock(Head(tx[s].todo).item)

\* What is sold is on offer (availability.py:11-29): not blocked, not expired, and of
\* what the pages show, however long the sale waited for its locks.
OnlyOfferedIsSold == NothingBlockedIsSold /\ OfferCoversSales

TakesFrom(s, l) == tx[s].kind = "sale" /\ Len(tx'[s].moves[l]) > Len(tx[s].moves[l])

\* First expired, first out (order_service.py:320-322): no step of a sale takes from a
\* lot and leaves something behind in an earlier lot of the item that it has locked
\* and could sell.  So it is as long as no date is moved between the sort of a sale and
\* its locks; the instance that checks it moves none.
EarliestFirst ==
  [][\A s \in Sessions, a, b \in Lots :
       /\ TakesFrom(s, b) /\ ItemOf[a] = ItemOf[b] /\ lot[a].expiry < lot[b].expiry
       /\ ForUpdate("stock", a) \in tx[s].held
       => ~Sellable(s, a, tx[s].day)']_vars

\* What a manager disposes of is what was on the screen, all that there is of a lot that
\* is expired now: a return that comes in between, or a date that is moved while the
\* request waits for the lot, makes it fail (batch_service.py:393-398).
DisposedAsSeen ==
  [][\A s \in Sessions, l \in Lots :
       tx[s].kind = "dispose" /\ Len(ledger'[l]) > Len(ledger[l]) /\ tx'[s] = NullTx
         /\ ledger'[l][Len(ledger'[l])].type = "xuat_huy"
       => /\ ledger'[l][Len(ledger'[l])].qty = tx[s].seen
          /\ stock[l] = tx[s].seen /\ stock'[l] = 0
          /\ lot[l].expiry < today]_vars

\* Cancellations never deadlock with each other, because they all lock stock in the
\* order of the lots (order_service.py:598).  Sales, which lock in the order of their
\* carts, do, and a cancellation can with a sale or a disposal.
CancellationsNeverDeadlock ==
  ~\E S \in SUBSET {s \in Sessions : tx[s].kind = "cancel"} : Deadlock(S)

\* Every transaction ends: nobody waits for ever for a lock.
TransactionsEnd == \A s \in Sessions : tx[s].kind # "idle" ~> tx[s].kind = "idle"

----------------------------------------------------------------------------
(* The contract this implements                                            *)

Phases == [o \in Orders |-> order[o].status]
Held(o, l) == IF order[o].status = "live" THEN Allocated(o, l) ELSE 0
Holdings == [o \in Orders |-> [l \in Lots |-> Held(o, l)]]

Contract == INSTANCE StockContract WITH phase <- Phases, reserved <- Holdings

\* To a reader of the committed rows every transaction is one step: it reserves,
\* returns, receives or discards stock as a whole, or does nothing.
KeepsStockContract == Contract!StockSpec
============================================================================
