------------------------------ MODULE Checkout ------------------------------
(***************************************************************************)
(* The storefront's checkout: the attempt a browser keeps until it knows   *)
(* what became of it, the requests its tabs send, and the server, which    *)
(* makes one order per key and redeems vouchers for it.                    *)
(*                                                                         *)
(* A request on the server is one transaction: the lock of the customer,   *)
(* the look for an earlier order of the key, the lock and the check of     *)
(* each voucher, one commit.  A cancellation locks its order and then its  *)
(* vouchers.  Stock is another module's (Inventory): here a checkout may   *)
(* find none.  Managers edit vouchers, and put goods on sale or withdraw   *)
(* them, whatever is in a cart.                                            *)
(***************************************************************************)
EXTENDS Integers, FiniteSets

CONSTANTS
  Customers,
  Tabs,        \* open checkout pages
  Owner,       \* the customer of each tab
  Keys,        \* the UUIDs that browsers draw, in this order
  Requests,    \* slots for the requests under way, numbers: the first free one is taken
  Orders,      \* order ids, in the order of the sequence
  Vouchers,    \* voucher ids, numbers
  Limits,      \* what managers choose for gioi_han_su_dung; zero is no limit
  Personal,    \* gioi_han_nguoi_dung of each voucher; zero is no limit
  Goods,       \* variants and gift boxes
  Basket,      \* what each key was drawn to buy
  NoCustomer, NoKey, NoOrder, NoTab, NoCode,
  MaxFaults    \* bound of this model: lost messages and failed transactions

ASSUME TabsOwned == Owner \in [Tabs -> Customers]
ASSUME Numbered ==
  Keys \cup Requests \cup Orders \cup Vouchers \subseteq Nat
ASSUME VoucherLimits == Limits \subseteq Nat /\ Personal \in [Vouchers -> Nat]
ASSUME Baskets == Basket \in [Keys -> SUBSET Goods]
ASSUME Absent ==
  /\ NoCustomer \notin Customers /\ NoKey \notin Keys /\ NoOrder \notin Orders
  /\ NoTab \notin Tabs /\ NoCode \notin Vouchers
ASSUME OrdersFinite == IsFiniteSet(Orders)
ASSUME FaultBound == MaxFaults \in Nat

VARIABLES
  attempt,  \* what each key was drawn for: customer and voucher code
  stored,   \* the key in each customer's localStorage
  page,     \* what each tab shows
  req,      \* the requests: key, waiting tab, progress, vouchers locked
  checkout, \* checkout_requests: the order of each key
  order,    \* donhang: status and key
  voucher,  \* phieugiamgia: used, limit, active
  onSale,   \* the goods whose dang_hoat_dong is set
  cancel,   \* the cancellation at work on each order: whether, and vouchers locked
  known,    \* history: keys whose order a tab was told
  refused,  \* history: keys a tab was told to give up
  faults

vars == <<attempt, stored, page, req, checkout, order, voucher, onSale, cancel, known, refused,
          faults>>
browser == <<attempt, stored, page, known, refused>>
database == <<checkout, order, voucher, onSale, cancel>>

NullAttempt == [customer |-> NoCustomer, code |-> NoCode]
NullRequest == [pc |-> "idle", key |-> NoKey, tab |-> NoTab, held |-> {}]
NullCancel == [on |-> FALSE, held |-> {}]

Init ==
  /\ attempt = [k \in Keys |-> NullAttempt]
  /\ stored = [u \in Customers |-> NoKey]
  /\ page = [t \in Tabs |-> "ready"]
  /\ req = [r \in Requests |-> NullRequest]
  /\ checkout = [k \in Keys |-> NoOrder]
  /\ order = [o \in Orders |-> [status |-> "none", key |-> NoKey]]
  /\ \E n \in [Vouchers -> Limits] :
       voucher = [v \in Vouchers |-> [used |-> 0, limit |-> n[v], active |-> TRUE]]
  /\ onSale = Goods
  /\ cancel = [o \in Orders |-> NullCancel]
  /\ known = {} /\ refused = {}
  /\ faults = 0

Fault == faults < MaxFaults /\ faults' = faults + 1

----------------------------------------------------------------------------
(* The browser                                                             *)

\* getOrCreateCheckoutAttempt: the stored attempt, whatever the form says now, or a
\* new one, stored before anything is sent.  A Web Lock makes the tabs take turns.
Attempt(u, k) ==
  \/ /\ k = stored[u]
     /\ UNCHANGED <<attempt, stored>>
  \/ /\ stored[u] = NoKey
     /\ \A j \in Keys : attempt[j] # NullAttempt <=> j < k
     /\ \E v \in Vouchers \cup {NoCode} :
          attempt' = [attempt EXCEPT ![k] = [customer |-> u, code |-> v]]
     /\ stored' = [stored EXCEPT ![u] = k]

\* handleSubmit, up to the request; submittingRef keeps a second click out.
Submit(t, r, k) ==
  /\ page[t] = "ready"
  /\ \A q \in Requests : q <= r => (req[q] = NullRequest <=> q = r)
  /\ Attempt(Owner[t], k)
  /\ req' = [req EXCEPT ![r] = [pc |-> "sent", key |-> k, tab |-> t, held |-> {}]]
  /\ page' = [page EXCEPT ![t] = "waiting"]
  /\ UNCHANGED <<database, known, refused, faults>>

\* isDefinitiveCheckoutRejection.  "invalid" is a 400, "missing" a 404, "error" any
\* other answer or none.
AnyRefusal(answer) == answer # "ok"                          \* mutant
NothingDefinitive(answer) == FALSE                           \* mutant
Definitive(answer) == answer = "invalid"

\* The answer reaches its tab.  After any failure the button is enabled again, but
\* submittingRef is not reset: the tab is stuck until it is loaded again.
Receive(r) ==
  LET t == req[r].tab
      u == Owner[t]
      k == req[r].key
      answer == req[r].pc
  IN  /\ answer \in {"ok", "invalid", "missing", "error"} /\ t # NoTab
      /\ page' = [page EXCEPT ![t] = IF answer = "ok" THEN "done" ELSE "stuck"]
      /\ stored' = IF (answer = "ok" \/ Definitive(answer)) /\ stored[u] = k
                     THEN [stored EXCEPT ![u] = NoKey] ELSE stored
      /\ known' = IF answer = "ok" THEN known \cup {k} ELSE known
      /\ refused' = IF answer = "invalid" THEN refused \cup {k} ELSE refused
      /\ req' = [req EXCEPT ![r] = NullRequest]
      /\ UNCHANGED <<attempt, database, faults>>

\* Nobody waits for this answer any more.
Discard(r) ==
  /\ req[r].pc \in {"ok", "invalid", "missing", "error"} /\ req[r].tab = NoTab
  /\ req' = [req EXCEPT ![r] = NullRequest]
  /\ UNCHANGED <<browser, database, faults>>

\* The connection breaks; the request may be on the server, and goes on there.
Disconnect(r) ==
  /\ req[r].tab # NoTab /\ Fault
  /\ req' = [req EXCEPT ![r].tab = NoTab]
  /\ page' = [page EXCEPT ![req[r].tab] = "stuck"]
  /\ UNCHANGED <<attempt, stored, known, refused, database>>

\* The page is opened again, for the attempt that is stored or for a new one.
Reload(t) ==
  /\ page[t] \in {"stuck", "done"}
  /\ page' = [page EXCEPT ![t] = "ready"]
  /\ UNCHANGED <<attempt, stored, known, refused, req, database, faults>>

----------------------------------------------------------------------------
(* The server                                                              *)

Used(o) == {attempt[order[o].key].code} \ {NoCode}
Customer(r) == attempt[req[r].key].customer
Code(r) == attempt[req[r].key].code

InTransaction(r) == req[r].pc \in {"locked", "creating", "priced"}
HeldByOthers(v, r) == \E s \in Requests \ {r} : v \in req[s].held
HeldByCancel(v) == \E o \in Orders : v \in cancel[o].held
Unlocked(v, r) == TRUE                                       \* mutant
Free(v, r) == ~HeldByOthers(v, r) /\ ~HeldByCancel(v)

\* The request gets on, with these vouchers locked.
Goes(r, pc, held) ==
  req' = [req EXCEPT ![r] = [pc |-> pc, key |-> @.key, tab |-> @.tab, held |-> held]]

\* The transaction ends with this answer; its locks go.
Answer(r, answer) == Goes(r, answer, {})

\* SELECT ... FOR UPDATE of the customer's row.
CustomerFree(r) == \A s \in Requests : InTransaction(s) => Customer(s) # Customer(r)

LockCustomer(r) ==
  /\ req[r].pc = "sent" /\ CustomerFree(r)
  /\ Goes(r, "locked", {})
  /\ UNCHANGED <<browser, database, faults>>

\* The key has an order: it is answered again, once its row can be locked.
Replay(r) ==
  LET o == checkout[req[r].key] IN
  /\ req[r].pc = "locked" /\ o # NoOrder
  /\ ~cancel[o].on
  /\ Answer(r, "ok")
  /\ UNCHANGED <<browser, database, faults>>

\* The key has none.  The items are read without a lock, and one that is not on sale is
\* not found; stock is allocated, or there is not enough.
OnSale(k) == Basket[k] \subseteq onSale

Create(r) ==
  /\ req[r].pc = "locked" /\ checkout[req[r].key] = NoOrder
  /\ \/ OnSale(req[r].key) /\ Goes(r, IF Code(r) = NoCode THEN "priced" ELSE "creating", {})
     \/ ~OnSale(req[r].key) /\ Answer(r, "missing")
     \/ Answer(r, "invalid")
  /\ UNCHANGED <<browser, database, faults>>

Redeemed(v, u) == {o \in Orders : /\ order[o].status # "none"
                                  /\ attempt[order[o].key].customer = u
                                  /\ v \in Used(o)}
HasUses(v) == voucher[v].limit > 0 => voucher[v].used < voucher[v].limit
MayUse(v, u) == Personal[v] > 0 => Cardinality(Redeemed(v, u)) < Personal[v]

\* validate_and_apply_voucher: the row is locked if it is active, then checked.
Redeem(r) ==
  LET v == Code(r) IN
  /\ req[r].pc = "creating"
  /\ \/ /\ ~voucher[v].active
        /\ Answer(r, "missing")
     \/ /\ voucher[v].active /\ Free(v, r)
        /\ IF HasUses(v) /\ MayUse(v, Customer(r))
             THEN Goes(r, "priced", {v})
             ELSE Answer(r, "invalid")
  /\ UNCHANGED <<browser, database, faults>>

\* Order, voucher use and key are written and committed together.
CommitOrderFirst(r) ==                                       \* mutant
  /\ req[r].pc = "priced"
  /\ \E o \in Orders :
       /\ \A p \in Orders : order[p].status # "none" <=> p < o
       /\ order' = [order EXCEPT ![o] = [status |-> "live", key |-> req[r].key]]
       /\ voucher' = [v \in Vouchers |-> [voucher[v] EXCEPT !.used =
                        IF v \in req[r].held THEN @ + 1 ELSE @]]
       /\ \/ checkout' = [checkout EXCEPT ![req[r].key] = o] /\ Answer(r, "ok")
          \/ checkout' = checkout /\ Answer(r, "error")
  /\ UNCHANGED <<browser, onSale, cancel, faults>>
Commit(r) ==
  LET k == req[r].key IN
  /\ req[r].pc = "priced"
  /\ \/ /\ checkout[k] = NoOrder
        /\ \E o \in Orders :
             /\ \A p \in Orders : order[p].status # "none" <=> p < o
             /\ order' = [order EXCEPT ![o] = [status |-> "live", key |-> k]]
             /\ checkout' = [checkout EXCEPT ![k] = o]
        /\ voucher' = [v \in Vouchers |-> [voucher[v] EXCEPT !.used =
                         IF v \in req[r].held THEN @ + 1 ELSE @]]
        /\ Answer(r, "ok")
     \/ /\ checkout[k] # NoOrder     \* uq_checkout_user_key
        /\ Answer(r, "error")
        /\ UNCHANGED <<checkout, order, voucher>>
  /\ UNCHANGED <<browser, onSale, cancel, faults>>

\* The request gets lost, is turned away by the admission middleware, or fails: the
\* database goes away, the server restarts.  Its transaction is rolled back.
Fail(r) ==
  /\ (req[r].pc = "sent" \/ InTransaction(r)) /\ Fault
  /\ Answer(r, "error")
  /\ UNCHANGED <<browser, database>>

----------------------------------------------------------------------------
(* Cancellations and managers                                              *)

BeginCancel(o) ==
  /\ order[o].status = "live" /\ ~cancel[o].on
  /\ cancel' = [cancel EXCEPT ![o].on = TRUE]
  /\ UNCHANGED <<browser, req, checkout, order, voucher, onSale, faults>>

\* _restore_voucher_usage locks the voucher of the order.
LockVoucher(o) ==
  /\ cancel[o].on
  /\ \E v \in Used(o) \ cancel[o].held :
       /\ \A r \in Requests : v \notin req[r].held
       /\ ~HeldByCancel(v)
       /\ cancel' = [cancel EXCEPT ![o].held = @ \cup {v}]
  /\ UNCHANGED <<browser, req, checkout, order, voucher, onSale, faults>>

UseReturned(n) == IF n > 0 THEN n - 1 ELSE 0

CommitCancel(o) ==
  /\ cancel[o].on /\ cancel[o].held = Used(o)
  /\ order' = [order EXCEPT ![o].status = "cancelled"]
  /\ voucher' = [v \in Vouchers |-> [voucher[v] EXCEPT !.used =
                   IF v \in Used(o) THEN UseReturned(@) ELSE @]]
  /\ cancel' = [cancel EXCEPT ![o] = NullCancel]
  /\ UNCHANGED <<browser, req, checkout, onSale, faults>>

\* It is refused (the order holds money, module OrderPayments) or fails.
FailCancel(o) ==
  /\ cancel[o].on
  /\ cancel' = [cancel EXCEPT ![o] = NullCancel]
  /\ UNCHANGED <<browser, req, checkout, order, voucher, onSale, faults>>

\* A manager changes a limit, withdraws a voucher or brings it back; the UPDATE waits for
\* whoever has locked the row.
EditVoucher(v, n, on) ==
  /\ \A r \in Requests : v \notin req[r].held
  /\ ~HeldByCancel(v)
  /\ voucher' = [voucher EXCEPT ![v].limit = n, ![v].active = on]
  /\ UNCHANGED <<browser, req, checkout, order, onSale, cancel, faults>>

\* A manager withdraws goods or puts them on sale again; nobody has locked them.
EditGoods(g) ==
  /\ onSale' = IF g \in onSale THEN onSale \ {g} ELSE onSale \cup {g}
  /\ UNCHANGED <<browser, req, checkout, order, voucher, cancel, faults>>

----------------------------------------------------------------------------
Serve(r) ==
  LockCustomer(r) \/ Replay(r) \/ Create(r) \/ Redeem(r) \/ Commit(r)

Next ==
  \/ \E t \in Tabs, r \in Requests, k \in Keys : Submit(t, r, k)
  \/ \E t \in Tabs : Reload(t)
  \/ \E r \in Requests : Receive(r) \/ Discard(r) \/ Disconnect(r) \/ Serve(r) \/ Fail(r)
  \/ \E o \in Orders : BeginCancel(o) \/ LockVoucher(o) \/ CommitCancel(o) \/ FailCancel(o)
  \/ \E v \in Vouchers, n \in Limits, on \in BOOLEAN : EditVoucher(v, n, on)
  \/ \E g \in Goods : EditGoods(g)

Spec == Init /\ [][Next]_vars

\* What is under way ends: faults are bounded, and the lock queues of the database are
\* fair, where a lock may come and go many times before its turn (SF).
UnderWay ==
  /\ \A r \in Requests : SF_vars(Serve(r)) /\ WF_vars(Receive(r) \/ Discard(r))
  /\ \A o \in Orders : WF_vars(LockVoucher(o) \/ CommitCancel(o) \/ FailCancel(o))

\* The customer presses the button, for the attempt that is stored.
Press(t) == \E r \in Requests, k \in Keys : k = stored[Owner[t]] /\ Submit(t, r, k)

\* A customer who does that, and one who also loads a page again that does nothing.
PressSpec == Spec /\ UnderWay /\ \A t \in Tabs : WF_vars(Press(t))

GoOn(t) == Press(t) \/ (page[t] = "stuck" /\ Reload(t))

FairSpec == Spec /\ UnderWay /\ \A t \in Tabs : WF_vars(GoOn(t))

----------------------------------------------------------------------------
(* Properties                                                              *)

Progress == {"idle", "sent", "locked", "creating", "priced", "ok", "invalid", "missing", "error"}

\* Rows, pages and requests of the right kind; a request has its voucher locked from the
\* check to the end of its transaction, and at no other time.
TypeOK ==
  /\ attempt \in [Keys -> [customer : Customers \cup {NoCustomer}, code : Vouchers \cup {NoCode}]]
  /\ stored \in [Customers -> Keys \cup {NoKey}]
  /\ page \in [Tabs -> {"ready", "waiting", "stuck", "done"}]
  /\ req \in [Requests -> [pc : Progress, key : Keys \cup {NoKey}, tab : Tabs \cup {NoTab},
                           held : SUBSET Vouchers]]
  /\ \A r \in Requests :
       req[r].held = (IF req[r].pc = "priced" THEN {Code(r)} \ {NoCode} ELSE {})
  /\ checkout \in [Keys -> Orders \cup {NoOrder}]
  /\ order \in [Orders -> [status : {"none", "live", "cancelled"}, key : Keys \cup {NoKey}]]
  /\ voucher \in [Vouchers -> [used : Nat, limit : Nat, active : BOOLEAN]]
  /\ onSale \in SUBSET Goods
  /\ cancel \in [Orders -> [on : BOOLEAN, held : SUBSET Vouchers]]
  /\ known \in SUBSET Keys /\ refused \in SUBSET Keys /\ faults \in Nat

OnePerKey == \A o \in Orders : order[o].status # "none" => checkout[order[o].key] = o

\* However often a key is sent, from however many tabs, and wherever an answer or a
\* transaction gets lost, it makes at most one order, and that is the one every repeat is
\* answered with.
OneOrderPerKey == TypeOK /\ OnePerKey

\* No order behind the customer's back: an order was reported to a tab, or its attempt
\* is still stored and will be sent again, unless the server had refused the attempt.
KnownOrRetryable ==
  \A o \in Orders :
    order[o].status # "none" =>
      LET k == order[o].key IN
        k \in known \cup refused \/ stored[attempt[k].customer] = k

\* so_lan_da_dung is the number of orders that use the voucher and were not cancelled,
\* so its clamp at zero hides nothing.
Uses(v) == {o \in Orders : order[o].status = "live" /\ v \in Used(o)}
UsesCounted == \A v \in Vouchers : voucher[v].used = Cardinality(Uses(v))

\* No checkout takes a voucher beyond the limit it has at that moment, however many
\* customers go for the last use.
LimitsKept ==
  [][\A v \in Vouchers : voucher'[v].used > voucher[v].used /\ voucher[v].limit > 0 =>
       voucher'[v].used <= voucher[v].limit]_vars

\* No customer redeems a voucher more often than gioi_han_nguoi_dung says; a cancelled
\* order counts (voucher_service.py:56-65).
PersonalLimitsKept ==
  \A v \in Vouchers, u \in Customers :
    Personal[v] > 0 => Cardinality(Redeemed(v, u)) <= Personal[v]

\* A voucher is used as its limits allow, by the number of orders its counter says.
VoucherUsesKept == [](UsesCounted /\ PersonalLimitsKept) /\ LimitsKept

\* What the attempt asks for is not to be had any more.
Withdrawn(k) ==
  \/ ~OnSale(k)
  \/ attempt[k].code # NoCode /\ ~voucher[attempt[k].code].active

Bound(k) == \E u \in Customers : stored[u] = k

\* A customer who goes on, and loads a page again that does nothing, gets an order or a
\* refusal, unless goods or the voucher of the attempt have been withdrawn.
ResolvedUnlessWithdrawn == \A k \in Keys : Bound(k) ~> ~Bound(k) \/ Withdrawn(k)

\* What the page says while an attempt is kept (CheckoutPage.tsx:253): an order waits to
\* be completed, and whoever presses the button goes on with it.
PressingGoesOn ==
  \A t \in Tabs : page[t] = "stuck" /\ stored[Owner[t]] # NoKey ~> page[t] # "stuck"
============================================================================
