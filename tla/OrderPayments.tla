--------------------------- MODULE OrderPayments ---------------------------
(***************************************************************************)
(* Orders, their payments, the bank transfers SePay reports and the sweep  *)
(* of stale payments.                                                      *)
(*                                                                         *)
(* Every handler that changes an order or one of its payments first takes  *)
(* the row lock of the order (SELECT ... FOR UPDATE, refreshed with        *)
(* populate_existing) and commits once, so a handler is one action.  What  *)
(* is read before that lock and used after it is kept apart: the list of   *)
(* stale payments the sweep works through (SweepScan, then SweepStep for   *)
(* each row).  A handler that crashes, or answers an error, leaves the     *)
(* database as it was and is no step.                                      *)
(*                                                                         *)
(* Sessions run with autoflush off (app/db.py:37): a change made to a      *)
(* payment object and not flushed is overwritten when a later query of the *)
(* same handler refreshes that row.  FailedWithOrder below is where this   *)
(* shows.                                                                  *)
(***************************************************************************)
EXTENDS Integers, FiniteSetsExt

CONSTANTS
  Orders,        \* order ids
  LegacyOrders,  \* the pre-orders an older release left in status cho_coc
  Payments,      \* payment ids, numbers: the sequence hands them out in order
  Transfers,     \* ids of the incoming bank transfers
  Amounts,       \* amounts of money that staff enter and customers transfer
  Methods,       \* the methods staff record payments with
  Edits,         \* what managers may overwrite with the status of a payment
  OrderForms,    \* the orders that customers and staff submit
  NoOrder, NoPayment, NoTransfer   \* "no row" and SQL NULL

OrderStatus == {"cho", "cho_coc", "dang_xu_ly", "dang_giao", "hoan_thanh", "da_huy"}
PaymentStatus == {"dang_xu_ly", "thanh_cong", "that_bai", "da_hoan_tien"}
ManualMethods == {"tien_mat", "the_tin_dung", "vi_dien_tu"}
ReceiptStatus == {"confirmed", "refund_required", "unmatched", "refunded"}

\* What create_order fixes for good: the kind (loai_don), the amount due after
\* vouchers (tien_thanh_toan), whether there is a delivery address, and how the
\* customer chose to pay.
OrderForm == [kind : {"pos", "online", "dat_truoc"}, due : Nat,
              delivery : BOOLEAN, method : {"pay_later", "sepay_qr"}]

ASSUME PaymentIds == Payments \subseteq Nat
ASSUME AmountsPositive == Amounts \subseteq Nat \ {0}
ASSUME LegacyAreOrders == LegacyOrders \subseteq Orders
ASSUME InputSets == /\ Methods \subseteq ManualMethods
                    /\ Edits \subseteq {"none", "ref", "info"}
ASSUME FormsAreForms == OrderForms \subseteq OrderForm
ASSUME NullIds == /\ NoOrder \notin Orders
                  /\ NoPayment \notin Payments
                  /\ NoTransfer \notin Transfers

VARIABLES
  order,    \* donhang: status, kind, due, delivery; status "none" before the insert
  pay,      \* thanhtoan: order, method, amount, status, and for QR payments the
            \*   provider tag of thong_tin_giao_dich and the gateway id in ma_giao_dich
  paid,     \* what SUM(so_tien) over the thanh_cong payments of an order returns
  receipt,  \* sepay_transactions, keyed by the gateway's transaction id
  sweep     \* rows the running sweep has read and not yet handled

vars == <<order, pay, paid, receipt, sweep>>

----------------------------------------------------------------------------
(* Rows and queries                                                        *)

NullOrder == [status |-> "none", kind |-> "online", due |-> 0, delivery |-> FALSE]
NullPayment == [order |-> NoOrder, method |-> "tien_mat", amount |-> 0,
                status |-> "none", sepay |-> FALSE, txn |-> NoTransfer]
NullReceipt == [status |-> "none", payment |-> NoPayment, amount |-> 0]

PaymentRows == {p \in Payments : pay[p].status # "none"}
PaymentsOf(o) == {p \in Payments : pay[p].order = o}
WithStatus(o, s) == {p \in PaymentsOf(o) : pay[p].status = s}
Amount == [p \in Payments |-> pay[p].amount]
Remaining(o) == order[o].due - paid[o]
PaidInFullUnchecked(o) == TRUE                               \* mutant
PaidInFull(o) == paid[o] >= order[o].due
PendingQR(o) == {p \in WithStatus(o, "dang_xu_ly") : pay[p].method = "chuyen_khoan"}

\* The id the next INSERT INTO thanhtoan gets.
NextId(p) == \A q \in Payments : pay[q].status # "none" <=> q < p

\* The amounts add up as long as they fit; what the payment service calls
\* _ensure_payment_fits_balance.
FitsBalanceUnchecked(p) == TRUE                              \* mutant
FitsBalance(p) == pay[p].amount <= Remaining(pay[p].order)

NewPayment(o, m, a, s) ==
  [order |-> o, method |-> m, amount |-> a, status |-> s,
   sepay |-> m = "chuyen_khoan", txn |-> NoTransfer]

----------------------------------------------------------------------------
(* The order state machine                                                 *)

Transitions ==
  [s \in OrderStatus |->
     CASE s \in {"cho", "cho_coc"} -> {"dang_xu_ly"}
       [] s = "dang_xu_ly" -> {"dang_giao", "hoan_thanh"}
       [] s = "dang_giao" -> {"hoan_thanh"}
       [] OTHER -> {}]

AcceptsQR(o) == order[o].status \in {"cho", "cho_coc", "dang_xu_ly", "dang_giao"}

\* _cancel_locked refuses an order that holds money or has left the shop.
Cancellable(o) ==
  /\ WithStatus(o, "thanh_cong") = {}
  /\ order[o].status \notin {"hoan_thanh", "dang_giao"}

Cancelled(o) == [order EXCEPT ![o].status = "da_huy"]
PaymentsLeftOpen(o) == pay                                   \* mutant
PaymentsClosed(o) ==
  [p \in Payments |-> IF p \in WithStatus(o, "dang_xu_ly")
                        THEN [pay[p] EXCEPT !.status = "that_bai"] ELSE pay[p]]

\* fail_unpaid_order: cancels, or does nothing when the order may not be cancelled.
FailUnpaidOrder(o) ==
  LET cancels == order[o].status # "da_huy" /\ Cancellable(o)
  IN  /\ order' = IF cancels THEN Cancelled(o) ELSE order
      /\ pay' = IF cancels THEN PaymentsClosed(o) ELSE pay

\* The payment rows after a handler set p to status s in its session, did not
\* flush, and called fail_unpaid_order.  Unless the order is cancelled already,
\* _cancel_locked re-reads every payment of the order, so s is forgotten: the
\* row ends failed with its order, or, when the cancellation is refused, as it was.
FailedAndFlushed(p, s) == [pay EXCEPT ![p].status = s]       \* mutant
FailedWithOrder(p, s) ==
  LET o == pay[p].order
  IN  IF order[o].status = "da_huy" THEN [pay EXCEPT ![p].status = s]
      ELSE IF Cancellable(o) THEN PaymentsClosed(o)
      ELSE pay

----------------------------------------------------------------------------
(* Initial state and orders                                                *)

Init ==
  /\ \E due \in [LegacyOrders -> Amounts] :
       order = [o \in Orders |->
                  IF o \in LegacyOrders
                    THEN [status |-> "cho_coc", kind |-> "dat_truoc", due |-> due[o],
                          delivery |-> FALSE]
                    ELSE NullOrder]
  /\ pay = [p \in Payments |-> NullPayment]
  /\ paid = [o \in Orders |-> 0]
  /\ receipt = [t \in Transfers |-> NullReceipt]
  /\ sweep = {}

\* create_order and, for a QR checkout with something to pay, the pending SePay
\* payment of the same transaction.  Pre-orders always check out by QR.
CreateOrder(o, f) ==
  LET byQR == f.due > 0 /\ (f.kind = "dat_truoc" \/ (f.kind = "online" /\ f.method = "sepay_qr"))
  IN  /\ order[o].status = "none"
      /\ order' = [order EXCEPT ![o] =
                     [status |-> IF f.kind = "dat_truoc" THEN "cho" ELSE "dang_xu_ly",
                      kind |-> f.kind, due |-> f.due, delivery |-> f.delivery]]
      /\ \/ ~byQR /\ pay' = pay
         \/ /\ byQR
            /\ \E p \in Payments :
                 /\ NextId(p)
                 /\ pay' = [pay EXCEPT ![p] = NewPayment(o, "chuyen_khoan", f.due, "dang_xu_ly")]
      /\ UNCHANGED <<paid, receipt, sweep>>

\* A manager moves the order on.  Moving to the status it has only adds a note.
UpdateOrderStatus(o, s) ==
  /\ order[o].status \in OrderStatus
  /\ s \in Transitions[order[o].status]
  /\ s = "dang_xu_ly" /\ (order[o].status = "cho_coc" \/ order[o].kind = "dat_truoc")
       => PaidInFull(o)
  /\ s = "dang_giao" /\ (\E p \in PaymentsOf(o) : pay[p].method = "chuyen_khoan")
       => PaidInFull(o)
  /\ s = "hoan_thanh" => /\ PaidInFull(o)
                         /\ order[o].delivery => order[o].status = "dang_giao"
  /\ order' = [order EXCEPT ![o].status = s]
  /\ UNCHANGED <<pay, paid, receipt, sweep>>

\* The owner, a manager, or an approved agent action cancels the order.
CancelOrder(o) ==
  /\ order[o].status \in OrderStatus \ {"da_huy"}
  /\ Cancellable(o)
  /\ order' = Cancelled(o)
  /\ pay' = PaymentsClosed(o)
  /\ UNCHANGED <<paid, receipt, sweep>>

----------------------------------------------------------------------------
(* Payments recorded by staff                                              *)

\* Cash counts at once, a card or wallet payment waits for its verification.
CreateManualPayment(o, m, a) ==
  LET s == IF m = "tien_mat" THEN "thanh_cong" ELSE "dang_xu_ly"
  IN  /\ order[o].status \in OrderStatus \ {"da_huy"}
      /\ order[o].kind # "dat_truoc"
      /\ PendingQR(o) = {}
      /\ a <= Remaining(o)
      /\ \E p \in Payments :
           /\ NextId(p)
           /\ pay' = [pay EXCEPT ![p] = NewPayment(o, m, a, s)]
      /\ paid' = IF m = "tien_mat" THEN [paid EXCEPT ![o] = @ + a] ELSE paid
      /\ UNCHANGED <<order, receipt, sweep>>

\* With the status a manager may overwrite the reference of a payment (by a bank
\* reference, never a gateway id) or its provider details.
Edited(rows, p, e) ==
  CASE e = "ref" -> [rows EXCEPT ![p].txn = NoTransfer]
    [] e = "info" -> [rows EXCEPT ![p].sepay = FALSE]
    [] OTHER -> rows

\* The status a request asks for: "huy" is an alias of da_hoan_tien.
RequestedAsGiven(req) == req                                 \* mutant
Requested(req) == IF req = "huy" THEN "da_hoan_tien" ELSE req

\* A manager sets the status of a payment.
UpdatePaymentStatus(p, req, e) ==
  LET o == pay[p].order
      s == Requested(req)
      old == pay[p].status
      fails == s \in {"that_bai", "da_hoan_tien"} /\ old # "thanh_cong"
  IN  /\ old # "none"
      /\ ~(order[o].status = "da_huy" /\ s = "thanh_cong")
      /\ s # old => /\ old = "thanh_cong" => s = "da_hoan_tien"
                    /\ old \notin {"that_bai", "da_hoan_tien"}
                    /\ s = "thanh_cong" => pay[p].method # "chuyen_khoan" /\ FitsBalance(p)
      /\ pay' = Edited(IF fails THEN FailedWithOrder(p, s)
                                ELSE [pay EXCEPT ![p].status = s], p, e)
      /\ order' = IF fails /\ order[o].status # "da_huy" /\ Cancellable(o)
                    THEN Cancelled(o) ELSE order
      /\ paid' = CASE s = "thanh_cong" /\ old # s -> [paid EXCEPT ![o] = @ + pay[p].amount]
                   [] old = "thanh_cong" /\ s # old -> [paid EXCEPT ![o] = @ - pay[p].amount]
                   [] OTHER -> paid
      /\ UNCHANGED <<receipt, sweep>>

\* The same endpoint without a status.
EditPayment(p, e) ==
  /\ pay[p].status # "none"
  /\ pay' = Edited(pay, p, e)
  /\ UNCHANGED <<order, paid, receipt, sweep>>

\* A manager enters what the card or wallet provider answered; "pending" only
\* touches the reference.
VerifyPayment(p, ok) ==
  LET o == pay[p].order
  IN  /\ pay[p].status = "dang_xu_ly"
      /\ order[o].status # "da_huy"
      /\ pay[p].method # "chuyen_khoan"
      /\ \/ /\ ok
            /\ FitsBalance(p)
            /\ pay' = [pay EXCEPT ![p].status = "thanh_cong"]
            /\ paid' = [paid EXCEPT ![o] = @ + pay[p].amount]
            /\ order' = order
         \/ /\ ~ok
            /\ pay' = FailedWithOrder(p, "that_bai")
            /\ order' = IF Cancellable(o) THEN Cancelled(o) ELSE order
            /\ paid' = paid
      /\ UNCHANGED <<receipt, sweep>>

----------------------------------------------------------------------------
(* SePay                                                                   *)

\* The newest pending QR payment of an order, if SePay issued it: a checkout for the
\* same amount shows it again, one for another amount fails and replaces it.
LiveQR(o) == {p \in PendingQR(o) : pay[p].sepay /\ \A q \in PendingQR(o) : q <= p}

CreateSePayPayment(o) ==
  /\ AcceptsQR(o)
  /\ Remaining(o) > 0
  /\ \A p \in LiveQR(o) : pay[p].amount # Remaining(o)
  /\ \E new \in Payments :
       /\ NextId(new)
       /\ pay' = [p \in Payments |->
                    IF p = new THEN NewPayment(o, "chuyen_khoan", Remaining(o), "dang_xu_ly")
                    ELSE IF p \in LiveQR(o) THEN [pay[p] EXCEPT !.status = "that_bai"]
                    ELSE pay[p]]
  /\ UNCHANGED <<order, paid, receipt, sweep>>

\* Every receipt is remembered, so is the transfer that paid a payment.
KnownByReference(t) == \E p \in Payments : pay[p].txn = t    \* mutant
Known(t) == receipt[t].status # "none" \/ \E p \in Payments : pay[p].txn = t
ValidProvider(p) ==
  pay[p].sepay \/ (pay[p].method = "chuyen_khoan" /\ pay[p].txn # NoTransfer)

\* What the webhook makes of a transfer of amount a for payment p.
Verdict(p, a) ==
  LET o == pay[p].order
  IN  IF ~ValidProvider(p) THEN "unmatched"
      ELSE IF \/ order[o].status = "da_huy"
              \/ pay[p].status # "dang_xu_ly"
              \/ a # pay[p].amount
              \/ ~AcceptsQR(o)
              \/ ~FitsBalance(p)
           THEN "refund_required"
      ELSE "confirmed"

Confirm(t, p) ==
  LET o == pay[p].order
      sum == paid[o] + pay[p].amount
  IN  /\ pay' = [pay EXCEPT ![p].status = "thanh_cong", ![p].txn = t]
      /\ paid' = [paid EXCEPT ![o] = sum]
      /\ order' = IF order[o].kind = "dat_truoc" /\ order[o].status = "cho" /\ sum >= order[o].due
                    THEN [order EXCEPT ![o].status = "dang_xu_ly"] ELSE order

\* SePay reports transfer t of amount a, whose content names payment c or no payment
\* there is: whenever it likes, so also long after the customer paid, in any order, and
\* again when it got no answer.  The advisory lock on t makes the deliveries of t take
\* turns, and the second one finds the receipt.
Webhook(t, c, a) ==
  LET verdict == IF c = NoPayment THEN "unmatched" ELSE Verdict(c, a)
  IN  /\ ~Known(t)
      /\ receipt' = [receipt EXCEPT ![t] = [status |-> verdict, payment |-> c, amount |-> a]]
      /\ IF verdict = "confirmed" THEN Confirm(t, c) ELSE UNCHANGED <<order, pay, paid>>
      /\ UNCHANGED sweep

\* A manager records that the money went back; a repeat with the same reference
\* answers the same, one with another is refused.
ConfirmRefund(t) ==
  /\ receipt[t].status \in {"refund_required", "unmatched"}
  /\ receipt' = [receipt EXCEPT ![t].status = "refunded"]
  /\ UNCHANGED <<order, pay, paid, sweep>>

----------------------------------------------------------------------------
(* The sweep of stale pending payments                                     *)

\* The job runs every 15 minutes, one run at a time, and first reads its list: the
\* pending payments created before the cutoff, here those with ids up to last.  Time
\* passes between any two steps, so any cutoff is possible.
SweepScan(last) ==
  LET list == {p \in PaymentRows : pay[p].status = "dang_xu_ly" /\ p <= last}
  IN  /\ sweep = {} /\ list # {}
      /\ sweep' = list
      /\ UNCHANGED <<order, pay, paid, receipt>>

\* Then one transaction per row of that list, which is not looked at again.
SweepStep(p) ==
  /\ p \in sweep
  /\ FailUnpaidOrder(pay[p].order)
  /\ sweep' = sweep \ {p}
  /\ UNCHANGED <<paid, receipt>>

\* A row whose transaction fails (a deadlock, a lost connection) is rolled back and
\* left to the next run; a restart of the process forgets the rest of the list.
SweepSkip(rows) ==
  /\ sweep' = sweep \ rows
  /\ UNCHANGED <<order, pay, paid, receipt>>
SweepError(p) == p \in sweep /\ SweepSkip({p})
Restart == sweep # {} /\ SweepSkip(sweep)

----------------------------------------------------------------------------
Next ==
  \/ \E o \in Orders, f \in OrderForms : CreateOrder(o, f)
  \/ \E o \in Orders, s \in OrderStatus : UpdateOrderStatus(o, s)
  \/ \E o \in Orders : CancelOrder(o)
  \/ \E o \in Orders, m \in Methods, a \in Amounts : CreateManualPayment(o, m, a)
  \/ \E p \in Payments, req \in PaymentStatus \cup {"huy"}, e \in Edits :
       UpdatePaymentStatus(p, req, e)
  \/ \E p \in Payments, e \in Edits : EditPayment(p, e)
  \/ \E p \in Payments, ok \in BOOLEAN : VerifyPayment(p, ok)
  \/ \E o \in Orders : CreateSePayPayment(o)
  \/ \E t \in Transfers, c \in PaymentRows \cup {NoPayment}, a \in Amounts : Webhook(t, c, a)
  \/ \E t \in Transfers : ConfirmRefund(t)
  \/ \E last \in Payments : SweepScan(last)
  \/ \E p \in Payments : SweepStep(p) \/ SweepError(p)
  \/ Restart

\* The scheduler keeps running the sweep, a payment that stays pending is older than
\* the cutoff of all but finitely many runs, and neither restarts nor errors hit the
\* same row in every run.  Nothing else is promised.
Fairness ==
  /\ \A last \in Payments : SF_vars(SweepScan(last))
  /\ \A p \in Payments : SF_vars(SweepStep(p))

Spec == Init /\ [][Next]_vars
FairSpec == Spec /\ Fairness

----------------------------------------------------------------------------
(* Properties                                                              *)

OrderRow == [status : OrderStatus \cup {"none"}, kind : {"pos", "online", "dat_truoc"},
             due : Nat, delivery : BOOLEAN]
PaymentRow == [order : Orders \cup {NoOrder}, method : ManualMethods \cup {"chuyen_khoan"},
               amount : Nat, status : PaymentStatus \cup {"none"}, sepay : BOOLEAN,
               txn : Transfers \cup {NoTransfer}]

\* The types of the tables, and that every payment belongs to an order that exists
\* (the foreign key of thanhtoan).
TypeOK ==
  /\ order \in [Orders -> OrderRow]
  /\ pay \in [Payments -> PaymentRow]
  /\ paid \in [Orders -> Int]
  /\ receipt \in [Transfers -> [status : ReceiptStatus \cup {"none"},
                               payment : Payments \cup {NoPayment}, amount : Nat]]
  /\ sweep \subseteq Payments
  /\ \A p \in sweep : pay[p].status # "none"
  /\ \A p \in Payments :
       pay[p].status # "none" => /\ pay[p].order \in Orders
                                 /\ order[pay[p].order].status # "none"

\* paid is what the SUM query over the payment rows returns, at every moment; in
\* particular it is never negative.  Every total the services compute rests on it.
PaidIsSum ==
  \A o \in Orders : paid[o] = SumFunctionOnSet(Amount, WithStatus(o, "thanh_cong"))

\* However cash, card, wallet and QR payments are created, confirmed and refunded,
\* the money an order holds never exceeds what it costs: payment_service.py:112
\* checks at confirmation, not at creation, because pending payments may add up to
\* more.
NoOverCapture == \A o \in Orders : paid[o] <= order[o].due

\* A cancelled order holds no money and waits for none: whichever of the owner, a
\* manager, a failed verification and the sweep cancels it, no payment is left
\* captured, or pending for a later webhook or verification to capture.
CancelledHoldsNoMoney ==
  \A o \in Orders : order[o].status = "da_huy" =>
    \A p \in PaymentsOf(o) : pay[p].status \in {"that_bai", "da_hoan_tien"}

\* A receipt says "confirmed" exactly for money an order got: the payment is a QR
\* payment of that amount that was captured, and no other transfer was confirmed
\* for it (sepay_provider.py:149-180).
ReceiptsMatchPayments ==
  /\ \A t \in Transfers : receipt[t].status = "confirmed" =>
       /\ receipt[t].payment \in Payments
       /\ pay[receipt[t].payment].method = "chuyen_khoan"
       /\ pay[receipt[t].payment].amount = receipt[t].amount
       /\ pay[receipt[t].payment].status \in {"thanh_cong", "da_hoan_tien"}
  /\ \A t, u \in Transfers :
       /\ receipt[t].status = "confirmed" /\ receipt[u].status = "confirmed"
       /\ receipt[t].payment = receipt[u].payment
       => t = u

\* No QR payment holds money that no bank transfer brought: staff cannot capture
\* one by hand (payment_service.py:267, 322).
QRMoneyHasReceipt ==
  \A p \in Payments :
    pay[p].method = "chuyen_khoan" /\ pay[p].status \in {"thanh_cong", "da_hoan_tien"} =>
      \E t \in Transfers : receipt[t].status = "confirmed" /\ receipt[t].payment = p

\* A customer never has two live QR codes of one order to pay, unless a manager
\* overwrote the provider details of one (sepay_provider.py:70-85).
OneLiveQR ==
  \A o \in Orders : \A p, q \in PendingQR(o) : pay[p].sepay /\ pay[q].sepay => p = q

\* A pre-order is worked on, delivered and handed over only after all its money
\* came in, even if some of it was refunded later (CHECKOUT_PAYMENT_RECOVERY.md:20).
PreorderPaidBeforeWork ==
  \A o \in Orders :
    order[o].kind = "dat_truoc" /\ order[o].status \in {"dang_xu_ly", "dang_giao", "hoan_thanh"} =>
      SumFunctionOnSet(Amount, WithStatus(o, "thanh_cong") \cup WithStatus(o, "da_hoan_tien"))
        >= order[o].due

\* What the services compute with is true at every moment: the total of an order, the
\* one QR code of it that can be paid, and the money a pre-order is worked on for.
PaymentsCoherent == PaidIsSum /\ OneLiveQR /\ PreorderPaidBeforeWork

\* Receipts and captured QR money match one to one, whatever order transfers come in,
\* how often, and what managers edit meanwhile.
TransfersTraced == ReceiptsMatchPayments /\ QRMoneyHasReceipt

\* Every row only moves forward, whoever moves it: an order along its transitions
\* or to da_huy, a payment from pending to captured or failed and from captured to
\* refunded, so never from pending to refunded although the endpoint accepts it,
\* and a receipt from the reconciliation queue to refunded.
RowsMoveForward ==
  [][/\ \A o \in Orders : LET s == order[o].status IN
           s \in OrderStatus /\ order'[o].status # s =>
             order'[o].status \in Transitions[s] \cup
               (IF s \in {"hoan_thanh", "da_huy", "dang_giao"} THEN {} ELSE {"da_huy"})
     /\ \A p \in Payments : LET s == pay[p].status IN
           s # "none" /\ pay'[p].status # s =>
             <<s, pay'[p].status>> \in {<<"dang_xu_ly", "thanh_cong">>, <<"dang_xu_ly", "that_bai">>,
                                        <<"thanh_cong", "da_hoan_tien">>}
     /\ \A t \in Transfers : LET s == receipt[t].status IN
           s # "none" /\ receipt'[t] # receipt[t] =>
             s \in {"refund_required", "unmatched"} /\ receipt'[t].status = "refunded"]_vars

\* The sweep reclaims abandoned orders: an order that holds no money and has not
\* left the shop does not keep a pending payment for ever
\* (maintenance_service.py:51-86).
AbandonedOrdersReclaimed ==
  \A p \in Payments :
    pay[p].status = "dang_xu_ly" ~>
      \/ pay[p].status # "dang_xu_ly"
      \/ \E o \in Orders : pay[p].order = o /\ ~Cancellable(o)

----------------------------------------------------------------------------
(* The contract this implements                                            *)

Phase(s) ==
  CASE s \in {"cho", "cho_coc"} -> "waiting"
    [] s = "dang_xu_ly" -> "open"
    [] s = "dang_giao" -> "shipped"
    [] s = "hoan_thanh" -> "done"
    [] s = "da_huy" -> "cancelled"
    [] OTHER -> "none"

Contract == INSTANCE OrderContract WITH
  phase <- [o \in Orders |-> Phase(order[o].status)],
  due <- [o \in Orders |-> order[o].due],
  held <- paid

\* Orders and payments together keep the contract: seen through the order's phase,
\* its price and the sum of its captured payments, every handler is one step of
\* OrderContract or none.
KeepsContract == Contract!ContractSpec

\* Whoever acts, no row moves back and no handler does more than the contract has.
EveryStepAllowed == RowsMoveForward /\ KeepsContract
============================================================================
