------------------------ MODULE OrderPaymentsProofs ------------------------
(***************************************************************************)
(* What TLC checks of OrderPayments on small instances, proved for every   *)
(* number of orders, payments and transfers and every amount of money.     *)
(***************************************************************************)
EXTENDS OrderPayments, Sums, TLAPS

----------------------------------------------------------------------------
(* Types                                                                   *)

\* The initial tables have their types.
LEMMA InitTypeOK == Init => TypeOK
<1> SUFFICES ASSUME Init PROVE TypeOK
  OBVIOUS
<1>1. order \in [Orders -> OrderRow]
  <2>1. PICK due \in [LegacyOrders -> Amounts] :
          order = [o \in Orders |->
                     IF o \in LegacyOrders
                       THEN [status |-> "cho_coc", kind |-> "dat_truoc", due |-> due[o],
                             delivery |-> FALSE]
                       ELSE NullOrder]
    BY DEF Init
  <2>2. \A o \in LegacyOrders : due[o] \in Nat
    BY <2>1, AmountsPositive
  <2> QED
    BY <2>1, <2>2 DEF OrderRow, OrderStatus, NullOrder
<1>2. pay \in [Payments -> PaymentRow] /\ \A p \in Payments : pay[p].status = "none"
  BY DEF Init, NullPayment, PaymentRow, ManualMethods
<1>3. receipt \in [Transfers -> [status : ReceiptStatus \cup {"none"},
                                 payment : Payments \cup {NoPayment}, amount : Nat]]
  BY DEF Init, NullReceipt
<1> QED
  BY <1>1, <1>2, <1>3 DEF Init, TypeOK

\* What a step does to the order and payment rows when it keeps the foreign key:
\* every order that was there still is, and every payment belongs to one.
RowsKept ==
  /\ order' \in [Orders -> OrderRow]
  /\ pay' \in [Payments -> PaymentRow]
  /\ \A o \in Orders : order[o].status # "none" => order'[o].status # "none"
  /\ \A p \in Payments : pay[p].status # "none" => pay'[p].status # "none"
  /\ \A p \in Payments :
       pay'[p].status # "none" => /\ pay'[p].order \in Orders
                                  /\ order'[pay'[p].order].status # "none"

LEMMA RowsKeptSuffices ==
  ASSUME TypeOK, RowsKept, paid' \in [Orders -> Int],
         receipt' \in [Transfers -> [status : ReceiptStatus \cup {"none"},
                                     payment : Payments \cup {NoPayment}, amount : Nat]],
         sweep' \subseteq sweep
  PROVE  TypeOK'
BY DEF TypeOK, RowsKept

LEMMA NewPaymentType ==
  ASSUME NEW o \in Orders, NEW m \in ManualMethods \cup {"chuyen_khoan"},
         NEW a \in Nat, NEW s \in PaymentStatus
  PROVE  /\ NewPayment(o, m, a, s) \in PaymentRow
         /\ NewPayment(o, m, a, s).order = o
         /\ NewPayment(o, m, a, s).status # "none"
BY DEF NewPayment, PaymentRow, PaymentStatus

\* Inserting a payment of an existing order keeps the rows.
LEMMA InsertKeepsRows ==
  ASSUME TypeOK, NEW o \in Orders, NEW new \in Payments, NEW row \in PaymentRow,
         row.order = o, row.status # "none",
         pay' = [pay EXCEPT ![new] = row],
         order' \in [Orders -> OrderRow],
         \A x \in Orders : order[x].status # "none" => order'[x].status # "none",
         order'[o].status # "none"
  PROVE  RowsKept
<1>1. pay' \in [Payments -> PaymentRow]
  BY DEF TypeOK
<1>2. \A p \in Payments : IF p = new THEN pay'[p] = row ELSE pay'[p] = pay[p]
  BY DEF TypeOK
<1> QED
  BY <1>1, <1>2 DEF RowsKept, TypeOK

\* So does changing a payment without touching its order column.
LEMMA UpdateKeepsRows ==
  ASSUME TypeOK, pay' \in [Payments -> PaymentRow],
         \A p \in Payments : /\ pay'[p].order = pay[p].order
                             /\ pay'[p].status = "none" <=> pay[p].status = "none",
         order' \in [Orders -> OrderRow],
         \A o \in Orders : order[o].status # "none" => order'[o].status # "none"
  PROVE  RowsKept
BY DEF TypeOK, RowsKept

LEMMA PaymentsClosedType ==
  ASSUME TypeOK, NEW o \in Orders
  PROVE  /\ PaymentsClosed(o) \in [Payments -> PaymentRow]
         /\ \A p \in Payments :
              /\ PaymentsClosed(o)[p].order = pay[p].order
              /\ PaymentsClosed(o)[p].status = "none" <=> pay[p].status = "none"
BY DEF TypeOK, PaymentsClosed, WithStatus, PaymentsOf, PaymentRow, PaymentStatus

LEMMA CancelledType ==
  ASSUME TypeOK, NEW o \in Orders
  PROVE  /\ Cancelled(o) \in [Orders -> OrderRow]
         /\ \A x \in Orders : order[x].status # "none" => Cancelled(o)[x].status # "none"
BY DEF TypeOK, Cancelled, OrderRow, OrderStatus

LEMMA FailedWithOrderType ==
  ASSUME TypeOK, NEW p \in Payments, pay[p].status # "none",
         NEW s \in PaymentStatus
  PROVE  /\ FailedWithOrder(p, s) \in [Payments -> PaymentRow]
         /\ \A q \in Payments :
              /\ FailedWithOrder(p, s)[q].order = pay[q].order
              /\ FailedWithOrder(p, s)[q].status = "none" <=> pay[q].status = "none"
<1> DEFINE o == pay[p].order
<1>1. o \in Orders
  BY DEF TypeOK
<1>2. CASE order[o].status = "da_huy"
  BY <1>2 DEF TypeOK, FailedWithOrder, PaymentRow, PaymentStatus
<1>3. CASE order[o].status # "da_huy"
  BY <1>1, <1>3, PaymentsClosedType DEF TypeOK, FailedWithOrder
<1> QED
  BY <1>2, <1>3

LEMMA EditedType ==
  ASSUME NEW rows \in [Payments -> PaymentRow], NEW p \in Payments, NEW e
  PROVE  /\ Edited(rows, p, e) \in [Payments -> PaymentRow]
         /\ \A q \in Payments : /\ Edited(rows, p, e)[q].order = rows[q].order
                                /\ Edited(rows, p, e)[q].status = rows[q].status
                                /\ Edited(rows, p, e)[q].method = rows[q].method
                                /\ Edited(rows, p, e)[q].amount = rows[q].amount
                                /\ Edited(rows, p, e)[q].sepay => rows[q].sepay
BY ZenonT(40) DEF Edited, PaymentRow

LEMMA ConfirmedRowType ==
  ASSUME NEW row \in PaymentRow, NEW t \in Transfers
  PROVE  [row EXCEPT !.status = "thanh_cong", !.txn = t] \in PaymentRow
<1> DEFINE captured == [row EXCEPT !.status = "thanh_cong"]
<1>1. captured \in PaymentRow
  BY DEF PaymentRow, PaymentStatus
<1>2. [captured EXCEPT !.txn = t] \in PaymentRow
  <2> HIDE DEF captured
  <2> QED
    BY <1>1 DEF PaymentRow
<1> QED
  BY <1>2 DEF PaymentRow

LEMMA NextTypeOK == TypeOK /\ [Next]_vars => TypeOK'
<1> SUFFICES ASSUME TypeOK, [Next]_vars PROVE TypeOK'
  OBVIOUS
<1>1. ASSUME NEW o \in Orders, NEW f \in OrderForms, CreateOrder(o, f) PROVE TypeOK'
  <2> DEFINE row == NewPayment(o, "chuyen_khoan", f.due, "dang_xu_ly")
  <2>1. /\ order' \in [Orders -> OrderRow]
        /\ \A x \in Orders : order[x].status # "none" => order'[x].status # "none"
        /\ order'[o].status # "none"
    BY <1>1, FormsAreForms DEF TypeOK, CreateOrder, OrderForm, OrderRow, OrderStatus
  <2>2. row \in PaymentRow /\ row.order = o /\ row.status # "none"
    BY NewPaymentType, FormsAreForms DEF PaymentStatus, OrderForm
  <2>3. pay' = pay \/ \E new \in Payments : pay' = [pay EXCEPT ![new] = row]
    BY <1>1 DEF CreateOrder
  <2>4. ASSUME pay' = pay PROVE RowsKept
    BY <2>1, <2>4 DEF TypeOK, RowsKept
  <2>5. ASSUME NEW new \in Payments, pay' = [pay EXCEPT ![new] = row] PROVE RowsKept
    <3> HIDE DEF row
    <3> QED
      BY <2>1, <2>2, <2>5, InsertKeepsRows
  <2>6. RowsKept
    BY <2>3, <2>4, <2>5
  <2> QED
    BY <1>1, <2>6, RowsKeptSuffices DEF TypeOK, CreateOrder
<1>2. ASSUME NEW o \in Orders, NEW s \in OrderStatus, UpdateOrderStatus(o, s) PROVE TypeOK'
  BY <1>2 DEF TypeOK, UpdateOrderStatus, OrderRow, OrderStatus
<1>3. ASSUME NEW o \in Orders, CancelOrder(o) PROVE TypeOK'
  <2>1. order' = Cancelled(o) /\ pay' = PaymentsClosed(o)
    BY <1>3 DEF CancelOrder
  <2>2. RowsKept
    BY <2>1, PaymentsClosedType, CancelledType, UpdateKeepsRows
  <2> QED
    BY <1>3, <2>2, RowsKeptSuffices DEF TypeOK, CancelOrder
<1>4. ASSUME NEW o \in Orders, NEW m \in Methods, NEW a \in Amounts,
             CreateManualPayment(o, m, a)
      PROVE TypeOK'
  <2> DEFINE s == IF m = "tien_mat" THEN "thanh_cong" ELSE "dang_xu_ly"
             row == NewPayment(o, m, a, s)
  <2>1. PICK new \in Payments : pay' = [pay EXCEPT ![new] = row]
    BY <1>4 DEF CreateManualPayment
  <2>2. row \in PaymentRow /\ row.order = o /\ row.status # "none" /\ a \in Nat
    BY NewPaymentType, InputSets, AmountsPositive DEF PaymentStatus
  <2>3. order[o].status # "none" /\ order' = order
    BY <1>4 DEF CreateManualPayment, OrderStatus
  <2>4. RowsKept
    <3> HIDE DEF row
    <3> QED
      BY <2>1, <2>2, <2>3, InsertKeepsRows DEF TypeOK
  <2> QED
    BY <1>4, <2>2, <2>4, RowsKeptSuffices DEF TypeOK, CreateManualPayment
<1>5. ASSUME NEW p \in Payments, NEW req \in PaymentStatus \cup {"huy"}, NEW e \in Edits,
             UpdatePaymentStatus(p, req, e)
      PROVE TypeOK'
  <2> DEFINE o == pay[p].order
             s == Requested(req)
             fails == s \in {"that_bai", "da_hoan_tien"} /\ pay[p].status # "thanh_cong"
             rows == IF fails THEN FailedWithOrder(p, s) ELSE [pay EXCEPT ![p].status = s]
  <2>1. s \in PaymentStatus /\ pay[p].status # "none" /\ o \in Orders
    BY <1>5 DEF UpdatePaymentStatus, TypeOK, Requested, PaymentStatus
  <2>2. pay' = Edited(rows, p, e)
    BY <1>5 DEF UpdatePaymentStatus
  <2>3. /\ rows \in [Payments -> PaymentRow]
        /\ \A q \in Payments : /\ rows[q].order = pay[q].order
                               /\ rows[q].status = "none" <=> pay[q].status = "none"
    <3>1. CASE fails
      BY <2>1, <3>1, FailedWithOrderType
    <3>2. CASE ~fails
      <4>1. rows = [pay EXCEPT ![p].status = s]
        BY <3>2
      <4> HIDE DEF rows, s
      <4> QED
        BY <2>1, <4>1 DEF TypeOK, PaymentRow, PaymentStatus
    <3> QED
      BY <3>1, <3>2
  <2>4. order' = Cancelled(o) \/ order' = order
    BY <1>5 DEF UpdatePaymentStatus
  <2>5. paid' \in [Orders -> Int] /\ receipt' = receipt /\ sweep' = sweep
    BY <1>5 DEF UpdatePaymentStatus, TypeOK, PaymentRow
  <2> HIDE DEF o, s, rows
  <2>6. /\ pay' \in [Payments -> PaymentRow]
        /\ \A q \in Payments : /\ pay'[q].order = pay[q].order
                               /\ pay'[q].status = "none" <=> pay[q].status = "none"
    BY <2>2, <2>3, EditedType
  <2>7. /\ order' \in [Orders -> OrderRow]
        /\ \A x \in Orders : order[x].status # "none" => order'[x].status # "none"
    BY <2>1, <2>4, CancelledType DEF TypeOK
  <2>8. RowsKept
    BY <2>6, <2>7, UpdateKeepsRows
  <2> QED
    BY <2>5, <2>8, RowsKeptSuffices DEF TypeOK
<1>6. ASSUME NEW p \in Payments, NEW e \in Edits, EditPayment(p, e) PROVE TypeOK'
  <2>1. RowsKept
    BY <1>6, EditedType, UpdateKeepsRows DEF TypeOK, EditPayment
  <2> QED
    BY <1>6, <2>1, RowsKeptSuffices DEF TypeOK, EditPayment
<1>7. ASSUME NEW p \in Payments, NEW ok \in BOOLEAN, VerifyPayment(p, ok) PROVE TypeOK'
  <2> DEFINE o == pay[p].order
  <2>1. pay[p].status # "none" /\ o \in Orders
    BY <1>7 DEF VerifyPayment, TypeOK
  <2>2. CASE pay' = FailedWithOrder(p, "that_bai") /\ paid' = paid
    <3>1. order' = Cancelled(o) \/ order' = order
      BY <1>7 DEF VerifyPayment
    <3>2. RowsKept
      BY <2>1, <2>2, <3>1, FailedWithOrderType, CancelledType, UpdateKeepsRows
      DEF TypeOK, PaymentStatus
    <3> QED
      BY <1>7, <2>2, <3>2, RowsKeptSuffices DEF TypeOK, VerifyPayment
  <2>3. CASE /\ pay' = [pay EXCEPT ![p].status = "thanh_cong"] /\ order' = order
             /\ paid' = [paid EXCEPT ![o] = @ + pay[p].amount]
    <3>1. RowsKept
      BY <2>1, <2>3, UpdateKeepsRows, SMTT(30) DEF TypeOK, PaymentRow, PaymentStatus
    <3> QED
      BY <1>7, <2>3, <3>1, RowsKeptSuffices DEF TypeOK, VerifyPayment, PaymentRow
  <2> QED
    BY <1>7, <2>2, <2>3 DEF VerifyPayment
<1>8. ASSUME NEW o \in Orders, CreateSePayPayment(o) PROVE TypeOK'
  <2> DEFINE row == NewPayment(o, "chuyen_khoan", Remaining(o), "dang_xu_ly")
  <2>1. PICK new \in Payments :
          pay' = [p \in Payments |-> IF p = new THEN row
                                    ELSE IF p \in LiveQR(o)
                                      THEN [pay[p] EXCEPT !.status = "that_bai"]
                                    ELSE pay[p]]
    BY <1>8 DEF CreateSePayPayment
  <2>2. Remaining(o) \in Nat
    BY <1>8 DEF CreateSePayPayment, Remaining, TypeOK, OrderRow
  <2>3. row \in PaymentRow /\ row.order = o /\ row.status # "none"
    BY <2>2, NewPaymentType DEF PaymentStatus
  <2>4. order[o].status # "none" /\ order' = order
    BY <1>8 DEF CreateSePayPayment, AcceptsQR
  <2> HIDE DEF row
  <2>5. pay' \in [Payments -> PaymentRow]
    BY <2>1, <2>3 DEF TypeOK, PaymentRow, PaymentStatus
  <2>6. /\ pay'[new] = row
        /\ \A p \in Payments \ {new} :
             /\ pay'[p].order = pay[p].order
             /\ pay'[p].status = "none" <=> pay[p].status = "none"
    BY <2>1 DEF TypeOK, PaymentRow, LiveQR, PendingQR, WithStatus
  <2>7. RowsKept
    BY <2>3, <2>4, <2>5, <2>6 DEF TypeOK, RowsKept
  <2> QED
    BY <1>8, <2>7, RowsKeptSuffices DEF TypeOK, CreateSePayPayment
<1>9. ASSUME NEW t \in Transfers, NEW c \in PaymentRows \cup {NoPayment}, NEW a \in Amounts,
             Webhook(t, c, a)
      PROVE TypeOK'
  <2>1. receipt' \in [Transfers -> [status : ReceiptStatus \cup {"none"},
                                   payment : Payments \cup {NoPayment}, amount : Nat]]
    BY <1>9, AmountsPositive DEF TypeOK, Webhook, Verdict, ReceiptStatus, PaymentRows
  <2>2. CASE UNCHANGED <<order, pay, paid>>
    BY <1>9, <2>1, <2>2 DEF TypeOK, Webhook
  <2>3. CASE c \in PaymentRows /\ Confirm(t, c)
    <3>1. c \in Payments /\ pay[c].status # "none" /\ pay[c].order \in Orders
      BY <2>3 DEF PaymentRows, TypeOK
    <3>2. /\ pay' \in [Payments -> PaymentRow]
          /\ \A p \in Payments : /\ pay'[p].order = pay[p].order
                                 /\ pay'[p].status = "none" <=> pay[p].status = "none"
      <4>1. pay' = [pay EXCEPT ![c] = [@ EXCEPT !.status = "thanh_cong", !.txn = t]]
        BY <2>3, <3>1 DEF Confirm, TypeOK
      <4>2. [pay[c] EXCEPT !.status = "thanh_cong", !.txn = t] \in PaymentRow
        BY <3>1, ConfirmedRowType DEF TypeOK
      <4> QED
        BY <3>1, <4>1, <4>2 DEF TypeOK, PaymentRow
    <3>3. /\ order' \in [Orders -> OrderRow]
          /\ \A o \in Orders : order[o].status # "none" => order'[o].status # "none"
      BY <2>3, <3>1 DEF Confirm, TypeOK, OrderRow, OrderStatus
    <3>4. paid' \in [Orders -> Int]
      BY <2>3, <3>1 DEF Confirm, TypeOK, PaymentRow
    <3> QED
      BY <1>9, <2>1, <3>2, <3>3, <3>4, UpdateKeepsRows, RowsKeptSuffices DEF Webhook
  <2> QED
    BY <1>9, <2>2, <2>3 DEF Webhook
<1>10. ASSUME NEW t \in Transfers, ConfirmRefund(t) PROVE TypeOK'
  BY <1>10 DEF TypeOK, ConfirmRefund, ReceiptStatus
<1>11. ASSUME NEW last \in Payments, SweepScan(last) PROVE TypeOK'
  BY <1>11 DEF TypeOK, SweepScan, PaymentRows
<1>12. ASSUME NEW p \in Payments, SweepStep(p) PROVE TypeOK'
  <2> DEFINE o == pay[p].order
  <2>1. o \in Orders
    BY <1>12 DEF TypeOK, SweepStep
  <2>2. \/ order' = Cancelled(o) /\ pay' = PaymentsClosed(o)
        \/ order' = order /\ pay' = pay
    BY <1>12 DEF SweepStep, FailUnpaidOrder
  <2> HIDE DEF o
  <2>3. RowsKept
    BY <2>1, <2>2, PaymentsClosedType, CancelledType, UpdateKeepsRows DEF TypeOK
  <2> QED
    BY <1>12, <2>3, RowsKeptSuffices DEF TypeOK, SweepStep
<1>13. ASSUME NEW p \in Payments, SweepError(p) PROVE TypeOK'
  BY <1>13 DEF TypeOK, SweepError, SweepSkip
<1>14. CASE Restart
  BY <1>14 DEF TypeOK, Restart, SweepSkip
<1>15. CASE UNCHANGED vars
  BY <1>15 DEF TypeOK, vars
<1> QED
  BY <1>1, <1>2, <1>3, <1>4, <1>5, <1>6, <1>7, <1>8, <1>9, <1>10, <1>11, <1>12, <1>13,
     <1>14, <1>15
  DEF Next

\* Every table keeps its type, and every payment the order it belongs to.
THEOREM TypeCorrect == Spec => []TypeOK
BY InitTypeOK, NextTypeOK, PTL DEF Spec

----------------------------------------------------------------------------
(* How the rows move                                                       *)

\* What the safety properties need besides: money and payments only of orders that
\* exist, the SePay tag only on transfers, status cho only for pre-orders.
WellFormed ==
  /\ \A o \in Orders : order[o].status = "none" => paid[o] = 0
  /\ \A o \in Orders : order[o].status = "cho" => order[o].kind = "dat_truoc"
  /\ \A p \in Payments : pay[p].status = "none" => pay[p].order = NoOrder
  /\ \A p \in Payments : pay[p].sepay => pay[p].method = "chuyen_khoan"

SafetyInv ==
  /\ TypeOK
  /\ WellFormed
  /\ NoOverCapture
  /\ CancelledHoldsNoMoney
  /\ ReceiptsMatchPayments
  /\ QRMoneyHasReceipt

\* What a step may do to one payment row.
SameRow(p) ==
  /\ pay'[p].order = pay[p].order
  /\ pay'[p].method = pay[p].method
  /\ pay'[p].amount = pay[p].amount
  /\ pay'[p].sepay => pay[p].sepay
Kept(p) == SameRow(p) /\ pay'[p].status = pay[p].status
Failed(p) == SameRow(p) /\ pay[p].status = "dang_xu_ly" /\ pay'[p].status = "that_bai"
Refunded(p) == SameRow(p) /\ pay[p].status = "thanh_cong" /\ pay'[p].status = "da_hoan_tien"
Captured(p) ==
  /\ SameRow(p)
  /\ pay[p].status = "dang_xu_ly" /\ pay'[p].status = "thanh_cong"
  /\ order'[pay[p].order].status # "da_huy"
  /\ pay[p].method = "chuyen_khoan" => \E t \in Transfers :
       /\ receipt[t].status = "none"
       /\ receipt'[t].status = "confirmed"
       /\ receipt'[t].payment = p
Inserted(p) ==
  /\ pay[p].status = "none" /\ NextId(p)
  /\ pay'[p].amount > 0
  /\ pay'[p].order \in Orders
  /\ order'[pay'[p].order].status # "da_huy"
  /\ pay'[p].status = "dang_xu_ly" \/ pay'[p].status = "thanh_cong"
  /\ pay'[p].status = "thanh_cong" => pay'[p].method # "chuyen_khoan"
  /\ pay'[p].sepay => pay'[p].method = "chuyen_khoan"

PaymentMoves ==
  \A p \in Payments : Kept(p) \/ Failed(p) \/ Refunded(p) \/ Captured(p) \/ Inserted(p)

\* An order that a step cancels held no money and loses its pending payments.
OrderMoves ==
  \A o \in Orders : order[o].status # "da_huy" /\ order'[o].status = "da_huy" =>
    \A p \in PaymentsOf(o) : /\ pay[p].status # "thanh_cong"
                             /\ pay[p].status = "dang_xu_ly" => Failed(p)

\* A receipt is kept, refunded, or written once; "confirmed" with the capture.
ReceiptMoves ==
  \A t \in Transfers :
    \/ receipt'[t] = receipt[t]
    \/ /\ receipt[t].status \in {"refund_required", "unmatched"}
       /\ receipt'[t].status = "refunded"
    \/ receipt[t].status = "none" /\ receipt'[t].status # "confirmed"
    \/ /\ receipt[t].status = "none" /\ receipt'[t].status = "confirmed"
       /\ receipt'[t].payment \in Payments
       /\ Captured(receipt'[t].payment)
       /\ pay[receipt'[t].payment].method = "chuyen_khoan"
       /\ pay[receipt'[t].payment].amount = receipt'[t].amount
       /\ \A u \in Transfers \ {t} : receipt'[u] = receipt[u]

Moves == PaymentMoves /\ OrderMoves /\ ReceiptMoves

LEMMA UnchangedMoves ==
  ASSUME TypeOK, UNCHANGED <<order, pay, receipt>>
  PROVE  Moves
BY DEF Moves, PaymentMoves, OrderMoves, ReceiptMoves, Kept, SameRow

\* Cancelling moves the rows, whoever does it.
LEMMA CancelMoves ==
  ASSUME TypeOK, NEW o \in Orders, Cancellable(o), order[o].status # "none",
         order' = Cancelled(o), receipt' = receipt,
         pay' \in [Payments -> PaymentRow],
         \A p \in Payments : /\ SameRow(p)
                             /\ pay'[p].status = PaymentsClosed(o)[p].status
  PROVE  Moves
<1>1. \A p \in Payments : \/ Kept(p) /\ ~(pay[p].order = o /\ pay[p].status = "dang_xu_ly")
                          \/ Failed(p) /\ pay[p].order = o
  BY DEF PaymentsClosed, WithStatus, PaymentsOf, Kept, Failed, TypeOK, PaymentRow
<1>2. PaymentMoves
  BY <1>1 DEF PaymentMoves
<1>3. OrderMoves
  <2>1. \A x \in Orders : x # o => order'[x] = order[x]
    BY DEF Cancelled, TypeOK
  <2>2. \A p \in PaymentsOf(o) : pay[p].status # "thanh_cong"
    BY DEF Cancellable, WithStatus
  <2> QED
    BY <1>1, <2>1, <2>2 DEF OrderMoves, PaymentsOf
<1>4. ReceiptMoves
  BY DEF ReceiptMoves
<1> QED
  BY <1>2, <1>3, <1>4 DEF Moves
\* Inserting a payment into a table, with the rows of other payments kept or failed.
LEMMA InsertMoves ==
  ASSUME TypeOK, NEW new \in Payments, pay[new].status = "none", Inserted(new),
         \A p \in Payments \ {new} : Kept(p) \/ Failed(p),
         \A o \in Orders : order'[o].status = "da_huy" => order[o].status = "da_huy",
         receipt' = receipt
  PROVE  Moves
BY DEF Moves, PaymentMoves, OrderMoves, ReceiptMoves

LEMMA NextMoves == SafetyInv /\ [Next]_vars => Moves
<1> SUFFICES ASSUME SafetyInv, [Next]_vars PROVE Moves
  OBVIOUS
<1> USE DEF SafetyInv
<1>1. ASSUME NEW o \in Orders, NEW f \in OrderForms, CreateOrder(o, f) PROVE Moves
  <2> DEFINE row == NewPayment(o, "chuyen_khoan", f.due, "dang_xu_ly")
  <2>1. \A x \in Orders : order'[x].status = "da_huy" => order[x].status = "da_huy"
    BY <1>1 DEF CreateOrder, TypeOK
  <2>2. CASE pay' = pay
    BY <1>1, <2>1, <2>2 DEF CreateOrder, Moves, PaymentMoves, OrderMoves, ReceiptMoves, Kept, SameRow
  <2>3. ASSUME NEW new \in Payments, NextId(new), f.due > 0, pay' = [pay EXCEPT ![new] = row]
        PROVE  Moves
    <3>1. pay[new].status = "none"
      BY <2>3, PaymentIds DEF NextId
    <3>2. pay'[new] = row /\ \A p \in Payments \ {new} : pay'[p] = pay[p]
      BY <2>3 DEF TypeOK
    <3>3. order'[o].status # "da_huy"
      BY <1>1 DEF CreateOrder, TypeOK
    <3>4. Inserted(new)
      BY <1>1, <2>3, <3>1, <3>2, <3>3, FormsAreForms
      DEF Inserted, NewPayment, CreateOrder, OrderForm
    <3>5. receipt' = receipt
      BY <1>1 DEF CreateOrder
    <3> QED
      BY <2>1, <3>1, <3>2, <3>4, <3>5, InsertMoves DEF Kept, SameRow
  <2> QED
    BY <1>1, <2>2, <2>3 DEF CreateOrder
<1>2. ASSUME NEW o \in Orders, NEW s \in OrderStatus, UpdateOrderStatus(o, s) PROVE Moves
  <2>1. s # "da_huy"
    BY <1>2 DEF UpdateOrderStatus, Transitions
  <2>2. \A x \in Orders : order'[x].status = "da_huy" => order[x].status = "da_huy"
    BY <1>2, <2>1 DEF UpdateOrderStatus, TypeOK, OrderRow
  <2> QED
    BY <1>2, <2>2 DEF UpdateOrderStatus, Moves, PaymentMoves, OrderMoves, ReceiptMoves, Kept, SameRow
<1>3. ASSUME NEW o \in Orders, CancelOrder(o) PROVE Moves
  <2>1. \A p \in Payments : SameRow(p)
    BY <1>3 DEF CancelOrder, PaymentsClosed, SameRow, TypeOK, PaymentRow
  <2> QED
    BY <1>3, <2>1, CancelMoves, PaymentsClosedType DEF CancelOrder, OrderStatus
<1>4. ASSUME NEW o \in Orders, NEW m \in Methods, NEW a \in Amounts,
             CreateManualPayment(o, m, a)
      PROVE Moves
  <2> DEFINE s == IF m = "tien_mat" THEN "thanh_cong" ELSE "dang_xu_ly"
             row == NewPayment(o, m, a, s)
  <2>1. PICK new \in Payments : NextId(new) /\ pay' = [pay EXCEPT ![new] = row]
    BY <1>4 DEF CreateManualPayment
  <2>2. pay[new].status = "none"
    BY <2>1, PaymentIds DEF NextId
  <2>3. pay'[new] = row /\ \A p \in Payments \ {new} : pay'[p] = pay[p]
    BY <2>1 DEF TypeOK
  <2>4. Inserted(new)
    <3>1. m # "chuyen_khoan"
      BY InputSets DEF ManualMethods
    <3>2. /\ row.order = o /\ row.sepay = (m = "chuyen_khoan")
          /\ row.status = "dang_xu_ly" \/ row.status = "thanh_cong"
          /\ row.method = m /\ row.amount = a /\ a > 0
      BY AmountsPositive DEF NewPayment
    <3>3. order'[o].status # "da_huy"
      BY <1>4 DEF CreateManualPayment
    <3> HIDE DEF row
    <3> QED
      BY <2>1, <2>2, <2>3, <3>1, <3>2, <3>3 DEF Inserted
  <2> QED
    BY <1>4, <2>2, <2>3, <2>4, InsertMoves DEF Kept, SameRow, CreateManualPayment
<1>6. ASSUME NEW p \in Payments, NEW e \in Edits, EditPayment(p, e) PROVE Moves
  <2>1. \A q \in Payments : Kept(q)
    BY <1>6, EditedType DEF EditPayment, TypeOK, Kept, SameRow
  <2> QED
    BY <1>6, <2>1 DEF EditPayment, Moves, PaymentMoves, OrderMoves, ReceiptMoves
<1>8. ASSUME NEW o \in Orders, CreateSePayPayment(o) PROVE Moves
  <2> DEFINE row == NewPayment(o, "chuyen_khoan", Remaining(o), "dang_xu_ly")
  <2>1. PICK new \in Payments :
          /\ NextId(new)
          /\ pay' = [p \in Payments |-> IF p = new THEN row
                                       ELSE IF p \in LiveQR(o)
                                         THEN [pay[p] EXCEPT !.status = "that_bai"]
                                       ELSE pay[p]]
    BY <1>8 DEF CreateSePayPayment
  <2>2. pay[new].status = "none"
    BY <2>1, PaymentIds DEF NextId
  <2>3. pay'[new] = row
    BY <2>1
  <2>4. order[o].status # "da_huy" /\ order' = order /\ receipt' = receipt /\ Remaining(o) > 0
    BY <1>8 DEF CreateSePayPayment, AcceptsQR
  <2>5. Inserted(new)
    BY <2>1, <2>2, <2>3, <2>4 DEF Inserted, NewPayment
  <2>6. \A p \in Payments \ {new} : Kept(p) \/ Failed(p)
    BY <2>1 DEF TypeOK, PaymentRow, LiveQR, PendingQR, WithStatus, Kept, Failed, SameRow
  <2> QED
    BY <2>2, <2>4, <2>5, <2>6, InsertMoves
<1>10. ASSUME NEW t \in Transfers, ConfirmRefund(t) PROVE Moves
  BY <1>10 DEF ConfirmRefund, TypeOK, Moves, PaymentMoves, OrderMoves, ReceiptMoves, Kept, SameRow
<1>11. ASSUME NEW last \in Payments, SweepScan(last) PROVE Moves
  BY <1>11, UnchangedMoves DEF SweepScan
<1>12. ASSUME NEW p \in Payments, SweepStep(p) PROVE Moves
  <2> DEFINE o == pay[p].order
  <2>1. CASE order' = order /\ pay' = pay
    BY <1>12, <2>1, UnchangedMoves DEF SweepStep
  <2>2. CASE Cancellable(o) /\ order' = Cancelled(o) /\ pay' = PaymentsClosed(o)
    <3>1. o \in Orders /\ order[o].status # "none"
      BY <1>12 DEF SweepStep, TypeOK
    <3>2. \A q \in Payments : SameRow(q)
      BY <2>2 DEF PaymentsClosed, SameRow, TypeOK, PaymentRow
    <3>3. pay' \in [Payments -> PaymentRow] /\ receipt' = receipt
      BY <1>12, <2>2, <3>1, PaymentsClosedType DEF SweepStep
    <3> QED
      BY <2>2, <3>1, <3>2, <3>3, CancelMoves
  <2> QED
    BY <1>12, <2>1, <2>2 DEF SweepStep, FailUnpaidOrder
<1>13. ASSUME NEW p \in Payments, SweepError(p) PROVE Moves
  BY <1>13, UnchangedMoves DEF SweepError, SweepSkip
<1>14. CASE Restart
  BY <1>14, UnchangedMoves DEF Restart, SweepSkip
<1>15. CASE UNCHANGED vars
  BY <1>15, UnchangedMoves DEF vars
<1>5. ASSUME NEW p \in Payments, NEW req \in PaymentStatus \cup {"huy"}, NEW e \in Edits,
             UpdatePaymentStatus(p, req, e)
      PROVE Moves
  <2> DEFINE o == pay[p].order
             s == Requested(req)
             old == pay[p].status
             fails == s \in {"that_bai", "da_hoan_tien"} /\ old # "thanh_cong"
             rows == IF fails THEN FailedWithOrder(p, s) ELSE [pay EXCEPT ![p].status = s]
             cancels == fails /\ order[o].status # "da_huy" /\ Cancellable(o)
  <2>1. s \in PaymentStatus /\ old # "none" /\ o \in Orders /\ order[o].status # "none"
    BY <1>5 DEF UpdatePaymentStatus, TypeOK, Requested, PaymentStatus
  <2>2. /\ pay' = Edited(rows, p, e)
        /\ order' = IF cancels THEN Cancelled(o) ELSE order
        /\ receipt' = receipt
    BY <1>5 DEF UpdatePaymentStatus
  <2>3. CASE cancels
    <3>1. rows = PaymentsClosed(o)
      BY <2>3 DEF FailedWithOrder
    <3>2. \A q \in Payments : /\ rows[q].order = pay[q].order
                              /\ rows[q].method = pay[q].method
                              /\ rows[q].amount = pay[q].amount
                              /\ rows[q].sepay = pay[q].sepay
      BY <3>1 DEF PaymentsClosed, TypeOK, PaymentRow
    <3>3. rows \in [Payments -> PaymentRow]
      BY <2>1, <3>1, PaymentsClosedType
    <3> HIDE DEF rows, o, s
    <3>4. /\ pay' \in [Payments -> PaymentRow]
          /\ \A q \in Payments : SameRow(q) /\ pay'[q].status = rows[q].status
      BY <2>2, <3>2, <3>3, EditedType DEF SameRow
    <3> QED
      BY <2>1, <2>2, <2>3, <3>1, <3>4, CancelMoves
  <2>4. CASE ~cancels
    <3>1. \/ rows = pay
          \/ /\ rows = [pay EXCEPT ![p].status = s]
             /\ \/ s = old
                \/ old = "thanh_cong" /\ s = "da_hoan_tien"
                \/ /\ old = "dang_xu_ly" /\ s = "thanh_cong"
                   /\ order[o].status # "da_huy" /\ pay[p].method # "chuyen_khoan"
      <4>1. CASE fails /\ order[o].status = "da_huy"
        <5>1. old \in {"that_bai", "da_hoan_tien"}
          BY <2>1, <4>1 DEF CancelledHoldsNoMoney, PaymentsOf
        <5>2. s = old
          BY <1>5, <5>1 DEF UpdatePaymentStatus
        <5> QED
          BY <4>1, <5>2 DEF FailedWithOrder
      <4>2. CASE fails /\ order[o].status # "da_huy"
        BY <2>4, <4>2 DEF FailedWithOrder
      <4>3. CASE ~fails
        BY <1>5, <2>1, <4>3 DEF UpdatePaymentStatus, PaymentStatus, TypeOK, PaymentRow
      <4> QED
        BY <4>1, <4>2, <4>3
    <3>2. rows \in [Payments -> PaymentRow]
      <4>1. CASE rows = pay
        BY <4>1 DEF TypeOK
      <4>2. CASE rows = [pay EXCEPT ![p].status = s]
        <5> HIDE DEF rows, s
        <5> QED
          BY <2>1, <4>2 DEF TypeOK, PaymentRow
      <4> QED
        BY <3>1, <4>1, <4>2
    <3>3. \A q \in Payments : /\ rows[q].order = pay[q].order
                              /\ rows[q].method = pay[q].method
                              /\ rows[q].amount = pay[q].amount
                              /\ rows[q].sepay => pay[q].sepay
                              /\ q # p => rows[q].status = pay[q].status
      <4>1. CASE rows = pay
        BY <4>1
      <4>2. CASE rows = [pay EXCEPT ![p].status = s]
        <5> HIDE DEF rows, s
        <5> QED
          BY <4>2 DEF TypeOK, PaymentRow
      <4> QED
        BY <3>1, <4>1, <4>2
    <3>4. rows[p].status = old \/ rows[p].status = s
      BY <3>1, ZenonT(40) DEF TypeOK, PaymentRow
    <3>5. order' = order
      BY <2>2, <2>4
    <3> HIDE DEF rows, s, cancels
    <3>6. \A q \in Payments : SameRow(q) /\ pay'[q].status = rows[q].status
      <4>1. \A q \in Payments : /\ pay'[q].order = rows[q].order
                                /\ pay'[q].status = rows[q].status
                                /\ pay'[q].method = rows[q].method
                                /\ pay'[q].amount = rows[q].amount
                                /\ pay'[q].sepay => rows[q].sepay
        BY <2>2, <3>2, EditedType
      <4> QED
        BY <3>3, <4>1 DEF SameRow
    <3>7. Kept(p) \/ Refunded(p) \/ Captured(p)
      <4>1. CASE rows = pay
        BY <3>6, <4>1 DEF Kept
      <4>2. CASE rows = [pay EXCEPT ![p].status = s]
        <5>1. rows[p].status = s
          BY <4>2 DEF TypeOK, PaymentRow
        <5> QED
          BY <3>1, <3>5, <3>6, <4>2, <5>1 DEF Kept, Refunded, Captured
      <4> QED
        BY <3>1, <4>1, <4>2
    <3>8. \A q \in Payments \ {p} : Kept(q)
      BY <3>3, <3>6 DEF Kept
    <3>9. PaymentMoves
      BY <3>7, <3>8 DEF PaymentMoves
    <3> QED
      BY <2>2, <3>5, <3>9 DEF Moves, OrderMoves, ReceiptMoves
  <2> QED
    BY <2>3, <2>4
<1>7. ASSUME NEW p \in Payments, NEW ok \in BOOLEAN, VerifyPayment(p, ok) PROVE Moves
  <2> DEFINE o == pay[p].order
  <2>1. /\ pay[p].status = "dang_xu_ly" /\ o \in Orders
        /\ order[o].status # "none" /\ order[o].status # "da_huy"
        /\ pay[p].method # "chuyen_khoan" /\ receipt' = receipt
    BY <1>7 DEF VerifyPayment, TypeOK
  <2>2. CASE pay' = [pay EXCEPT ![p].status = "thanh_cong"] /\ order' = order
    <3>1. Captured(p) /\ \A q \in Payments \ {p} : Kept(q)
      BY <2>1, <2>2 DEF TypeOK, PaymentRow, Captured, Kept, SameRow
    <3> QED
      BY <2>1, <2>2, <3>1 DEF Moves, PaymentMoves, OrderMoves, ReceiptMoves
  <2>3. CASE /\ pay' = FailedWithOrder(p, "that_bai")
             /\ order' = IF Cancellable(o) THEN Cancelled(o) ELSE order
    <3>1. CASE Cancellable(o)
      <4>1. pay' = PaymentsClosed(o) /\ order' = Cancelled(o)
        BY <2>1, <2>3, <3>1 DEF FailedWithOrder
      <4>2. \A q \in Payments : SameRow(q)
        BY <4>1 DEF PaymentsClosed, SameRow, TypeOK, PaymentRow
      <4> QED
        BY <2>1, <3>1, <4>1, <4>2, PaymentsClosedType, CancelMoves
    <3>2. CASE ~Cancellable(o)
      BY <2>1, <2>3, <3>2, UnchangedMoves DEF FailedWithOrder
    <3> QED
      BY <3>1, <3>2
  <2> QED
    BY <1>7, <2>2, <2>3 DEF VerifyPayment
<1>9. ASSUME NEW t \in Transfers, NEW c \in PaymentRows \cup {NoPayment}, NEW a \in Amounts,
             Webhook(t, c, a)
      PROVE Moves
  <2> DEFINE verdict == IF c = NoPayment THEN "unmatched" ELSE Verdict(c, a)
             new == [status |-> verdict, payment |-> c, amount |-> a]
  <2>1. /\ receipt[t].status = "none"
        /\ receipt' = [receipt EXCEPT ![t] = new]
        /\ IF verdict = "confirmed" THEN Confirm(t, c) ELSE UNCHANGED <<order, pay, paid>>
    BY <1>9 DEF Webhook, Known
  <2>2. receipt'[t] = new /\ \A u \in Transfers \ {t} : receipt'[u] = receipt[u]
    BY <2>1 DEF TypeOK
  <2>3. CASE verdict # "confirmed"
    BY <2>1, <2>2, <2>3 DEF Moves, PaymentMoves, OrderMoves, ReceiptMoves, Kept, SameRow
  <2>4. CASE verdict = "confirmed"
    <3>1. c \in Payments /\ c # NoPayment /\ pay[c].order \in Orders
      BY <2>4, NullIds DEF PaymentRows, TypeOK
    <3>2. /\ ValidProvider(c) /\ pay[c].status = "dang_xu_ly" /\ a = pay[c].amount
          /\ order[pay[c].order].status # "da_huy"
      BY <2>4, <3>1 DEF Verdict
    <3>3. pay[c].method = "chuyen_khoan"
      BY <3>1, <3>2 DEF ValidProvider, WellFormed
    <3>4. pay' = [pay EXCEPT ![c] = [@ EXCEPT !.status = "thanh_cong", !.txn = t]]
      BY <2>1, <2>4, <3>1 DEF Confirm, TypeOK
    <3>9. \A o \in Orders : order'[o].status = "da_huy" <=> order[o].status = "da_huy"
      BY <2>1, <2>4, <3>1 DEF Confirm, TypeOK, OrderRow
    <3>5. SameRow(c) /\ pay'[c].status = "thanh_cong" /\ \A q \in Payments \ {c} : Kept(q)
      BY <3>1, <3>4 DEF TypeOK, PaymentRow, Kept, SameRow
    <3>6. Captured(c)
      BY <2>1, <2>2, <2>4, <3>1, <3>2, <3>5, <3>9 DEF Captured
    <3>7. PaymentMoves /\ OrderMoves
      BY <3>5, <3>6, <3>9 DEF PaymentMoves, OrderMoves
    <3>8. ReceiptMoves
      BY <2>1, <2>2, <2>4, <3>1, <3>2, <3>3, <3>6 DEF ReceiptMoves
    <3> QED
      BY <3>7, <3>8 DEF Moves
  <2> QED
    BY <2>3, <2>4
<1> QED
  BY <1>1, <1>2, <1>3, <1>4, <1>5, <1>6, <1>7, <1>8, <1>9, <1>10, <1>11, <1>12, <1>13,
     <1>14, <1>15
  DEF Next
\* What a step may do to an order and the money it holds.
MoneyMoves ==
  \A o \in Orders :
    /\ order'[o].status = "none" => order[o].status = "none" /\ paid'[o] = paid[o]
    /\ order'[o].status = "cho" => order'[o].kind = "dat_truoc"
    /\ paid'[o] <= order'[o].due

\* Cancelling and failing leave kind, price and money alone.
LEMMA StatusOnlyMoves ==
  ASSUME SafetyInv, paid' = paid, NEW o \in Orders, NEW s \in OrderStatus \ {"cho"},
         order[o].status # "none",
         order' = order \/ order' = [order EXCEPT ![o].status = s]
  PROVE  MoneyMoves
BY DEF SafetyInv, TypeOK, OrderRow, OrderStatus, WellFormed, NoOverCapture, MoneyMoves

LEMMA UnchangedMoney ==
  ASSUME SafetyInv, paid' = paid, order' = order
  PROVE  MoneyMoves
BY DEF SafetyInv, WellFormed, NoOverCapture, MoneyMoves

\* Money that fits the balance of an order that exists, and money given back.
LEMMA BalanceMoves ==
  ASSUME SafetyInv, order' = order, NEW o \in Orders, order[o].status # "none",
         \A x \in Orders \ {o} : paid'[x] = paid[x],
         paid'[o] <= order[o].due
  PROVE  MoneyMoves
BY DEF SafetyInv, WellFormed, NoOverCapture, MoneyMoves

LEMMA NextMoney == SafetyInv /\ [Next]_vars => MoneyMoves
<1> SUFFICES ASSUME SafetyInv, [Next]_vars PROVE MoneyMoves
  OBVIOUS
<1>0. TypeOK
  BY DEF SafetyInv
<1>1. ASSUME NEW o \in Orders, NEW f \in OrderForms, CreateOrder(o, f) PROVE MoneyMoves
  <2>1. f.due \in Nat /\ paid' = paid /\ paid[o] = 0
    BY <1>1, FormsAreForms DEF OrderForm, CreateOrder, SafetyInv, WellFormed
  <2>2. /\ order'[o].status # "none" /\ order'[o].due = f.due
        /\ order'[o].status = "cho" => order'[o].kind = "dat_truoc"
        /\ \A x \in Orders \ {o} : order'[x] = order[x]
    BY <1>0, <1>1 DEF CreateOrder, TypeOK
  <2> QED
    BY <2>1, <2>2 DEF MoneyMoves, SafetyInv, WellFormed, NoOverCapture
<1>2. ASSUME NEW o \in Orders, NEW s \in OrderStatus, UpdateOrderStatus(o, s) PROVE MoneyMoves
  <2>1. s # "cho" /\ order[o].status # "none"
    BY <1>2 DEF UpdateOrderStatus, Transitions, OrderStatus
  <2> QED
    BY <1>2, <2>1, StatusOnlyMoves DEF UpdateOrderStatus
<1>3. ASSUME NEW o \in Orders, CancelOrder(o) PROVE MoneyMoves
  BY <1>3, StatusOnlyMoves DEF CancelOrder, Cancelled, OrderStatus
<1>4. ASSUME NEW o \in Orders, NEW m \in Methods, NEW a \in Amounts,
             CreateManualPayment(o, m, a)
      PROVE MoneyMoves
  <2>1. /\ order[o].status # "none" /\ order' = order /\ a <= Remaining(o) /\ a \in Int
        /\ paid' = paid \/ paid' = [paid EXCEPT ![o] = @ + a]
    BY <1>4, AmountsPositive DEF CreateManualPayment, OrderStatus
  <2>2. CASE paid' = [paid EXCEPT ![o] = @ + a]
    <3>1. paid'[o] <= order[o].due /\ \A x \in Orders \ {o} : paid'[x] = paid[x]
      BY <1>0, <2>1, <2>2 DEF TypeOK, OrderRow, Remaining
    <3> QED
      BY <2>1, <3>1, BalanceMoves
  <2> QED
    BY <2>1, <2>2, UnchangedMoney
<1>5. ASSUME NEW p \in Payments, NEW req \in PaymentStatus \cup {"huy"}, NEW e \in Edits,
             UpdatePaymentStatus(p, req, e)
      PROVE MoneyMoves
  <2> DEFINE o == pay[p].order
             s == Requested(req)
             a == pay[p].amount
  <2>1. o \in Orders /\ order[o].status # "none" /\ a \in Nat
    BY <1>0, <1>5 DEF UpdatePaymentStatus, TypeOK, PaymentRow
  <2>2. CASE s = "thanh_cong" /\ pay[p].status # s
    <3>1. /\ order' = order /\ paid' = [paid EXCEPT ![o] = @ + a]
          /\ a <= Remaining(o)
      BY <1>5, <2>2 DEF UpdatePaymentStatus, FitsBalance
    <3>2. paid'[o] <= order[o].due /\ \A x \in Orders \ {o} : paid'[x] = paid[x]
      BY <1>0, <2>1, <3>1 DEF TypeOK, OrderRow, Remaining
    <3> QED
      BY <2>1, <3>1, <3>2, BalanceMoves
  <2>3. CASE pay[p].status = "thanh_cong" /\ s # "thanh_cong"
    <3>1. order' = order /\ paid' = [paid EXCEPT ![o] = @ - a]
      BY <1>5, <2>3 DEF UpdatePaymentStatus
    <3>2. paid'[o] <= order[o].due /\ \A x \in Orders \ {o} : paid'[x] = paid[x]
      BY <1>0, <2>1, <3>1 DEF TypeOK, OrderRow, SafetyInv, NoOverCapture
    <3> QED
      BY <2>1, <3>1, <3>2, BalanceMoves
  <2>4. CASE paid' = paid
    <3>1. order' = order \/ order' = [order EXCEPT ![o].status = "da_huy"]
      BY <1>5 DEF UpdatePaymentStatus, Cancelled
    <3> QED
      BY <2>1, <2>4, <3>1, StatusOnlyMoves DEF OrderStatus
  <2> QED
    BY <1>5, <2>2, <2>3, <2>4 DEF UpdatePaymentStatus
<1>6. ASSUME NEW p \in Payments, NEW e \in Edits, EditPayment(p, e) PROVE MoneyMoves
  BY <1>6, UnchangedMoney DEF EditPayment
<1>7. ASSUME NEW p \in Payments, NEW ok \in BOOLEAN, VerifyPayment(p, ok) PROVE MoneyMoves
  <2> DEFINE o == pay[p].order
  <2>1. o \in Orders /\ order[o].status # "none" /\ pay[p].amount \in Nat
    BY <1>0, <1>7 DEF VerifyPayment, TypeOK, PaymentRow
  <2>2. CASE /\ FitsBalance(p) /\ order' = order
             /\ paid' = [paid EXCEPT ![o] = @ + pay[p].amount]
    <3>1. paid'[o] <= order[o].due /\ \A x \in Orders \ {o} : paid'[x] = paid[x]
      BY <1>0, <2>1, <2>2 DEF TypeOK, OrderRow, Remaining, FitsBalance
    <3> QED
      BY <2>1, <2>2, <3>1, BalanceMoves
  <2>3. CASE /\ paid' = paid
             /\ order' = order \/ order' = [order EXCEPT ![o].status = "da_huy"]
    BY <2>1, <2>3, StatusOnlyMoves DEF OrderStatus
  <2> QED
    BY <1>7, <2>2, <2>3 DEF VerifyPayment, Cancelled
<1>8. ASSUME NEW o \in Orders, CreateSePayPayment(o) PROVE MoneyMoves
  BY <1>8, UnchangedMoney DEF CreateSePayPayment
<1>9. ASSUME NEW t \in Transfers, NEW c \in PaymentRows \cup {NoPayment}, NEW a \in Amounts,
             Webhook(t, c, a)
      PROVE MoneyMoves
  <2>1. CASE UNCHANGED <<order, pay, paid>>
    BY <2>1, UnchangedMoney
  <2>2. CASE c # NoPayment /\ Verdict(c, a) = "confirmed" /\ Confirm(t, c)
    <3> DEFINE o == pay[c].order
    <3>1. /\ o \in Orders /\ order[o].status # "none" /\ pay[c].amount \in Nat
          /\ pay[c].amount <= Remaining(o)
      BY <1>0, <2>2 DEF PaymentRows, TypeOK, PaymentRow, Verdict, FitsBalance
    <3>2. /\ paid' = [paid EXCEPT ![o] = @ + pay[c].amount]
          /\ order' = order \/ order' = [order EXCEPT ![o].status = "dang_xu_ly"]
      BY <1>0, <2>2, <3>1 DEF Confirm, TypeOK
    <3>3. /\ paid'[o] <= order[o].due
          /\ \A x \in Orders \ {o} : paid'[x] = paid[x]
      BY <1>0, <3>1, <3>2 DEF TypeOK, OrderRow, PaymentRow, Remaining
    <3>4. \A x \in Orders : /\ order'[x].due = order[x].due
                            /\ order'[x].kind = order[x].kind
                            /\ order'[x].status = "none" => order[x].status = "none" /\ x # o
                            /\ order'[x].status = "cho" => order[x].status = "cho"
      BY <1>0, <3>1, <3>2 DEF TypeOK, OrderRow
    <3> QED
      BY <3>3, <3>4 DEF MoneyMoves, SafetyInv, WellFormed, NoOverCapture
  <2> QED
    BY <1>9, <2>1, <2>2 DEF Webhook
<1>10. ASSUME NEW t \in Transfers, ConfirmRefund(t) PROVE MoneyMoves
  BY <1>10, UnchangedMoney DEF ConfirmRefund
<1>11. ASSUME NEW last \in Payments, SweepScan(last) PROVE MoneyMoves
  BY <1>11, UnchangedMoney DEF SweepScan
<1>12. ASSUME NEW p \in Payments, SweepStep(p) PROVE MoneyMoves
  <2> DEFINE o == pay[p].order
  <2>1. o \in Orders /\ order[o].status # "none" /\ paid' = paid
    BY <1>0, <1>12 DEF SweepStep, TypeOK
  <2>2. order' = order \/ order' = [order EXCEPT ![o].status = "da_huy"]
    BY <1>12 DEF SweepStep, FailUnpaidOrder, Cancelled
  <2> QED
    BY <2>1, <2>2, StatusOnlyMoves DEF OrderStatus
<1>13. ASSUME NEW p \in Payments, SweepError(p) PROVE MoneyMoves
  BY <1>13, UnchangedMoney DEF SweepError, SweepSkip
<1>14. CASE Restart
  BY <1>14, UnchangedMoney DEF Restart, SweepSkip
<1>15. CASE UNCHANGED vars
  BY <1>15, UnchangedMoney DEF vars
<1> QED
  BY <1>1, <1>2, <1>3, <1>4, <1>5, <1>6, <1>7, <1>8, <1>9, <1>10, <1>11, <1>12, <1>13,
     <1>14, <1>15
  DEF Next
----------------------------------------------------------------------------
(* Safety                                                                  *)

LEMMA InitSafety == Init => SafetyInv
<1> SUFFICES ASSUME Init PROVE SafetyInv
  OBVIOUS
<1>1. TypeOK
  BY InitTypeOK
<1>2. /\ \A o \in Orders : paid[o] = 0 /\ order[o].status \in {"none", "cho_coc"}
      /\ \A p \in Payments : pay[p] = NullPayment
      /\ \A t \in Transfers : receipt[t].status = "none"
  BY DEF Init, NullOrder, NullReceipt
<1>3. \A o \in Orders : order[o].due \in Nat
  BY <1>1 DEF TypeOK, OrderRow
<1>4. WellFormed /\ NoOverCapture
  BY <1>2, <1>3 DEF WellFormed, NoOverCapture, NullPayment
<1>5. CancelledHoldsNoMoney /\ QRMoneyHasReceipt
  BY <1>2 DEF CancelledHoldsNoMoney, QRMoneyHasReceipt, NullPayment
<1>6. ReceiptsMatchPayments
  BY <1>2 DEF ReceiptsMatchPayments
<1> QED
  BY <1>1, <1>4, <1>5, <1>6 DEF SafetyInv

LEMMA NextSafety == SafetyInv /\ [Next]_vars => SafetyInv'
<1> SUFFICES ASSUME SafetyInv, [Next]_vars PROVE SafetyInv'
  OBVIOUS
<1>1. TypeOK /\ TypeOK' /\ PaymentMoves /\ OrderMoves /\ ReceiptMoves /\ MoneyMoves
  BY NextTypeOK, NextMoves, NextMoney DEF SafetyInv, Moves
<1>2. WellFormed'
  <2>1. \A p \in Payments : /\ pay'[p].status = "none" => pay'[p].order = NoOrder
                            /\ pay'[p].sepay => pay'[p].method = "chuyen_khoan"
    BY <1>1 DEF SafetyInv, WellFormed, PaymentMoves, Kept, Failed, Refunded, Captured,
                Inserted, SameRow
  <2>2. \A o \in Orders : /\ order'[o].status = "none" => paid'[o] = 0
                          /\ order'[o].status = "cho" => order'[o].kind = "dat_truoc"
    BY <1>1 DEF SafetyInv, WellFormed, MoneyMoves
  <2> QED
    BY <2>1, <2>2 DEF WellFormed
<1>3. NoOverCapture'
  BY <1>1 DEF MoneyMoves, NoOverCapture
<1>4. CancelledHoldsNoMoney'
  <2> SUFFICES ASSUME NEW o \in Orders, order'[o].status = "da_huy",
                      NEW p \in Payments, pay'[p].order = o
               PROVE  pay'[p].status \in {"that_bai", "da_hoan_tien"}
    BY DEF CancelledHoldsNoMoney, PaymentsOf
  <2>1. SameRow(p) /\ ~Inserted(p) /\ ~Captured(p)
    <3>1. ~Inserted(p)
      BY DEF Inserted
    <3>2. SameRow(p)
      BY <1>1, <3>1 DEF PaymentMoves, Kept, Failed, Refunded, Captured
    <3> QED
      BY <3>1, <3>2 DEF Captured, SameRow
  <2>2. pay[p].order = o /\ pay[p].status # "none" /\ pay[p].status \in PaymentStatus \cup {"none"}
    BY <1>1, <2>1, NullIds DEF SameRow, SafetyInv, WellFormed, TypeOK, PaymentRow
  <2>3. Kept(p) \/ Failed(p) \/ Refunded(p)
    BY <1>1, <2>1 DEF PaymentMoves
  <2>4. CASE order[o].status = "da_huy"
    <3>1. pay[p].status \in {"that_bai", "da_hoan_tien"}
      BY <2>2, <2>4 DEF SafetyInv, CancelledHoldsNoMoney, PaymentsOf
    <3> QED
      BY <2>3, <3>1 DEF Kept, Failed, Refunded
  <2>5. CASE order[o].status # "da_huy"
    <3>1. pay[p].status # "thanh_cong" /\ (pay[p].status = "dang_xu_ly" => Failed(p))
      BY <1>1, <2>2, <2>5 DEF OrderMoves, PaymentsOf
    <3> QED
      BY <2>2, <2>3, <3>1 DEF Kept, Failed, Refunded, PaymentStatus
  <2> QED
    BY <2>4, <2>5
<1>5. ReceiptsMatchPayments'
  <2>1. ASSUME NEW t \in Transfers, receipt'[t].status = "confirmed"
        PROVE  /\ receipt'[t].payment \in Payments
               /\ pay'[receipt'[t].payment].method = "chuyen_khoan"
               /\ pay'[receipt'[t].payment].amount = receipt'[t].amount
               /\ pay'[receipt'[t].payment].status \in {"thanh_cong", "da_hoan_tien"}
    <3>1. CASE receipt'[t] = receipt[t]
      <4> DEFINE p == receipt[t].payment
      <4>1. /\ p \in Payments /\ pay[p].method = "chuyen_khoan"
            /\ pay[p].amount = receipt[t].amount
            /\ pay[p].status \in {"thanh_cong", "da_hoan_tien"}
        BY <2>1, <3>1 DEF SafetyInv, ReceiptsMatchPayments
      <4>2. Kept(p) \/ Refunded(p)
        BY <1>1, <4>1 DEF PaymentMoves, Failed, Captured, Inserted
      <4> QED
        BY <3>1, <4>1, <4>2 DEF Kept, Refunded, SameRow
    <3>2. CASE receipt'[t] # receipt[t]
      BY <1>1, <2>1, <3>2 DEF ReceiptMoves, Captured, SameRow
    <3> QED
      BY <3>1, <3>2
  <2>2. ASSUME NEW t \in Transfers, NEW u \in Transfers, t # u,
               receipt'[t].status = "confirmed", receipt'[u].status = "confirmed",
               receipt'[t].payment = receipt'[u].payment
        PROVE  FALSE
    <3>1. \A x, y \in Transfers : x # y /\ receipt'[x] # receipt[x]
            /\ receipt'[x].status = "confirmed" /\ receipt'[y].status = "confirmed"
            => receipt'[x].payment # receipt'[y].payment
      <4> SUFFICES ASSUME NEW x \in Transfers, NEW y \in Transfers, x # y,
                          receipt'[x] # receipt[x], receipt'[x].status = "confirmed",
                          receipt'[y].status = "confirmed",
                          receipt'[x].payment = receipt'[y].payment
                   PROVE  FALSE
        OBVIOUS
      <4>1. receipt'[y] = receipt[y] /\ Captured(receipt'[x].payment)
        BY <1>1 DEF ReceiptMoves
      <4>2. pay[receipt[y].payment].status \in {"thanh_cong", "da_hoan_tien"}
        BY <4>1 DEF SafetyInv, ReceiptsMatchPayments
      <4> QED
        BY <4>1, <4>2 DEF Captured
    <3>2. receipt'[t] = receipt[t] /\ receipt'[u] = receipt[u]
      BY <2>2, <3>1
    <3> QED
      BY <2>2, <3>2 DEF SafetyInv, ReceiptsMatchPayments
  <2> QED
    BY <2>1, <2>2 DEF ReceiptsMatchPayments
<1>6. QRMoneyHasReceipt'
  <2> SUFFICES ASSUME NEW p \in Payments, pay'[p].method = "chuyen_khoan",
                      pay'[p].status \in {"thanh_cong", "da_hoan_tien"}
               PROVE  \E t \in Transfers : /\ receipt'[t].status = "confirmed"
                                           /\ receipt'[t].payment = p
    BY DEF QRMoneyHasReceipt
  <2>1. CASE Captured(p)
    BY <2>1 DEF Captured, SameRow
  <2>2. CASE Kept(p) \/ Refunded(p)
    <3>1. PICK t \in Transfers : receipt[t].status = "confirmed" /\ receipt[t].payment = p
      BY <2>2 DEF Kept, Refunded, SameRow, SafetyInv, QRMoneyHasReceipt
    <3>2. receipt'[t] = receipt[t]
      BY <1>1, <3>1 DEF ReceiptMoves
    <3> QED
      BY <3>1, <3>2
  <2>3. ~Failed(p) /\ (Inserted(p) => FALSE)
    BY DEF Failed, Inserted
  <2> QED
    BY <1>1, <2>1, <2>2, <2>3 DEF PaymentMoves
<1> QED
  BY <1>1, <1>2, <1>3, <1>4, <1>5, <1>6 DEF SafetyInv

LEMMA SafetyInvHolds == Spec => []SafetyInv
BY InitSafety, NextSafety, PTL DEF Spec

\* No mixture of cash, cards and transfers, confirmed in any order, makes an order hold
\* more money than it costs.
THEOREM NeverOverCaptured == Spec => []NoOverCapture
<1>1. SafetyInv => NoOverCapture
  BY DEF SafetyInv
<1> QED
  BY <1>1, SafetyInvHolds, PTL

\* Whoever cancels an order, and whatever runs next to it, the cancelled order holds no
\* money and waits for none.
THEOREM CancelledStaysEmpty == Spec => []CancelledHoldsNoMoney
<1>1. SafetyInv => CancelledHoldsNoMoney
  BY DEF SafetyInv
<1> QED
  BY <1>1, SafetyInvHolds, PTL

\* A transfer that is reported as confirmed brought its amount to a QR payment that no
\* other transfer paid, however often and in whatever order SePay reports them.
THEOREM ReceiptsAreTrue == Spec => []ReceiptsMatchPayments
<1>1. SafetyInv => ReceiptsMatchPayments
  BY DEF SafetyInv
<1> QED
  BY <1>1, SafetyInvHolds, PTL

\* Nobody captures a QR payment by hand: its money has a receipt of the bank.
THEOREM QRMoneyIsBacked == Spec => []QRMoneyHasReceipt
<1>1. SafetyInv => QRMoneyHasReceipt
  BY DEF SafetyInv
<1> QED
  BY <1>1, SafetyInvHolds, PTL

\* Money that came over the bank can be traced in both directions.
THEOREM TransfersAreTraced == Spec => []TransfersTraced
<1>1. SafetyInv => TransfersTraced
  BY DEF SafetyInv, TransfersTraced
<1> QED
  BY <1>1, SafetyInvHolds, PTL
----------------------------------------------------------------------------
(* Totals                                                                  *)

\* How the captured payments and the totals of the orders move together: one payment
\* is captured and its order gets the amount, one is given back, or nothing happens.
CapturedNow(p) == pay[p].status = "thanh_cong"
CapturedNext(p) == pay'[p].status = "thanh_cong"
OthersSame(p) == \A q \in Payments \ {p} : CapturedNext(q) <=> CapturedNow(q)
TotalsFollow ==
  \/ paid' = paid /\ \A p \in Payments : CapturedNext(p) <=> CapturedNow(p)
  \/ \E p \in Payments :
       /\ ~CapturedNow(p) /\ CapturedNext(p) /\ OthersSame(p)
       /\ pay'[p].order \in Orders
       /\ paid' = [paid EXCEPT ![pay'[p].order] = paid[pay'[p].order] + pay'[p].amount]
  \/ \E p \in Payments :
       /\ CapturedNow(p) /\ ~CapturedNext(p) /\ OthersSame(p)
       /\ paid' = [paid EXCEPT ![pay[p].order] = paid[pay[p].order] - pay[p].amount]

\* Only finitely many payments have been inserted, and all of some money.
RowsFinite == IsFiniteSet(PaymentRows)
RowsHaveMoney == \A p \in PaymentRows : pay[p].amount > 0

TotalsInv == SafetyInv /\ RowsFinite /\ RowsHaveMoney /\ PaidIsSum

LEMMA NextRowsFinite ==
  ASSUME TypeOK, PaymentMoves, RowsFinite, RowsHaveMoney
  PROVE  RowsFinite' /\ RowsHaveMoney'
<1>1. \A p \in Payments : \/ Inserted(p)
                          \/ /\ pay'[p].amount = pay[p].amount
                             /\ pay'[p].status # "none" => pay[p].status # "none"
  BY DEF PaymentMoves, Kept, Failed, Refunded, Captured, SameRow
<1>2. RowsHaveMoney'
  BY <1>1 DEF RowsHaveMoney, PaymentRows, Inserted
<1>3. \A p, q \in Payments : Inserted(p) /\ Inserted(q) => p = q
  <2> SUFFICES ASSUME NEW p \in Payments, NEW q \in Payments, Inserted(p), Inserted(q), p # q
               PROVE  FALSE
    OBVIOUS
  <2>1. p \in Nat /\ q \in Nat
    BY PaymentIds
  <2>2. p < q \/ q < p
    BY <2>1
  <2> QED
    BY <2>2 DEF Inserted, NextId
<1>4. CASE \E p \in Payments : Inserted(p)
  <2>1. PICK p \in Payments : Inserted(p)
    BY <1>4
  <2>2. PaymentRows' \subseteq PaymentRows \cup {p}
    BY <1>1, <1>3, <2>1 DEF PaymentRows
  <2>3. IsFiniteSet(PaymentRows \cup {p})
    BY FS_AddElement DEF RowsFinite
  <2> QED
    BY <1>2, <2>2, <2>3, FS_Subset DEF RowsFinite
<1>5. CASE ~ \E p \in Payments : Inserted(p)
  <2>1. PaymentRows' \subseteq PaymentRows
    BY <1>1, <1>5 DEF PaymentRows
  <2> QED
    BY <1>2, <2>1, FS_Subset DEF RowsFinite
<1> QED
  BY <1>4, <1>5

\* The total an order is charged for stays the sum over its captured payments.
LEMMA NextPaidIsSum ==
  ASSUME TypeOK, TypeOK', PaymentMoves, RowsFinite, PaidIsSum, TotalsFollow
  PROVE  PaidIsSum'
<1> SUFFICES ASSUME NEW o \in Orders
             PROVE  paid'[o] = SumFunctionOnSet(Amount', WithStatus(o, "thanh_cong")')
  BY DEF PaidIsSum
<1> DEFINE C == WithStatus(o, "thanh_cong")
           D == WithStatus(o, "thanh_cong")'
<1>1. \A p \in Payments : CapturedNow(p) => /\ pay'[p].order = pay[p].order
                                            /\ pay'[p].amount = pay[p].amount
  BY DEF PaymentMoves, Kept, Failed, Refunded, Captured, Inserted, SameRow, CapturedNow
<1>2. /\ C = {p \in Payments : pay[p].order = o /\ CapturedNow(p)}
      /\ D = {p \in Payments : pay'[p].order = o /\ CapturedNext(p)}
  BY DEF WithStatus, PaymentsOf, CapturedNow, CapturedNext
<1>3. IsFiniteSet(C)
  <2>1. C \subseteq PaymentRows
    BY DEF WithStatus, PaymentsOf, PaymentRows
  <2> QED
    BY <2>1, FS_Subset DEF RowsFinite
<1>4. \A p \in Payments : Amount[p] \in Int /\ Amount'[p] \in Int
  BY DEF TypeOK, PaymentRow, Amount
<1>5. SumFunctionOnSet(Amount', C) = SumFunctionOnSet(Amount, C)
  <2>1. \A p \in C : Amount[p] \in Int /\ Amount'[p] = Amount[p]
    BY <1>1, <1>2, <1>4 DEF Amount
  <2> QED
    BY <1>3, <2>1, SumSame
<1>6. paid[o] = SumFunctionOnSet(Amount, C)
  BY DEF PaidIsSum
<1> HIDE DEF C, D
<1>7. CASE paid' = paid /\ \A p \in Payments : CapturedNext(p) <=> CapturedNow(p)
  <2>1. D = C
    BY <1>1, <1>2, <1>7
  <2> QED
    BY <1>5, <1>6, <1>7, <2>1 DEF D
<1>8. ASSUME NEW p \in Payments, ~CapturedNow(p), CapturedNext(p), OthersSame(p),
             pay'[p].order \in Orders,
             paid' = [paid EXCEPT ![pay'[p].order] = paid[pay'[p].order] + pay'[p].amount]
      PROVE  paid'[o] = SumFunctionOnSet(Amount', D)
  <2>1. CASE pay'[p].order = o
    <3>1. D = C \cup {p} /\ p \notin C
      BY <1>1, <1>2, <1>8, <2>1 DEF OthersSame
    <3>2. \A x \in C \cup {p} : Amount'[x] \in Int
      BY <1>2, <1>4
    <3>3. SumFunctionOnSet(Amount', D) = SumFunctionOnSet(Amount', C) + Amount'[p]
      BY <1>3, <3>1, <3>2, SumAdd
    <3>4. paid'[o] = paid[o] + Amount'[p]
      BY <1>8, <2>1 DEF TypeOK, Amount
    <3> QED
      BY <1>5, <1>6, <3>3, <3>4
  <2>2. CASE pay'[p].order # o
    <3>1. D = C
      BY <1>1, <1>2, <1>8, <2>2 DEF OthersSame
    <3>2. paid'[o] = paid[o]
      BY <1>8, <2>2 DEF TypeOK
    <3> QED
      BY <1>5, <1>6, <3>1, <3>2
  <2> QED
    BY <2>1, <2>2
<1>9. ASSUME NEW p \in Payments, CapturedNow(p), ~CapturedNext(p), OthersSame(p),
             paid' = [paid EXCEPT ![pay[p].order] = paid[pay[p].order] - pay[p].amount]
      PROVE  paid'[o] = SumFunctionOnSet(Amount', D)
  <2>1. CASE pay[p].order = o
    <3>1. D = C \ {p} /\ p \in C
      BY <1>1, <1>2, <1>9, <2>1 DEF OthersSame
    <3>2. \A x \in C : Amount'[x] \in Int
      BY <1>2, <1>4
    <3>3. SumFunctionOnSet(Amount', C) = SumFunctionOnSet(Amount', C \ {p}) + Amount'[p]
      BY <1>3, <3>1, <3>2, SumRemove
    <3>4. paid'[o] = paid[o] - Amount'[p]
      BY <1>1, <1>9, <2>1 DEF TypeOK, Amount
    <3>5. SumFunctionOnSet(Amount', C \ {p}) \in Int
      <4>1. IsFiniteSet(C \ {p}) /\ \A x \in C \ {p} : Amount'[x] \in Int
        BY <1>3, <3>2, FS_Subset
      <4> QED
        BY <4>1, SumType
    <3>6. Amount'[p] \in Int
      BY <1>4
    <3>7. paid[o] = SumFunctionOnSet(Amount', C \ {p}) + Amount'[p]
      BY <1>5, <1>6, <3>3
    <3>8. SumFunctionOnSet(Amount', D) = SumFunctionOnSet(Amount', C \ {p})
      BY <3>1
    <3> QED
      BY <3>4, <3>5, <3>6, <3>7, <3>8
  <2>2. CASE pay[p].order # o
    <3>1. D = C
      BY <1>1, <1>2, <1>9, <2>2 DEF OthersSame
    <3>2. paid'[o] = paid[o]
      BY <1>9, <2>2 DEF TypeOK
    <3> QED
      BY <1>5, <1>6, <3>1, <3>2
  <2> QED
    BY <2>1, <2>2
<1> QED
  BY <1>7, <1>8, <1>9 DEF TotalsFollow, D

\* A step that captures and gives back nothing leaves the totals alone.
LEMMA TotalsStay ==
  ASSUME paid' = paid, \A p \in Payments : pay'[p].status = "thanh_cong" <=> pay[p].status = "thanh_cong"
  PROVE  TotalsFollow
BY DEF TotalsFollow, CapturedNow, CapturedNext

LEMMA ClosedNotCaptured ==
  ASSUME TypeOK, NEW o \in Orders
  PROVE  \A p \in Payments : PaymentsClosed(o)[p].status = "thanh_cong" <=> pay[p].status = "thanh_cong"
BY DEF PaymentsClosed, WithStatus, TypeOK, PaymentRow

LEMMA FailedNotCaptured ==
  ASSUME TypeOK, NEW p \in Payments, pay[p].order \in Orders, pay[p].status # "thanh_cong",
         NEW s \in {"that_bai", "da_hoan_tien"}
  PROVE  \A q \in Payments :
           FailedWithOrder(p, s)[q].status = "thanh_cong" <=> pay[q].status = "thanh_cong"
<1> DEFINE o == pay[p].order
<1>1. CASE order[o].status = "da_huy"
  BY <1>1 DEF FailedWithOrder, TypeOK, PaymentRow
<1>2. CASE order[o].status # "da_huy" /\ Cancellable(o)
  BY <1>2, ClosedNotCaptured DEF FailedWithOrder
<1>3. CASE order[o].status # "da_huy" /\ ~Cancellable(o)
  BY <1>3 DEF FailedWithOrder
<1> QED
  BY <1>1, <1>2, <1>3

LEMMA NextTotals == TypeOK /\ [Next]_vars => TotalsFollow
<1> SUFFICES ASSUME TypeOK, [Next]_vars PROVE TotalsFollow
  OBVIOUS
<1>1. ASSUME NEW o \in Orders, NEW f \in OrderForms, CreateOrder(o, f) PROVE TotalsFollow
  <2> DEFINE row == NewPayment(o, "chuyen_khoan", f.due, "dang_xu_ly")
  <2>1. /\ paid' = paid
        /\ \/ pay' = pay
           \/ \E new \in Payments : NextId(new) /\ pay' = [pay EXCEPT ![new] = row]
    BY <1>1 DEF CreateOrder
  <2>2. row.status = "dang_xu_ly"
    BY DEF NewPayment
  <2>3. ASSUME NEW new \in Payments, NextId(new), pay' = [pay EXCEPT ![new] = row]
        PROVE  \A p \in Payments : pay'[p].status = "thanh_cong" <=> pay[p].status = "thanh_cong"
    <3>1. pay[new].status = "none"
      BY <2>3, PaymentIds DEF NextId
    <3> HIDE DEF row
    <3> QED
      BY <2>2, <2>3, <3>1 DEF TypeOK
  <2> QED
    BY <2>1, <2>3, TotalsStay
<1>2. ASSUME NEW o \in Orders, NEW s \in OrderStatus, UpdateOrderStatus(o, s) PROVE TotalsFollow
  BY <1>2, TotalsStay DEF UpdateOrderStatus
<1>3. ASSUME NEW o \in Orders, CancelOrder(o) PROVE TotalsFollow
  BY <1>3, ClosedNotCaptured, TotalsStay DEF CancelOrder
<1>4. ASSUME NEW o \in Orders, NEW m \in Methods, NEW a \in Amounts,
             CreateManualPayment(o, m, a)
      PROVE TotalsFollow
  <2> DEFINE s == IF m = "tien_mat" THEN "thanh_cong" ELSE "dang_xu_ly"
             row == NewPayment(o, m, a, s)
  <2>1. PICK new \in Payments : NextId(new) /\ pay' = [pay EXCEPT ![new] = row]
    BY <1>4 DEF CreateManualPayment
  <2>2. pay[new].status = "none"
    BY <2>1, PaymentIds DEF NextId
  <2>3. row.status = s /\ row.order = o /\ row.amount = a
    BY DEF NewPayment
  <2> HIDE DEF row
  <2>4. pay'[new] = row /\ \A p \in Payments \ {new} : pay'[p] = pay[p]
    BY <2>1 DEF TypeOK
  <2>5. CASE m = "tien_mat"
    <3>1. paid' = [paid EXCEPT ![o] = paid[o] + a]
      BY <1>4, <2>5 DEF CreateManualPayment
    <3> QED
      BY <2>2, <2>3, <2>4, <2>5, <3>1
      DEF TotalsFollow, CapturedNow, CapturedNext, OthersSame
  <2>6. CASE m # "tien_mat"
    <3>1. paid' = paid
      BY <1>4, <2>6 DEF CreateManualPayment
    <3> QED
      BY <2>2, <2>3, <2>4, <2>6, <3>1, TotalsStay
  <2> QED
    BY <2>5, <2>6
<1>5. ASSUME NEW p \in Payments, NEW req \in PaymentStatus \cup {"huy"}, NEW e \in Edits,
             UpdatePaymentStatus(p, req, e)
      PROVE TotalsFollow
  <2> DEFINE o == pay[p].order
             s == Requested(req)
             old == pay[p].status
             fails == s \in {"that_bai", "da_hoan_tien"} /\ old # "thanh_cong"
             rows == IF fails THEN FailedWithOrder(p, s) ELSE [pay EXCEPT ![p].status = s]
  <2>1. s \in PaymentStatus /\ old # "none" /\ o \in Orders
    BY <1>5 DEF UpdatePaymentStatus, TypeOK, Requested, PaymentStatus
  <2>2. /\ pay' = Edited(rows, p, e)
        /\ paid' = CASE s = "thanh_cong" /\ old # s -> [paid EXCEPT ![o] = @ + pay[p].amount]
                     [] old = "thanh_cong" /\ s # old -> [paid EXCEPT ![o] = @ - pay[p].amount]
                     [] OTHER -> paid
    BY <1>5 DEF UpdatePaymentStatus
  <2>3. CASE fails
    <3>1. paid' = paid
      BY <2>2, <2>3
    <3>2. rows = FailedWithOrder(p, s)
      BY <2>3
    <3>3. \A q \in Payments : rows[q].status = "thanh_cong" <=> pay[q].status = "thanh_cong"
      BY <2>1, <2>3, <3>2, FailedNotCaptured
    <3>4. rows \in [Payments -> PaymentRow]
      BY <2>1, <2>3, FailedWithOrderType
    <3> HIDE DEF rows
    <3>5. \A q \in Payments : pay'[q].status = rows[q].status
      BY <2>2, <3>4, EditedType
    <3> QED
      BY <3>1, <3>3, <3>5, TotalsStay
  <2>4. CASE ~fails
    <3>1. rows = [pay EXCEPT ![p].status = s]
      BY <2>4
    <3>2. /\ rows \in [Payments -> PaymentRow]
          /\ rows[p].status = s /\ rows[p].order = pay[p].order /\ rows[p].amount = pay[p].amount
          /\ \A q \in Payments \ {p} : rows[q] = pay[q]
      <4> HIDE DEF rows, s
      <4> QED
        BY <2>1, <3>1, SMTT(30) DEF TypeOK, PaymentRow
    <3> HIDE DEF rows
    <3>3. /\ \A q \in Payments \ {p} : pay'[q].status = pay[q].status
          /\ pay'[p].status = s /\ pay'[p].order = o /\ pay'[p].amount = pay[p].amount
      BY <2>2, <3>2, EditedType
    <3>4. CASE s = "thanh_cong" /\ old # s
      <4>1. paid' = [paid EXCEPT ![o] = paid[o] + pay[p].amount]
        BY <2>2, <3>4
      <4> QED
        BY <2>1, <3>3, <3>4, <4>1 DEF TotalsFollow, CapturedNow, CapturedNext, OthersSame
    <3>5. CASE old = "thanh_cong" /\ s # old
      <4>1. paid' = [paid EXCEPT ![o] = paid[o] - pay[p].amount]
        BY <2>2, <3>5
      <4> QED
        BY <3>3, <3>5, <4>1 DEF TotalsFollow, CapturedNow, CapturedNext, OthersSame
    <3>6. CASE s = old \/ (s # "thanh_cong" /\ old # "thanh_cong")
      <4>1. paid' = paid
        BY <2>2, <3>6
      <4> QED
        BY <3>3, <3>6, <4>1, TotalsStay
    <3> QED
      BY <3>4, <3>5, <3>6
  <2> QED
    BY <2>3, <2>4
<1>6. ASSUME NEW p \in Payments, NEW e \in Edits, EditPayment(p, e) PROVE TotalsFollow
  BY <1>6, EditedType, TotalsStay DEF EditPayment, TypeOK
<1>7. ASSUME NEW p \in Payments, NEW ok \in BOOLEAN, VerifyPayment(p, ok) PROVE TotalsFollow
  <2> DEFINE o == pay[p].order
  <2>1. /\ pay[p].status = "dang_xu_ly" /\ o \in Orders
        /\ \/ /\ pay' = [pay EXCEPT ![p].status = "thanh_cong"]
              /\ paid' = [paid EXCEPT ![o] = @ + pay[p].amount]
           \/ pay' = FailedWithOrder(p, "that_bai") /\ paid' = paid
    BY <1>7 DEF VerifyPayment, TypeOK
  <2>2. CASE /\ pay' = [pay EXCEPT ![p].status = "thanh_cong"]
             /\ paid' = [paid EXCEPT ![o] = @ + pay[p].amount]
    <3>1. /\ pay'[p].status = "thanh_cong" /\ pay'[p].order = o /\ pay'[p].amount = pay[p].amount
          /\ \A q \in Payments \ {p} : pay'[q] = pay[q]
      BY <2>2 DEF TypeOK, PaymentRow
    <3> QED
      BY <2>1, <2>2, <3>1 DEF TotalsFollow, CapturedNow, CapturedNext, OthersSame
  <2>3. CASE pay' = FailedWithOrder(p, "that_bai") /\ paid' = paid
    BY <2>1, <2>3, FailedNotCaptured, TotalsStay
  <2> QED
    BY <2>1, <2>2, <2>3
<1>8. ASSUME NEW o \in Orders, CreateSePayPayment(o) PROVE TotalsFollow
  <2> DEFINE row == NewPayment(o, "chuyen_khoan", Remaining(o), "dang_xu_ly")
  <2>1. PICK new \in Payments :
          /\ NextId(new)
          /\ pay' = [p \in Payments |-> IF p = new THEN row
                                       ELSE IF p \in LiveQR(o)
                                         THEN [pay[p] EXCEPT !.status = "that_bai"]
                                       ELSE pay[p]]
    BY <1>8 DEF CreateSePayPayment
  <2>2. pay[new].status = "none" /\ row.status = "dang_xu_ly"
    BY <2>1, PaymentIds DEF NextId, NewPayment
  <2> HIDE DEF row
  <2>3. \A p \in Payments : pay'[p].status = "thanh_cong" <=> pay[p].status = "thanh_cong"
    BY <2>1, <2>2 DEF TypeOK, PaymentRow, LiveQR, PendingQR, WithStatus
  <2> QED
    BY <1>8, <2>3, TotalsStay DEF CreateSePayPayment
<1>9. ASSUME NEW t \in Transfers, NEW c \in PaymentRows \cup {NoPayment}, NEW a \in Amounts,
             Webhook(t, c, a)
      PROVE TotalsFollow
  <2>1. CASE UNCHANGED <<order, pay, paid>>
    BY <2>1, TotalsStay
  <2>2. CASE c # NoPayment /\ Verdict(c, a) = "confirmed" /\ Confirm(t, c)
    <3> DEFINE o == pay[c].order
    <3>1. c \in Payments /\ o \in Orders /\ pay[c].status = "dang_xu_ly"
      BY <2>2 DEF PaymentRows, TypeOK, Verdict
    <3>2. /\ pay' = [pay EXCEPT ![c] = [@ EXCEPT !.status = "thanh_cong", !.txn = t]]
          /\ paid' = [paid EXCEPT ![o] = paid[o] + pay[c].amount]
      BY <2>2, <3>1 DEF Confirm, TypeOK
    <3>3. /\ pay'[c].status = "thanh_cong" /\ pay'[c].order = o /\ pay'[c].amount = pay[c].amount
          /\ \A q \in Payments \ {c} : pay'[q] = pay[q]
      BY <3>1, <3>2 DEF TypeOK, PaymentRow
    <3> QED
      BY <3>1, <3>2, <3>3 DEF TotalsFollow, CapturedNow, CapturedNext, OthersSame
  <2> QED
    BY <1>9, <2>1, <2>2 DEF Webhook
<1>10. ASSUME NEW t \in Transfers, ConfirmRefund(t) PROVE TotalsFollow
  BY <1>10, TotalsStay DEF ConfirmRefund
<1>11. ASSUME NEW last \in Payments, SweepScan(last) PROVE TotalsFollow
  BY <1>11, TotalsStay DEF SweepScan
<1>12. ASSUME NEW p \in Payments, SweepStep(p) PROVE TotalsFollow
  <2> DEFINE o == pay[p].order
  <2>1. o \in Orders /\ paid' = paid
    BY <1>12 DEF SweepStep, TypeOK
  <2>2. pay' = pay \/ pay' = PaymentsClosed(o)
    BY <1>12 DEF SweepStep, FailUnpaidOrder
  <2> HIDE DEF o
  <2> QED
    BY <2>1, <2>2, ClosedNotCaptured, TotalsStay
<1>13. ASSUME NEW p \in Payments, SweepError(p) PROVE TotalsFollow
  BY <1>13, TotalsStay DEF SweepError, SweepSkip
<1>14. CASE Restart
  BY <1>14, TotalsStay DEF Restart, SweepSkip
<1>15. CASE UNCHANGED vars
  BY <1>15, TotalsStay DEF vars
<1> QED
  BY <1>1, <1>2, <1>3, <1>4, <1>5, <1>6, <1>7, <1>8, <1>9, <1>10, <1>11, <1>12, <1>13,
     <1>14, <1>15
  DEF Next

LEMMA InitTotals == Init => TotalsInv
<1> SUFFICES ASSUME Init PROVE TotalsInv
  OBVIOUS
<1>1. PaymentRows = {} /\ \A o \in Orders : WithStatus(o, "thanh_cong") = {} /\ paid[o] = 0
  BY DEF Init, NullPayment, PaymentRows, WithStatus, PaymentsOf
<1>2. \A o \in Orders : SumFunctionOnSet(Amount, WithStatus(o, "thanh_cong")) = 0
  BY <1>1, SumEmpty
<1> QED
  BY <1>1, <1>2, InitSafety, FS_EmptySet DEF TotalsInv, RowsFinite, RowsHaveMoney, PaidIsSum

LEMMA NextTotalsInv == TotalsInv /\ [Next]_vars => TotalsInv'
BY NextSafety, NextTypeOK, NextMoves, NextTotals, NextRowsFinite, NextPaidIsSum
DEF TotalsInv, SafetyInv, Moves

LEMMA TotalsInvHolds == Spec => []TotalsInv
BY InitTotals, NextTotalsInv, PTL DEF Spec

\* The total an order is charged for is at every moment the sum over its captured
\* payments, whatever came in and went back in between.
THEOREM PaidIsTheSum == Spec => []PaidIsSum
<1>1. TotalsInv => PaidIsSum
  BY DEF TotalsInv
<1> QED
  BY <1>1, TotalsInvHolds, PTL

----------------------------------------------------------------------------
(* QR codes and pre-orders                                                 *)

\* A QR payment that SePay issued and nobody edited is the newest pending one of its
\* order, which is the one a new QR code replaces.
LiveIsNewest ==
  \A o \in Orders : \A p, q \in PendingQR(o) : pay[p].sepay => q <= p

\* A QR payment enters the table only next to spent ones.
QRMoves ==
  \A p \in Payments : Inserted(p) /\ pay'[p].method = "chuyen_khoan" =>
    \A q \in Payments \ {p} :
      /\ pay'[q].order = pay'[p].order
      /\ pay'[q].method = "chuyen_khoan"
      /\ pay'[q].status = "dang_xu_ly"
      => ~pay'[q].sepay

LEMMA NextQRMoves == SafetyInv /\ LiveIsNewest /\ [Next]_vars => QRMoves
<1> SUFFICES ASSUME SafetyInv, LiveIsNewest, [Next]_vars,
                    NEW p \in Payments, Inserted(p), pay'[p].method = "chuyen_khoan",
                    NEW q \in Payments \ {p}, pay'[q].order = pay'[p].order,
                    pay'[q].method = "chuyen_khoan", pay'[q].status = "dang_xu_ly"
             PROVE  ~pay'[q].sepay
  BY DEF QRMoves
<1>0. TypeOK /\ pay[p].status = "none" /\ pay'[p].status # "none"
  BY DEF SafetyInv, Inserted
<1>1. ASSUME NEW o \in Orders, NEW f \in OrderForms, CreateOrder(o, f) PROVE ~pay'[q].sepay
  <2> DEFINE row == NewPayment(o, "chuyen_khoan", f.due, "dang_xu_ly")
  <2>1. PICK new \in Payments : NextId(new) /\ pay' = [pay EXCEPT ![new] = row]
    BY <1>0, <1>1 DEF CreateOrder
  <2>2. row.order = o
    BY DEF NewPayment
  <2> HIDE DEF row
  <2>3. p = new /\ pay'[p].order = o /\ pay'[q] = pay[q]
    BY <1>0, <2>1, <2>2 DEF TypeOK
  <2>4. order[o].status = "none"
    BY <1>1 DEF CreateOrder
  <2> QED
    BY <1>0, <2>3, <2>4 DEF TypeOK
<1>4. ASSUME NEW o \in Orders, NEW m \in Methods, NEW a \in Amounts,
             CreateManualPayment(o, m, a)
      PROVE ~pay'[q].sepay
  <2> DEFINE s == IF m = "tien_mat" THEN "thanh_cong" ELSE "dang_xu_ly"
             row == NewPayment(o, m, a, s)
  <2>1. PICK new \in Payments : NextId(new) /\ pay' = [pay EXCEPT ![new] = row]
    BY <1>4 DEF CreateManualPayment
  <2>2. row.method = m /\ m # "chuyen_khoan"
    BY InputSets DEF NewPayment, ManualMethods
  <2> HIDE DEF row
  <2>3. p = new /\ pay'[p] = row
    BY <1>0, <2>1 DEF TypeOK
  <2> QED
    BY <2>2, <2>3
<1>8. ASSUME NEW o \in Orders, CreateSePayPayment(o) PROVE ~pay'[q].sepay
  <2> DEFINE row == NewPayment(o, "chuyen_khoan", Remaining(o), "dang_xu_ly")
  <2>1. PICK new \in Payments :
          /\ NextId(new)
          /\ pay' = [x \in Payments |-> IF x = new THEN row
                                       ELSE IF x \in LiveQR(o)
                                         THEN [pay[x] EXCEPT !.status = "that_bai"]
                                       ELSE pay[x]]
    BY <1>8 DEF CreateSePayPayment
  <2>2. row.order = o
    BY DEF NewPayment
  <2> HIDE DEF row
  <2>3. p = new
    BY <1>0, <2>1 DEF TypeOK, PaymentRow, LiveQR, PendingQR, WithStatus
  <2>4. q \notin LiveQR(o) /\ pay'[q] = pay[q]
    BY <1>0, <2>1, <2>3 DEF TypeOK, PaymentRow
  <2>5. q \in PendingQR(o)
    BY <2>1, <2>2, <2>3, <2>4 DEF PendingQR, WithStatus, PaymentsOf
  <2> QED
    BY <2>4, <2>5 DEF LiveQR, LiveIsNewest
<1>20. ASSUME pay'[p].order = pay[p].order PROVE FALSE
  BY <1>0, <1>20, NullIds DEF SafetyInv, WellFormed, Inserted
<1>2. ASSUME NEW o \in Orders, NEW s \in OrderStatus, UpdateOrderStatus(o, s) PROVE FALSE
  BY <1>2, <1>20 DEF UpdateOrderStatus
<1>3. ASSUME NEW o \in Orders, CancelOrder(o) PROVE FALSE
  BY <1>0, <1>3, <1>20, PaymentsClosedType DEF CancelOrder
<1>5. ASSUME NEW x \in Payments, NEW req \in PaymentStatus \cup {"huy"}, NEW e \in Edits,
             UpdatePaymentStatus(x, req, e)
      PROVE FALSE
  <2> DEFINE s == Requested(req)
             fails == s \in {"that_bai", "da_hoan_tien"} /\ pay[x].status # "thanh_cong"
             rows == IF fails THEN FailedWithOrder(x, s) ELSE [pay EXCEPT ![x].status = s]
  <2>1. s \in PaymentStatus /\ pay[x].status # "none" /\ pay' = Edited(rows, x, e)
    BY <1>5 DEF UpdatePaymentStatus, Requested, PaymentStatus
  <2>2. rows \in [Payments -> PaymentRow] /\ rows[p].order = pay[p].order
    <3>1. CASE fails
      BY <1>0, <2>1, <3>1, FailedWithOrderType
    <3>2. CASE ~fails
      <4>1. rows = [pay EXCEPT ![x].status = s]
        BY <3>2
      <4>2. s \in PaymentStatus
        BY <2>1
      <4> HIDE DEF rows, s, fails
      <4>3. rows \in [Payments -> PaymentRow]
        BY <1>0, <4>1, <4>2, SMTT(30) DEF TypeOK, PaymentRow, PaymentStatus
      <4>4. rows[p].order = pay[p].order
        BY <1>0, <4>1 DEF TypeOK, PaymentRow
      <4> QED
        BY <4>3, <4>4
    <3> QED
      BY <3>1, <3>2
  <2> HIDE DEF rows
  <2>3. pay'[p].order = rows[p].order
    BY <2>1, <2>2, EditedType
  <2> QED
    BY <1>20, <2>2, <2>3
<1>6. ASSUME NEW x \in Payments, NEW e \in Edits, EditPayment(x, e) PROVE FALSE
  BY <1>0, <1>6, <1>20, EditedType DEF EditPayment, TypeOK
<1>7. ASSUME NEW x \in Payments, NEW ok \in BOOLEAN, VerifyPayment(x, ok) PROVE FALSE
  <2>1. CASE pay' = [pay EXCEPT ![x].status = "thanh_cong"]
    BY <1>0, <1>20, <2>1 DEF TypeOK, PaymentRow
  <2>2. CASE pay' = FailedWithOrder(x, "that_bai")
    BY <1>0, <1>7, <1>20, <2>2, FailedWithOrderType DEF PaymentStatus, VerifyPayment
  <2> QED
    BY <1>7, <2>1, <2>2 DEF VerifyPayment
<1>9. ASSUME NEW t \in Transfers, NEW c \in PaymentRows \cup {NoPayment}, NEW a \in Amounts,
             Webhook(t, c, a)
      PROVE FALSE
  <2>1. CASE UNCHANGED <<order, pay, paid>>
    BY <1>20, <2>1
  <2>2. CASE c # NoPayment /\ Confirm(t, c)
    <3>1. c \in Payments /\ pay' = [pay EXCEPT ![c] = [@ EXCEPT !.status = "thanh_cong", !.txn = t]]
      BY <1>0, <2>2 DEF PaymentRows, Confirm, TypeOK
    <3>2. pay'[p].order = pay[p].order
      BY <1>0, <3>1 DEF TypeOK, PaymentRow
    <3> QED
      BY <1>20, <3>2
  <2> QED
    BY <1>9, <2>1, <2>2 DEF Webhook
<1>10. ASSUME NEW t \in Transfers, ConfirmRefund(t) PROVE FALSE
  BY <1>10, <1>20 DEF ConfirmRefund
<1>11. ASSUME NEW last \in Payments, SweepScan(last) PROVE FALSE
  BY <1>11, <1>20 DEF SweepScan
<1>12. ASSUME NEW x \in Payments, SweepStep(x) PROVE FALSE
  <2> DEFINE o == pay[x].order
  <2>1. o \in Orders /\ (pay' = pay \/ pay' = PaymentsClosed(o))
    BY <1>0, <1>12 DEF SweepStep, FailUnpaidOrder, TypeOK
  <2> HIDE DEF o
  <2> QED
    BY <1>0, <1>20, <2>1, PaymentsClosedType
<1>13. ASSUME NEW x \in Payments, SweepError(x) PROVE FALSE
  BY <1>13, <1>20 DEF SweepError, SweepSkip
<1>14. CASE Restart
  BY <1>14, <1>20 DEF Restart, SweepSkip
<1>15. CASE UNCHANGED vars
  BY <1>15, <1>20 DEF vars
<1> QED
  BY <1>1, <1>2, <1>3, <1>4, <1>5, <1>6, <1>7, <1>8, <1>9, <1>10, <1>11, <1>12, <1>13,
     <1>14, <1>15
  DEF Next

LEMMA NextLiveIsNewest ==
  ASSUME TypeOK, TypeOK', PaymentMoves, QRMoves, LiveIsNewest
  PROVE  LiveIsNewest'
<1> SUFFICES ASSUME NEW p \in Payments, NEW q \in Payments, pay'[p].sepay,
                    pay'[q].order = pay'[p].order,
                    pay'[p].status = "dang_xu_ly", pay'[q].status = "dang_xu_ly",
                    pay'[p].method = "chuyen_khoan", pay'[q].method = "chuyen_khoan",
                    pay'[p].order \in Orders
             PROVE  q <= p
  BY DEF LiveIsNewest, PendingQR, WithStatus, PaymentsOf
<1>1. p \in Nat /\ q \in Nat
  BY PaymentIds
<1>2. \A x \in {p, q} : Inserted(x) \/ (SameRow(x) /\ pay[x].status = "dang_xu_ly")
  BY DEF PaymentMoves, Kept, Failed, Refunded, Captured
<1>3. CASE q # p /\ Inserted(q)
  BY <1>3 DEF QRMoves
<1>4. CASE q # p /\ ~Inserted(q) /\ Inserted(p)
  BY <1>1, <1>2, <1>4 DEF Inserted, NextId
<1>5. CASE ~Inserted(q) /\ ~Inserted(p)
  BY <1>2, <1>5 DEF SameRow, LiveIsNewest, PendingQR, WithStatus, PaymentsOf
<1> QED
  BY <1>1, <1>3, <1>4, <1>5

\* What a step may do to an order: its form stays, its status goes forward, and a
\* pre-order is first worked on when it is paid.
Work == {"dang_xu_ly", "dang_giao", "hoan_thanh"}
StatusForward(s, t) ==
  t \in Transitions[s] \cup (IF s \in {"hoan_thanh", "da_huy", "dang_giao"} THEN {} ELSE {"da_huy"})
OrderForward ==
  \A o \in Orders :
    /\ order[o].status # "none" => /\ order'[o].kind = order[o].kind
                                   /\ order'[o].due = order[o].due
    /\ order[o].status \in OrderStatus /\ order'[o].status # order[o].status =>
         StatusForward(order[o].status, order'[o].status)
    /\ order'[o].kind = "dat_truoc" /\ order'[o].status \in Work =>
         order[o].status \in Work \/ paid'[o] >= order'[o].due

LEMMA OrderStays == ASSUME order' = order PROVE OrderForward
BY DEF OrderForward

LEMMA OrderCancelled ==
  ASSUME TypeOK, NEW o \in Orders, Cancellable(o), order[o].status # "none",
         order' = Cancelled(o) \/ order' = order
  PROVE  OrderForward
<1>1. CASE order' = Cancelled(o)
  <2>1. /\ \A x \in Orders : order'[x].kind = order[x].kind /\ order'[x].due = order[x].due
        /\ \A x \in Orders \ {o} : order'[x] = order[x]
        /\ order'[o].status = "da_huy"
    BY <1>1 DEF Cancelled, TypeOK, OrderRow
  <2>2. order[o].status # "da_huy" => StatusForward(order[o].status, "da_huy")
    BY DEF Cancellable, StatusForward
  <2> QED
    BY <2>1, <2>2 DEF OrderForward, Work
<1> QED
  BY <1>1, OrderStays

LEMMA NextOrderForward == SafetyInv /\ [Next]_vars => OrderForward
<1> SUFFICES ASSUME SafetyInv, [Next]_vars PROVE OrderForward
  OBVIOUS
<1>0. TypeOK
  BY DEF SafetyInv
<1>1. ASSUME NEW o \in Orders, NEW f \in OrderForms, CreateOrder(o, f) PROVE OrderForward
  <2>1. /\ order[o].status = "none" /\ \A x \in Orders \ {o} : order'[x] = order[x]
        /\ order'[o].kind = "dat_truoc" => order'[o].status = "cho"
    BY <1>0, <1>1 DEF CreateOrder, TypeOK
  <2> QED
    BY <2>1 DEF OrderForward, Work, OrderStatus
<1>2. ASSUME NEW o \in Orders, NEW s \in OrderStatus, UpdateOrderStatus(o, s) PROVE OrderForward
  <2>1. /\ s \in Transitions[order[o].status] /\ order[o].status \in OrderStatus
        /\ order' = [order EXCEPT ![o].status = s] /\ paid' = paid
        /\ s = "dang_xu_ly" /\ order[o].kind = "dat_truoc" => paid[o] >= order[o].due
    BY <1>2 DEF UpdateOrderStatus, PaidInFull
  <2>2. /\ order'[o].status = s /\ \A x \in Orders \ {o} : order'[x] = order[x]
        /\ order'[o].kind = order[o].kind /\ order'[o].due = order[o].due
    BY <1>0, <2>1 DEF TypeOK, OrderRow
  <2>3. s \in Work => order[o].status \in Work \/ s = "dang_xu_ly"
    BY <2>1 DEF Transitions, Work, OrderStatus
  <2> QED
    BY <2>1, <2>2, <2>3 DEF OrderForward, StatusForward
<1>3. ASSUME NEW o \in Orders, CancelOrder(o) PROVE OrderForward
  BY <1>0, <1>3, OrderCancelled DEF CancelOrder, OrderStatus
<1>4. ASSUME NEW o \in Orders, NEW m \in Methods, NEW a \in Amounts,
             CreateManualPayment(o, m, a)
      PROVE OrderForward
  BY <1>4, OrderStays DEF CreateManualPayment
<1>5. ASSUME NEW p \in Payments, NEW req \in PaymentStatus \cup {"huy"}, NEW e \in Edits,
             UpdatePaymentStatus(p, req, e)
      PROVE OrderForward
  <2>1. pay[p].order \in Orders /\ order[pay[p].order].status # "none"
    BY <1>0, <1>5 DEF UpdatePaymentStatus, TypeOK
  <2>2. order' = order \/ (Cancellable(pay[p].order) /\ order' = Cancelled(pay[p].order))
    BY <1>5 DEF UpdatePaymentStatus
  <2> QED
    BY <1>0, <2>1, <2>2, OrderCancelled, OrderStays
<1>6. ASSUME NEW p \in Payments, NEW e \in Edits, EditPayment(p, e) PROVE OrderForward
  BY <1>6, OrderStays DEF EditPayment
<1>7. ASSUME NEW p \in Payments, NEW ok \in BOOLEAN, VerifyPayment(p, ok) PROVE OrderForward
  <2>1. pay[p].order \in Orders /\ order[pay[p].order].status # "none"
    BY <1>0, <1>7 DEF VerifyPayment, TypeOK
  <2>2. order' = order \/ (Cancellable(pay[p].order) /\ order' = Cancelled(pay[p].order))
    BY <1>7 DEF VerifyPayment
  <2> QED
    BY <1>0, <2>1, <2>2, OrderCancelled, OrderStays
<1>8. ASSUME NEW o \in Orders, CreateSePayPayment(o) PROVE OrderForward
  BY <1>8, OrderStays DEF CreateSePayPayment
<1>9. ASSUME NEW t \in Transfers, NEW c \in PaymentRows \cup {NoPayment}, NEW a \in Amounts,
             Webhook(t, c, a)
      PROVE OrderForward
  <2>1. CASE UNCHANGED <<order, pay, paid>>
    BY <2>1, OrderStays
  <2>2. CASE c # NoPayment /\ Confirm(t, c)
    <3> DEFINE o == pay[c].order
    <3>1. o \in Orders /\ pay[c].amount \in Nat
      BY <1>0, <2>2 DEF PaymentRows, TypeOK, PaymentRow
    <3>2. \/ order' = order
          \/ /\ order[o].status = "cho" /\ paid'[o] >= order[o].due
             /\ order' = [order EXCEPT ![o].status = "dang_xu_ly"]
      BY <1>0, <2>2, <3>1 DEF Confirm, TypeOK
    <3>3. CASE order' = [order EXCEPT ![o].status = "dang_xu_ly"]
               /\ order[o].status = "cho" /\ paid'[o] >= order[o].due
      <4>1. /\ order'[o].status = "dang_xu_ly" /\ \A x \in Orders \ {o} : order'[x] = order[x]
            /\ order'[o].kind = order[o].kind /\ order'[o].due = order[o].due
        BY <1>0, <3>1, <3>3 DEF TypeOK, OrderRow
      <4>2. StatusForward("cho", "dang_xu_ly")
        BY DEF StatusForward, Transitions, OrderStatus
      <4> QED
        BY <3>3, <4>1, <4>2 DEF OrderForward
    <3> QED
      BY <3>2, <3>3, OrderStays
  <2> QED
    BY <1>9, <2>1, <2>2 DEF Webhook
<1>10. ASSUME NEW t \in Transfers, ConfirmRefund(t) PROVE OrderForward
  BY <1>10, OrderStays DEF ConfirmRefund
<1>11. ASSUME NEW last \in Payments, SweepScan(last) PROVE OrderForward
  BY <1>11, OrderStays DEF SweepScan
<1>12. ASSUME NEW p \in Payments, SweepStep(p) PROVE OrderForward
  <2>1. pay[p].order \in Orders /\ order[pay[p].order].status # "none"
    BY <1>0, <1>12 DEF SweepStep, TypeOK
  <2>2. order' = order \/ (Cancellable(pay[p].order) /\ order' = Cancelled(pay[p].order))
    BY <1>12 DEF SweepStep, FailUnpaidOrder
  <2> QED
    BY <1>0, <2>1, <2>2, OrderCancelled, OrderStays
<1>13. ASSUME NEW p \in Payments, SweepError(p) PROVE OrderForward
  BY <1>13, OrderStays DEF SweepError, SweepSkip
<1>14. CASE Restart
  BY <1>14, OrderStays DEF Restart, SweepSkip
<1>15. CASE UNCHANGED vars
  BY <1>15, OrderStays DEF vars
<1> QED
  BY <1>1, <1>2, <1>3, <1>4, <1>5, <1>6, <1>7, <1>8, <1>9, <1>10, <1>11, <1>12, <1>13,
     <1>14, <1>15
  DEF Next

\* The money that ever came in for an order only grows.
EverPaid(o) == WithStatus(o, "thanh_cong") \cup WithStatus(o, "da_hoan_tien")

LEMMA NextPreorderPaid ==
  ASSUME TypeOK, TypeOK', PaymentMoves, OrderForward, RowsFinite, RowsFinite', PaidIsSum',
         PreorderPaidBeforeWork
  PROVE  PreorderPaidBeforeWork'
<1> SUFFICES ASSUME NEW o \in Orders, order'[o].kind = "dat_truoc", order'[o].status \in Work
             PROVE  SumFunctionOnSet(Amount', EverPaid(o)') >= order'[o].due
  BY DEF PreorderPaidBeforeWork, EverPaid, Work
<1>1. /\ IsFiniteSet(EverPaid(o)') /\ IsFiniteSet(EverPaid(o))
      /\ \A p \in EverPaid(o)' : Amount'[p] \in Nat
      /\ order'[o].due \in Int
  <2>1. EverPaid(o)' \subseteq PaymentRows' /\ EverPaid(o) \subseteq PaymentRows
    BY DEF EverPaid, WithStatus, PaymentsOf, PaymentRows
  <2>2. \A p \in Payments : Amount'[p] \in Nat
    BY DEF TypeOK, PaymentRow, Amount
  <2> QED
    BY <2>1, <2>2, FS_Subset DEF RowsFinite, EverPaid, WithStatus, PaymentsOf, TypeOK, OrderRow
<1>2. CASE paid'[o] >= order'[o].due
  <2>1. WithStatus(o, "thanh_cong")' \in SUBSET EverPaid(o)'
    BY DEF EverPaid
  <2>2. SumFunctionOnSet(Amount', WithStatus(o, "thanh_cong")')
          <= SumFunctionOnSet(Amount', EverPaid(o)')
    BY <1>1, <2>1, SumGrows
  <2>3. paid'[o] = SumFunctionOnSet(Amount', WithStatus(o, "thanh_cong")') /\ paid'[o] \in Int
    BY DEF PaidIsSum, TypeOK
  <2>4. SumFunctionOnSet(Amount', EverPaid(o)') \in Int
    BY <1>1, SumType
  <2> QED
    BY <1>1, <1>2, <2>2, <2>3, <2>4
<1>3. CASE order[o].status \in Work
  <2>1. order[o].kind = "dat_truoc" /\ order[o].due = order'[o].due
    BY <1>3 DEF OrderForward, Work
  <2>2. SumFunctionOnSet(Amount, EverPaid(o)) >= order'[o].due
    BY <1>3, <2>1 DEF PreorderPaidBeforeWork, EverPaid, Work
  <2>3. /\ EverPaid(o) \in SUBSET EverPaid(o)'
        /\ \A p \in EverPaid(o) : Amount'[p] = Amount[p]
    BY DEF EverPaid, WithStatus, PaymentsOf, Amount, PaymentMoves, Kept, Failed, Refunded,
           Captured, Inserted, SameRow
  <2>4. SumFunctionOnSet(Amount', EverPaid(o)) <= SumFunctionOnSet(Amount', EverPaid(o)')
    BY <1>1, <2>3, SumGrows
  <2>5. /\ SumFunctionOnSet(Amount', EverPaid(o)) = SumFunctionOnSet(Amount, EverPaid(o))
        /\ SumFunctionOnSet(Amount, EverPaid(o)) \in Int
    <3>1. EverPaid(o) \subseteq Payments /\ \A p \in Payments : Amount[p] \in Int
      BY DEF TypeOK, PaymentRow, Amount, EverPaid, WithStatus, PaymentsOf
    <3>2. \A p \in EverPaid(o) : Amount[p] \in Int /\ Amount'[p] = Amount[p]
      BY <2>3, <3>1
    <3> QED
      BY <1>1, <3>2, SumSame, SumType
  <2>6. SumFunctionOnSet(Amount', EverPaid(o)') \in Int
    BY <1>1, SumType
  <2> QED
    BY <1>1, <2>2, <2>4, <2>5, <2>6
<1> QED
  BY <1>2, <1>3 DEF OrderForward

\* The inductive invariant of the totals, the QR codes and the pre-orders together.
CoherentInv == TotalsInv /\ LiveIsNewest /\ PreorderPaidBeforeWork

LEMMA InitCoherent == Init => CoherentInv
<1> SUFFICES ASSUME Init PROVE CoherentInv
  OBVIOUS
<1>1. /\ \A o \in Orders : PendingQR(o) = {} /\ order[o].status \in {"none", "cho_coc"}
  BY DEF Init, NullPayment, NullOrder, PendingQR, WithStatus, PaymentsOf
<1> QED
  BY <1>1, InitTotals DEF CoherentInv, LiveIsNewest, PreorderPaidBeforeWork

LEMMA NextCoherent == CoherentInv /\ [Next]_vars => CoherentInv'
<1> SUFFICES ASSUME CoherentInv, [Next]_vars PROVE CoherentInv'
  OBVIOUS
<1>1. TotalsInv /\ TotalsInv' /\ SafetyInv /\ TypeOK /\ TypeOK' /\ PaymentMoves /\ OrderForward
  BY NextTotalsInv, NextMoves, NextOrderForward DEF CoherentInv, TotalsInv, SafetyInv, Moves
<1>2. LiveIsNewest'
  BY <1>1, NextQRMoves, NextLiveIsNewest DEF CoherentInv
<1>3. PreorderPaidBeforeWork'
  BY <1>1, NextPreorderPaid DEF CoherentInv, TotalsInv
<1> QED
  BY <1>1, <1>2, <1>3 DEF CoherentInv

LEMMA CoherentInvHolds == Spec => []CoherentInv
BY InitCoherent, NextCoherent, PTL DEF Spec

LEMMA NewestIsOne == LiveIsNewest => OneLiveQR
<1> SUFFICES ASSUME LiveIsNewest, NEW o \in Orders, NEW p \in PendingQR(o), NEW q \in PendingQR(o),
                    pay[p].sepay, pay[q].sepay
             PROVE  p = q
  BY DEF OneLiveQR
<1>1. p \in Nat /\ q \in Nat
  BY PaymentIds DEF PendingQR, WithStatus, PaymentsOf
<1>2. q <= p /\ p <= q
  BY DEF LiveIsNewest
<1> QED
  BY <1>1, <1>2

\* What the services compute with is true for any number of orders and payments: the
\* total of an order is the sum of its captured payments, one QR code of it can be
\* paid, and a pre-order is worked on for money that came in.
THEOREM PaymentsAreCoherent == Spec => []PaymentsCoherent
<1>1. CoherentInv => PaymentsCoherent
  BY NewestIsOne DEF CoherentInv, TotalsInv, PaymentsCoherent
<1> QED
  BY <1>1, CoherentInvHolds, PTL

----------------------------------------------------------------------------
(* Steps                                                                   *)

\* Whoever moves an order, a payment or a receipt, it only goes forward.
THEOREM RowsOnlyMoveForward == Spec => RowsMoveForward
<1> DEFINE Forward ==
      /\ \A o \in Orders : LET s == order[o].status IN
            s \in OrderStatus /\ order'[o].status # s =>
              order'[o].status \in Transitions[s] \cup
                (IF s \in {"hoan_thanh", "da_huy", "dang_giao"} THEN {} ELSE {"da_huy"})
      /\ \A p \in Payments : LET s == pay[p].status IN
            s # "none" /\ pay'[p].status # s =>
              <<s, pay'[p].status>> \in {<<"dang_xu_ly", "thanh_cong">>, <<"dang_xu_ly", "that_bai">>,
                                         <<"thanh_cong", "da_hoan_tien">>}
      /\ \A t \in Transfers : LET s == receipt[t].status IN
            s # "none" /\ receipt'[t] # receipt[t] =>
              s \in {"refund_required", "unmatched"} /\ receipt'[t].status = "refunded"
<1>1. SafetyInv /\ [Next]_vars => Forward
  <2> SUFFICES ASSUME SafetyInv, [Next]_vars PROVE Forward
    OBVIOUS
  <2>1. PaymentMoves /\ ReceiptMoves /\ OrderForward
    BY NextMoves, NextOrderForward DEF Moves
  <2>2. \A p \in Payments : pay[p].status # "none" /\ pay'[p].status # pay[p].status =>
          <<pay[p].status, pay'[p].status>> \in
            {<<"dang_xu_ly", "thanh_cong">>, <<"dang_xu_ly", "that_bai">>,
             <<"thanh_cong", "da_hoan_tien">>}
    BY <2>1 DEF PaymentMoves, Kept, Failed, Refunded, Captured, Inserted
  <2>3. \A o \in Orders : order[o].status \in OrderStatus /\ order'[o].status # order[o].status =>
          StatusForward(order[o].status, order'[o].status)
    BY <2>1 DEF OrderForward
  <2>4. \A t \in Transfers : receipt[t].status # "none" /\ receipt'[t] # receipt[t] =>
          /\ receipt[t].status \in {"refund_required", "unmatched"}
          /\ receipt'[t].status = "refunded"
    BY <2>1 DEF ReceiptMoves
  <2> QED
    BY <2>2, <2>3, <2>4 DEF StatusForward
<1> QED
  BY <1>1, SafetyInvHolds, PTL DEF Spec, RowsMoveForward

----------------------------------------------------------------------------
(* The contract                                                            *)

\* One lemma for each way a handler moves an order and its money, as the contract
\* sees it.
LEMMA ContractIdle == ASSUME order' = order, paid' = paid PROVE UNCHANGED Contract!contractVars
BY DEF Contract!contractVars

LEMMA StatusStep ==
  ASSUME TypeOK, NEW o \in Orders, NEW s, order' = [order EXCEPT ![o].status = s]
  PROVE  /\ [x \in Orders |-> Phase(order'[x].status)]
              = [[x \in Orders |-> Phase(order[x].status)] EXCEPT ![o] = Phase(s)]
         /\ [x \in Orders |-> order'[x].due] = [x \in Orders |-> order[x].due]
<1>1. /\ order'[o].status = s /\ order'[o].due = order[o].due
      /\ \A x \in Orders \ {o} : order'[x] = order[x]
  BY DEF TypeOK, OrderRow
<1>2. \A x \in Orders : /\ Phase(order'[x].status) = IF x = o THEN Phase(s) ELSE Phase(order[x].status)
                       /\ order'[x].due = order[x].due
  BY <1>1
<1> QED
  BY <1>2

LEMMA PlaceStep ==
  ASSUME NEW o \in Orders, order[o].status = "none", paid' = paid,
         Phase(order'[o].status) \in {"waiting", "open"}, order'[o].due \in Nat,
         \A x \in Orders \ {o} : order'[x] = order[x]
  PROVE  Contract!Place(o)
<1>1. [x \in Orders |-> Phase(order'[x].status)]
        = [[x \in Orders |-> Phase(order[x].status)] EXCEPT ![o] = Phase(order'[o].status)]
  OBVIOUS
<1>2. [x \in Orders |-> order'[x].due]
        = [[x \in Orders |-> order[x].due] EXCEPT ![o] = order'[o].due]
  OBVIOUS
<1>3. Phase(order[o].status) = "none"
  BY DEF Phase
<1> QED
  BY <1>1, <1>2, <1>3 DEF Contract!Place

LEMMA AdvanceStep ==
  ASSUME TypeOK, NEW o \in Orders, NEW s, order' = [order EXCEPT ![o].status = s], paid' = paid,
         \/ /\ Phase(order[o].status) = "waiting" /\ Phase(s) = "open" /\ paid[o] = order[o].due
         \/ Phase(order[o].status) = "open" /\ Phase(s) = "shipped"
         \/ /\ Phase(order[o].status) \in {"open", "shipped"} /\ Phase(s) = "done"
            /\ paid[o] = order[o].due
  PROVE  Contract!Advance(o)
BY StatusStep, ZenonT(40) DEF Contract!Advance

LEMMA CancelStep ==
  ASSUME TypeOK, PaidIsSum, NEW o \in Orders, Cancellable(o),
         order[o].status \in OrderStatus \ {"da_huy"},
         order' = Cancelled(o), paid' = paid
  PROVE  Contract!Cancel(o)
<1>1. Phase(order[o].status) \in {"waiting", "open"} /\ Phase("da_huy") = "cancelled"
  BY DEF Cancellable, OrderStatus, Phase
<1>2. paid[o] = 0
  BY SumEmpty DEF PaidIsSum, Cancellable
<1> QED
  BY <1>1, <1>2, StatusStep DEF Contract!Cancel, Cancelled

LEMMA CollectStep ==
  ASSUME TypeOK, NoOverCapture', NEW o \in Orders, NEW a \in Nat, a > 0,
         paid' = [paid EXCEPT ![o] = paid[o] + a],
         order[o].status \in OrderStatus \ {"da_huy"},
         \/ order' = order
         \/ /\ order' = [order EXCEPT ![o].status = "dang_xu_ly"]
            /\ order[o].status = "cho" /\ paid'[o] >= order[o].due
  PROVE  Contract!Collect(o)
<1>1. /\ paid'[o] = paid[o] + a /\ paid[o] \in Int /\ order[o].due \in Nat
      /\ order'[o].due = order[o].due /\ paid'[o] <= order'[o].due
      /\ paid' = [paid EXCEPT ![o] = paid'[o]]
  BY DEF TypeOK, OrderRow, NoOverCapture
<1>2. Phase(order[o].status) \notin {"none", "cancelled"}
  BY DEF OrderStatus, Phase
<1>3. CASE order' = order
  BY <1>1, <1>2, <1>3 DEF Contract!Collect
<1>4. CASE /\ order' = [order EXCEPT ![o].status = "dang_xu_ly"]
           /\ order[o].status = "cho" /\ paid'[o] >= order[o].due
  <2>1. Phase(order[o].status) = "waiting" /\ Phase("dang_xu_ly") = "open"
    BY <1>4 DEF Phase
  <2>2. paid'[o] = order[o].due
    BY <1>1, <1>4
  <2>3. paid'[o] > paid[o]
    BY <1>1
  <2>4. /\ [x \in Orders |-> Phase(order'[x].status)]
             = [[x \in Orders |-> Phase(order[x].status)] EXCEPT ![o] = "open"]
        /\ [x \in Orders |-> order'[x].due] = [x \in Orders |-> order[x].due]
    <3>1. order' = [order EXCEPT ![o].status = "dang_xu_ly"]
      BY <1>4
    <3>2. /\ [x \in Orders |-> Phase(order'[x].status)]
               = [[x \in Orders |-> Phase(order[x].status)] EXCEPT ![o] = Phase("dang_xu_ly")]
          /\ [x \in Orders |-> order'[x].due] = [x \in Orders |-> order[x].due]
      BY <3>1, StatusStep
    <3> QED
      BY <2>1, <3>2
  <2> QED
    BY <1>1, <1>2, <2>1, <2>2, <2>3, <2>4 DEF Contract!Collect
<1> QED
  BY <1>3, <1>4

LEMMA ReturnStep ==
  ASSUME TypeOK, TypeOK', RowsFinite', PaidIsSum', NEW o \in Orders, NEW a \in Nat, a > 0,
         paid' = [paid EXCEPT ![o] = paid[o] - a], order' = order
  PROVE  Contract!Return(o)
<1>1. /\ paid'[o] = paid[o] - a /\ paid[o] \in Int
      /\ paid' = [paid EXCEPT ![o] = paid'[o]]
  BY DEF TypeOK
<1>2. paid'[o] >= 0
  <2>1. WithStatus(o, "thanh_cong")' \subseteq PaymentRows'
    BY DEF WithStatus, PaymentsOf, PaymentRows
  <2>2. IsFiniteSet(WithStatus(o, "thanh_cong")')
    BY <2>1, FS_Subset DEF RowsFinite
  <2>3. \A p \in WithStatus(o, "thanh_cong")' : Amount'[p] \in Nat
    BY DEF WithStatus, PaymentsOf, TypeOK, PaymentRow, Amount
  <2>4. SumFunctionOnSet(Amount', WithStatus(o, "thanh_cong")') \in Nat
    BY <2>2, <2>3, SumNat
  <2> QED
    BY <2>4 DEF PaidIsSum
<1> QED
  BY <1>1, <1>2 DEF Contract!Return

LEMMA NextContract ==
  CoherentInv /\ [Next]_vars => [Contract!ContractNext]_(Contract!contractVars)
<1> DEFINE Step == Contract!ContractNext \/ UNCHANGED Contract!contractVars
<1> SUFFICES ASSUME CoherentInv, [Next]_vars PROVE Step
  OBVIOUS
<1>0. /\ TypeOK /\ TypeOK' /\ NoOverCapture /\ NoOverCapture' /\ PaidIsSum /\ PaidIsSum'
      /\ RowsFinite' /\ RowsHaveMoney /\ WellFormed
  BY NextCoherent DEF CoherentInv, TotalsInv, SafetyInv
<1>a. ASSUME NEW o \in Orders, \/ Contract!Place(o) \/ Contract!Collect(o) \/ Contract!Return(o)
                               \/ Contract!Advance(o) \/ Contract!Cancel(o)
      PROVE  Step
  BY <1>a DEF Contract!ContractNext
<1>b. ASSUME order' = order, paid' = paid PROVE Step
  BY <1>b, ContractIdle
<1> HIDE DEF Step
<1>c. ASSUME NEW o \in Orders, order[o].status # "none", paid' = paid,
             \/ order' = order
             \/ Cancellable(o) /\ order[o].status # "da_huy" /\ order' = Cancelled(o)
      PROVE  Step
  <2>1. order[o].status \in OrderStatus
    BY <1>0, <1>c DEF TypeOK, OrderRow
  <2> QED
    BY <1>0, <1>a, <1>b, <1>c, <2>1, CancelStep
<1>1. ASSUME NEW o \in Orders, NEW f \in OrderForms, CreateOrder(o, f) PROVE Step
  <2>1. /\ order[o].status = "none" /\ paid' = paid
        /\ order'[o].status \in {"cho", "dang_xu_ly"} /\ order'[o].due \in Nat
        /\ \A x \in Orders \ {o} : order'[x] = order[x]
    BY <1>0, <1>1, FormsAreForms DEF CreateOrder, TypeOK, OrderForm
  <2>2. Phase(order'[o].status) \in {"waiting", "open"}
    BY <2>1 DEF Phase
  <2> QED
    BY <1>a, <2>1, <2>2, PlaceStep
<1>2. ASSUME NEW o \in Orders, NEW s \in OrderStatus, UpdateOrderStatus(o, s) PROVE Step
  <2>1. /\ s \in Transitions[order[o].status] /\ order[o].status \in OrderStatus
        /\ s = "dang_xu_ly" /\ (order[o].status = "cho_coc" \/ order[o].kind = "dat_truoc")
             => paid[o] >= order[o].due
        /\ s = "hoan_thanh" => paid[o] >= order[o].due
        /\ order' = [order EXCEPT ![o].status = s] /\ paid' = paid
    BY <1>2 DEF UpdateOrderStatus, PaidInFull
  <2>2. order[o].status = "cho" => order[o].kind = "dat_truoc"
    BY <1>0 DEF WellFormed
  <2>3. paid[o] >= order[o].due => paid[o] = order[o].due
    <3>1. paid[o] \in Int /\ order[o].due \in Int
      BY <1>0 DEF TypeOK, OrderRow
    <3>2. paid[o] <= order[o].due
      BY <1>0 DEF NoOverCapture
    <3> QED
      BY <3>1, <3>2
  <2>4. \/ order[o].status \in {"cho", "cho_coc"} /\ s = "dang_xu_ly"
        \/ order[o].status = "dang_xu_ly" /\ s \in {"dang_giao", "hoan_thanh"}
        \/ order[o].status = "dang_giao" /\ s = "hoan_thanh"
    BY <2>1 DEF Transitions, OrderStatus
  <2>5. \/ /\ Phase(order[o].status) = "waiting" /\ Phase(s) = "open" /\ paid[o] = order[o].due
        \/ Phase(order[o].status) = "open" /\ Phase(s) = "shipped"
        \/ /\ Phase(order[o].status) \in {"open", "shipped"} /\ Phase(s) = "done"
           /\ paid[o] = order[o].due
    BY <2>1, <2>2, <2>3, <2>4 DEF Phase
  <2> QED
    BY <1>0, <1>a, <2>1, <2>5, AdvanceStep
<1>3. ASSUME NEW o \in Orders, CancelOrder(o) PROVE Step
  BY <1>3, <1>c DEF CancelOrder, OrderStatus
<1>4. ASSUME NEW o \in Orders, NEW m \in Methods, NEW a \in Amounts,
             CreateManualPayment(o, m, a)
      PROVE Step
  <2>1. order[o].status \in OrderStatus \ {"da_huy"} /\ order' = order /\ a \in Nat /\ a > 0
    BY <1>4, AmountsPositive DEF CreateManualPayment
  <2>2. CASE paid' = paid
    BY <1>b, <2>1, <2>2
  <2>3. CASE paid' = [paid EXCEPT ![o] = paid[o] + a]
    BY <1>0, <1>a, <2>1, <2>3, CollectStep
  <2> QED
    BY <1>4, <2>2, <2>3 DEF CreateManualPayment
<1>5. ASSUME NEW p \in Payments, NEW req \in PaymentStatus \cup {"huy"}, NEW e \in Edits,
             UpdatePaymentStatus(p, req, e)
      PROVE Step
  <2> DEFINE o == pay[p].order
             s == Requested(req)
  <2>1. /\ o \in Orders /\ order[o].status # "none" /\ pay[p].amount \in Nat
        /\ pay[p].amount > 0 /\ order[o].status \in OrderStatus
    <3>1. pay[p].status # "none"
      BY <1>5 DEF UpdatePaymentStatus
    <3> QED
      BY <1>0, <3>1 DEF TypeOK, PaymentRow, OrderRow, RowsHaveMoney, PaymentRows
  <2>2. CASE s = "thanh_cong" /\ pay[p].status # s
    <3>1. /\ order' = order /\ paid' = [paid EXCEPT ![o] = paid[o] + pay[p].amount]
          /\ order[o].status # "da_huy"
      BY <1>5, <2>2 DEF UpdatePaymentStatus
    <3> QED
      BY <1>0, <1>a, <2>1, <3>1, CollectStep
  <2>3. CASE pay[p].status = "thanh_cong" /\ s # "thanh_cong"
    <3>1. order' = order /\ paid' = [paid EXCEPT ![o] = paid[o] - pay[p].amount]
      BY <1>5, <2>3 DEF UpdatePaymentStatus
    <3> QED
      BY <1>0, <1>a, <2>1, <3>1, ReturnStep
  <2>4. CASE paid' = paid
    <3>1. \/ order' = order
          \/ Cancellable(o) /\ order[o].status # "da_huy" /\ order' = Cancelled(o)
      BY <1>5 DEF UpdatePaymentStatus
    <3> QED
      BY <1>c, <2>1, <2>4, <3>1
  <2> QED
    BY <1>5, <2>2, <2>3, <2>4 DEF UpdatePaymentStatus
<1>6. ASSUME NEW p \in Payments, NEW e \in Edits, EditPayment(p, e) PROVE Step
  BY <1>6, <1>b DEF EditPayment
<1>7. ASSUME NEW p \in Payments, NEW ok \in BOOLEAN, VerifyPayment(p, ok) PROVE Step
  <2> DEFINE o == pay[p].order
  <2>1. /\ o \in Orders /\ order[o].status \in OrderStatus \ {"da_huy"} /\ pay[p].amount \in Nat
        /\ pay[p].amount > 0 /\ order[o].status # "none"
    BY <1>0, <1>7 DEF VerifyPayment, TypeOK, PaymentRow, OrderRow, RowsHaveMoney, PaymentRows
  <2>2. CASE order' = order /\ paid' = [paid EXCEPT ![o] = paid[o] + pay[p].amount]
    BY <1>0, <1>a, <2>1, <2>2, CollectStep
  <2>3. CASE paid' = paid /\ (order' = order \/ (Cancellable(o) /\ order' = Cancelled(o)))
    BY <1>c, <2>1, <2>3
  <2> QED
    BY <1>7, <2>2, <2>3 DEF VerifyPayment
<1>8. ASSUME NEW o \in Orders, CreateSePayPayment(o) PROVE Step
  BY <1>8, <1>b DEF CreateSePayPayment
<1>9. ASSUME NEW t \in Transfers, NEW c \in PaymentRows \cup {NoPayment}, NEW a \in Amounts,
             Webhook(t, c, a)
      PROVE Step
  <2>1. CASE UNCHANGED <<order, pay, paid>>
    BY <1>b, <2>1
  <2>2. CASE c # NoPayment /\ Verdict(c, a) = "confirmed" /\ Confirm(t, c)
    <3> DEFINE o == pay[c].order
    <3>1. /\ o \in Orders /\ order[o].status \in OrderStatus \ {"da_huy"}
          /\ pay[c].amount \in Nat /\ pay[c].amount > 0
      <4>1. c \in Payments /\ pay[c].status # "none" /\ order[o].status # "da_huy"
        BY <2>2 DEF PaymentRows, Verdict
      <4> QED
        BY <1>0, <4>1 DEF TypeOK, PaymentRow, OrderRow, RowsHaveMoney, PaymentRows
    <3>2. /\ paid' = [paid EXCEPT ![o] = paid[o] + pay[c].amount]
          /\ \/ order' = order
             \/ /\ order' = [order EXCEPT ![o].status = "dang_xu_ly"]
                /\ order[o].status = "cho" /\ paid[o] + pay[c].amount >= order[o].due
      BY <2>2 DEF Confirm
    <3>3. paid'[o] = paid[o] + pay[c].amount
      BY <1>0, <3>1, <3>2 DEF TypeOK
    <3> QED
      BY <1>0, <1>a, <3>1, <3>2, <3>3, CollectStep
  <2> QED
    BY <1>9, <2>1, <2>2 DEF Webhook
<1>10. ASSUME NEW t \in Transfers, ConfirmRefund(t) PROVE Step
  BY <1>10, <1>b DEF ConfirmRefund
<1>11. ASSUME NEW last \in Payments, SweepScan(last) PROVE Step
  BY <1>11, <1>b DEF SweepScan
<1>12. ASSUME NEW p \in Payments, SweepStep(p) PROVE Step
  <2> DEFINE o == pay[p].order
  <2>1. o \in Orders /\ order[o].status # "none" /\ paid' = paid
    BY <1>0, <1>12 DEF SweepStep, TypeOK
  <2>2. \/ order' = order
        \/ Cancellable(o) /\ order[o].status # "da_huy" /\ order' = Cancelled(o)
    BY <1>12 DEF SweepStep, FailUnpaidOrder
  <2> QED
    BY <1>c, <2>1, <2>2
<1>13. ASSUME NEW p \in Payments, SweepError(p) PROVE Step
  BY <1>13, <1>b DEF SweepError, SweepSkip
<1>14. CASE Restart
  BY <1>14, <1>b DEF Restart, SweepSkip
<1>15. CASE UNCHANGED vars
  BY <1>15, <1>b DEF vars
<1> QED
  BY <1>1, <1>2, <1>3, <1>4, <1>5, <1>6, <1>7, <1>8, <1>9, <1>10, <1>11, <1>12, <1>13,
     <1>14, <1>15
  DEF Next

\* Whatever handler runs, and whatever the sweep does next to it: seen as an order, its
\* price and its money, the step is one the contract of the shop allows.
THEOREM ContractKept == Spec => KeepsContract
<1>1. Init => Contract!ContractInit
  <2> SUFFICES ASSUME Init PROVE Contract!ContractInit
    OBVIOUS
  <2>1. \A o \in Orders : order[o].status \in {"none", "cho_coc"}
    BY DEF Init, NullOrder
  <2>2. [o \in Orders |-> Phase(order[o].status)] \in [Orders -> {"none", "waiting"}]
    BY <2>1 DEF Phase
  <2>3. [o \in Orders |-> order[o].due] \in [Orders -> Nat]
    BY InitTypeOK DEF TypeOK, OrderRow
  <2> QED
    BY <2>2, <2>3 DEF Contract!ContractInit, Init
<1> QED
  BY <1>1, NextContract, CoherentInvHolds, PTL DEF Spec, KeepsContract, Contract!ContractSpec

\* No step of any handler or of the sweep, in whatever order they commit, is one that the
\* shop's rules forbid: rows of orders and payments go forward only, and seen from outside
\* each order keeps its contract (order_service.py, payment_service.py).
THEOREM OnlyAllowedSteps == Spec => EveryStepAllowed
BY RowsOnlyMoveForward, ContractKept DEF EveryStepAllowed
============================================================================
