-------------------------- MODULE MCOrderPayments --------------------------
(***************************************************************************)
(* Small instances of OrderPayments.                                       *)
(***************************************************************************)
EXTENDS OrderPayments

Form(k, d, home, m) == [kind |-> k, due |-> d, delivery |-> home, method |-> m]

\* A delivery paid on arrival, a QR checkout for pickup, a pre-order, and a pre-order
\* that a voucher made free.
MCForms == {Form("online", 2, TRUE, "pay_later"), Form("online", 2, FALSE, "sepay_qr"),
            Form("dat_truoc", 2, FALSE, "sepay_qr"), Form("dat_truoc", 0, FALSE, "sepay_qr")}

\* A QR delivery and a delivery paid on arrival, for the liveness run.
MCDeliveries == {Form("online", 2, TRUE, "sepay_qr"), Form("online", 2, TRUE, "pay_later")}
============================================================================
