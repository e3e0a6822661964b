----------------------------- MODULE MCCheckout -----------------------------
(***************************************************************************)
(* Small instances of Checkout.  Two scenes: vouchers are edited while     *)
(* every basket is on sale; or goods are withdrawn and put on sale again,  *)
(* and no order has a voucher or is cancelled.                             *)
(***************************************************************************)
EXTENDS Checkout

CONSTANTS u1, u2, t1, t2, t3

VARIABLE scene

MCOwner == [t \in Tabs |-> IF t = t3 THEN u2 ELSE u1]
MCPersonal == [v \in Vouchers |-> 1]
MCBasket == [k \in Keys |-> Goods]

\* The second scene has none of what the first one shows.
NoVouchers ==
  /\ \A k \in Keys : attempt'[k].code = NoCode
  /\ voucher' = voucher /\ cancel' = cancel

MCInit ==
  /\ Init /\ scene \in {"vouchers", "goods"}
  /\ scene = "goods" => \A v \in Vouchers : voucher[v].limit = 0
MCNext ==
  /\ Next /\ UNCHANGED scene
  /\ scene = "vouchers" => onSale' = onSale
  /\ scene = "goods" => NoVouchers
MCMoves == MCInit /\ [][MCNext]_<<vars, scene>> /\ UnderWay

MCSpec == MCMoves /\ \A t \in Tabs : WF_vars(GoOn(t))
MCPressSpec == MCMoves /\ \A t \in Tabs : WF_vars(Press(t))
============================================================================
