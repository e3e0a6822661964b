---------------------------- MODULE StockContract ----------------------------
(***************************************************************************)
(* What the shop promises about its stock: every order reserves all it     *)
(* needs in one step or nothing, what it reserved is nobody else's, and    *)
(* cancelling it puts exactly that back.                                   *)
(***************************************************************************)
EXTENDS Integers

CONSTANTS Orders, Lots

VARIABLES
  stock,    \* how much of each lot is there to sell
  phase,    \* "none", "live" or "cancelled"
  reserved  \* what each live order holds of each lot

stockVars == <<stock, phase, reserved>>

Nothing == [l \in Lots |-> 0]

StockInit ==
  /\ stock = Nothing
  /\ phase = [o \in Orders |-> "none"]
  /\ reserved = [o \in Orders |-> Nothing]

Receive(l) ==
  /\ stock'[l] > stock[l]
  /\ stock' = [stock EXCEPT ![l] = stock'[l]]
  /\ UNCHANGED <<phase, reserved>>

Discard(l) ==
  /\ stock[l] > 0
  /\ stock' = [stock EXCEPT ![l] = 0]
  /\ UNCHANGED <<phase, reserved>>

Reserve(o) ==
  LET wanted == reserved'[o] IN
  /\ phase[o] = "none"
  /\ phase' = [phase EXCEPT ![o] = "live"]
  /\ \A l \in Lots : 0 <= wanted[l] /\ wanted[l] <= stock[l]
  /\ \E l \in Lots : wanted[l] > 0
  /\ reserved' = [reserved EXCEPT ![o] = wanted]
  /\ stock' = [l \in Lots |-> stock[l] - wanted[l]]

Return(o) ==
  /\ phase[o] = "live"
  /\ phase' = [phase EXCEPT ![o] = "cancelled"]
  /\ stock' = [l \in Lots |-> stock[l] + reserved[o][l]]
  /\ reserved' = [reserved EXCEPT ![o] = Nothing]

StockNext ==
  \/ \E l \in Lots : Receive(l) \/ Discard(l)
  \/ \E o \in Orders : Reserve(o) \/ Return(o)

StockSpec == StockInit /\ [][StockNext]_stockVars
============================================================================
