--------------------------- MODULE OrderContract ---------------------------
(***************************************************************************)
(* What the shop promises about an order and its money, whatever way it is *)
(* paid: docs/CHECKOUT_PAYMENT_RECOVERY.md, section "Checkout contract".   *)
(* An order is placed, collects at most what it costs, is handed over only *)
(* when all of it is there, and is cancelled only while nothing is.        *)
(***************************************************************************)
EXTENDS Integers

CONSTANT Orders

VARIABLES
  phase,  \* "none", "waiting" for its money, "open", "shipped", "done", "cancelled"
  due,    \* what the order costs, fixed when it is placed
  held    \* the money the shop holds for it

contractVars == <<phase, due, held>>

\* Only an order of an older release is there from the start.
ContractInit ==
  /\ phase \in [Orders -> {"none", "waiting"}]
  /\ due \in [Orders -> Nat]
  /\ held = [o \in Orders |-> 0]

Place(o) ==
  /\ phase[o] = "none"
  /\ \E s \in {"waiting", "open"} : phase' = [phase EXCEPT ![o] = s]
  /\ due'[o] \in Nat /\ due' = [due EXCEPT ![o] = due'[o]]
  /\ UNCHANGED held

\* Money comes in; an order that waited for the last of it may open at once.
Collect(o) ==
  /\ phase[o] \notin {"none", "cancelled"}
  /\ held'[o] > held[o] /\ held'[o] <= due[o]
  /\ held' = [held EXCEPT ![o] = held'[o]]
  /\ \/ phase' = phase
     \/ /\ phase[o] = "waiting" /\ held'[o] = due[o]
        /\ phase' = [phase EXCEPT ![o] = "open"]
  /\ UNCHANGED due

\* Money goes back, in whatever phase the order is.
Return(o) ==
  /\ held'[o] < held[o] /\ held'[o] >= 0
  /\ held' = [held EXCEPT ![o] = held'[o]]
  /\ UNCHANGED <<phase, due>>

\* Work may start, and the parcel may leave, on credit; waiting and handing over
\* end only with all the money there.
Advance(o) ==
  /\ \/ phase[o] = "waiting" /\ held[o] = due[o] /\ phase' = [phase EXCEPT ![o] = "open"]
     \/ phase[o] = "open" /\ phase' = [phase EXCEPT ![o] = "shipped"]
     \/ /\ phase[o] \in {"open", "shipped"} /\ held[o] = due[o]
        /\ phase' = [phase EXCEPT ![o] = "done"]
  /\ UNCHANGED <<due, held>>

Cancel(o) ==
  /\ phase[o] \in {"waiting", "open"} /\ held[o] = 0
  /\ phase' = [phase EXCEPT ![o] = "cancelled"]
  /\ UNCHANGED <<due, held>>

ContractNext ==
  \E o \in Orders : Place(o) \/ Collect(o) \/ Return(o) \/ Advance(o) \/ Cancel(o)

ContractSpec == ContractInit /\ [][ContractNext]_contractVars
============================================================================
