----------------------------- MODULE MCInventory -----------------------------
(***************************************************************************)
(* Small instances of Inventory.  Lots 1 and 2 hold cakes, lot 3 boxes.    *)
(***************************************************************************)
EXTENDS Inventory, TLC

CONSTANTS cake, box

MCItemOf == [l \in Lots |-> IF l = 3 THEN box ELSE cake]

Want(item, n) == [item |-> item, qty |-> n]

\* Two cakes, from one lot or two.
MCCakes == {<<Want(cake, 2)>>}

\* A gift box with a cake, and the same two bought the other way round.
MCMixed == {<<Want(box, 1), Want(cake, 1)>>, <<Want(cake, 1), Want(box, 1)>>}

MCSymmetry == Permutations(Sessions) \cup Permutations(Orders)
============================================================================
