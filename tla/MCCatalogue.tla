------------------------------ MODULE MCCatalogue ------------------------------
(***************************************************************************)
(* A small catalogue: one product of the seed data, one of the page's.     *)
(***************************************************************************)
EXTENDS Catalogue

CONSTANTS p1, p2, v1, v2, b1, k1, k2, s1, s2
============================================================================
