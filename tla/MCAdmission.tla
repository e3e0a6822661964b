----------------------------- MODULE MCAdmission -----------------------------
(***************************************************************************)
(* The way in, in two scenes: the places that requests wait for, and the    *)
(* accounts they come from.                                                *)
(***************************************************************************)
EXTENDS Admission, Accounts, TLC

CONSTANTS c1, c2, c3, c4, c5, probe, job, p1, p2, e1, e2, e3, i1

MCClients == {c1, c2, c3, c4, c5, probe}
MCFounders == p1 :> "admin" @@ p2 :> "manager"
MCHomeOf == p1 :> e1 @@ p2 :> e2
MCAddressOf == i1 :> e3

VARIABLE scene

MCInit == Init /\ UsersInit /\ scene \in {"places", "accounts"}
MCNext ==
  \/ scene = "places" /\ Next /\ UNCHANGED <<usersVars, scene>>
  \/ scene = "accounts" /\ UsersNext /\ UNCHANGED <<vars, scene>>
MCSpec == MCInit /\ [][MCNext]_<<vars, usersVars, scene>> /\ Fairness
============================================================================
