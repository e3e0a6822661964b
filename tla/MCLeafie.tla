------------------------------ MODULE MCLeafie ------------------------------
(* Three instances in one, each with what it is about: a guest who dictates, *)
(* accounts that change, and addresses that compete while time passes.       *)
EXTENDS Leafie
CONSTANTS u1, q1, q2, r1, r2, home, other

VARIABLE scene

OneGuest == user' = Guest
OneQuestion == \A r \in Requests : req'[r].text = q2 => req'[r].by # Guest
OwnQuestion == \A r \in Requests : req'[r].text = q1 => req'[r].by = Guest
NoVisitors == \A r \in Requests : req'[r].client = Home
TimeStands == \A i \in DOMAIN bucket' : \A j \in DOMAIN bucket'[i].times : bucket'[i].times[j] = 0
NoDraft == input' = {} /\ mic' = "off" /\ (panel' = "closed" => panel = "closed")

MCInit == LeafieInit /\ scene \in {"dictation", "accounts", "addresses"}
MCNext ==
  /\ LeafieNext /\ UNCHANGED scene
  /\ scene = "dictation" => OneGuest /\ OneQuestion /\ NoVisitors /\ TimeStands
  /\ scene = "accounts" => NoDraft /\ OneQuestion /\ OwnQuestion /\ NoVisitors /\ TimeStands
  /\ scene = "addresses" => NoDraft /\ OneGuest
MCSpec == MCInit /\ [][MCNext]_<<leafieVars, scene>> /\ LeafieFairness
=============================================================================
