-------------------------- MODULE MCNotifications --------------------------
(* Evidence of one alert: the units left change without the print changing, *)
(* the severity changes it.  Three scenes: two scans of a world that moves   *)
(* twice, with one wording; one scan, and managers and a world that move     *)
(* three times between them; two scans that word a recommendation in one way *)
(* or another, where the world or a manager moves once.                      *)
EXTENDS Notifications
CONSTANTS a1, few, urgent, early, late, plain, w1
VARIABLE scene
MCRank == [a \in Alerts |-> 0]
MCFingerprint == [c \in Conditions |-> IF c = urgent THEN late ELSE early]

OnePlainWording == \A w \in Workers : worker'[w].text \in {plain, NoText}
NoManagers == \A m \in Managers : manager'[m] = NoDecision
OneScan == \A w \in Workers \ {w1} : worker'[w] = Idle

MCInit == Init /\ scene \in {"moves", "managers", "wordings"}
MCNext ==
  /\ Next /\ UNCHANGED scene
  /\ scene = "moves" => OnePlainWording /\ NoManagers /\ changes' <= 2
  /\ scene = "managers" => OnePlainWording /\ OneScan
  /\ scene = "wordings" => changes' <= 1
Forced(w) == scene = "managers" => w = w1
MCFairness ==
  /\ \A w \in Workers : /\ WF_vars(Forced(w) /\ Work(w))
                         /\ SF_vars(Forced(w) /\ Begin(w, InFlight))
  /\ \A m \in Managers : WF_vars(Handles(m))
MCSpec == MCInit /\ [][MCNext]_<<vars, scene>> /\ MCFairness
=============================================================================
