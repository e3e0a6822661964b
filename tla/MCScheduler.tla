----------------------------- MODULE MCScheduler -----------------------------
(***************************************************************************)
(* What the scheduler's two jobs work on, in two scenes: the payments of   *)
(* an order, which one of them sweeps, and the alerts of the inventory,    *)
(* which the other writes (one lot of a cake, one of a component, two      *)
(* instances).                                                             *)
(***************************************************************************)
EXTENDS MCOrderPayments, Alerts

CONSTANTS cake, tin, small

VARIABLE scene

MCVariantOf == (cake :> small) @@ (tin :> NoVariant)
MCProducts == {{small}}

\* Stock enough for no alert, while orders are paid.  Otherwise a full store with no alert,
\* or an empty one with an alert of the kind that is not raised any more.
MCInit ==
  /\ Init /\ AlertsInit /\ scene \in {"payments", "alerts"}
  /\ scene = "payments" => alerts = <<>> /\ \A l \in Lots : lot[l].stock = MaxStock
  /\ scene = "alerts" => (alerts = <<>> <=> \A l \in Lots : lot[l].stock = MaxStock)
MCNext ==
  \/ scene = "payments" /\ Next /\ UNCHANGED <<alertsVars, scene>>
  \/ scene = "alerts" /\ AlertsNext /\ UNCHANGED <<vars, scene>>

\* AlertsFairness, in the scene that has scans.
ScanFairness ==
  /\ \A j \in Jobs : /\ WF_alertsVars(scene = "alerts" /\ Tick(j))
                     /\ WF_alertsVars(scene = "alerts" /\ (Start(j) \/ Skip(j)))
  /\ \A s \in Scanners : WF_alertsVars(Commit(s))

MCSpec == MCInit /\ [][MCNext]_<<vars, alertsVars, scene>> /\ ScanFairness
==============================================================================
