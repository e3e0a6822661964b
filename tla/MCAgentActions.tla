--------------------------- MODULE MCAgentActions ---------------------------
(***************************************************************************)
(* Two instances of the agent in one: approvals that race for a proposal   *)
(* of the staff, and a chat whose proposals are decided while it goes on.  *)
(***************************************************************************)
EXTENDS AgentChat

CONSTANTS a1, a2, s1, s2, s3, x, y, c1

VARIABLE scene

MCInit == ChatInit /\ scene \in {"approvals", "chat"}

\* What the lifecycle shows by itself is left to the first scene.
NoChat == phase' = phase /\ status'[a2] = "none"
NoRaces == live' = live /\ \A s \in Sessions : at'[s] = "idle"

MCNext ==
  /\ ChatNext /\ UNCHANGED scene
  /\ scene = "approvals" => NoChat
  /\ scene = "chat" => NoRaces
MCSpec == MCInit /\ [][MCNext]_<<vars, chatVars, scene>> /\ ChatFairness
============================================================================
