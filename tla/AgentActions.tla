---------------------------- MODULE AgentActions ----------------------------
(***************************************************************************)
(* The approval lifecycle of the Operations Agent's proposals: proposed,   *)
(* claimed by an approval or a rejection, revalidated, run, finished, and  *)
(* returned to the queue when they are stuck.                              *)
(*                                                                         *)
(* Every session commits as it goes: the claim is one UPDATE, the tool     *)
(* commits for itself, the outcome is written by primary key, and a reset  *)
(* reads before it writes.  One target stands for the order or the batch   *)
(* that all the proposals are about; only the state they capture matters.  *)
(***************************************************************************)
EXTENDS Integers, FiniteSets

CONSTANTS
  Actions,    \* ids of proposals
  Sessions,   \* requests at work: approvals and resets
  States,     \* the states of the target that capture_state tells apart
  None,       \* no captured state: the tool declares no capture_state; no proposal
  MaxResets   \* bound of this model: resets asked for per proposal

ASSUME Bound == MaxResets \in Nat
ASSUME NoState == None \notin States \cup Actions
ASSUME Finite == IsFiniteSet(Sessions)

VARIABLES
  live,     \* the state of the target
  status,   \* trang_thai of each proposal; "none" before it is made
  want,     \* the state it is to bring about
  seen,     \* dieu_kien_tien_quyet, captured when it was made
  started,  \* ngay_bat_dau_xu_ly: none, fresh, or older than STALE_ACTION_MINUTES
  at, on,   \* what each session is doing, and for which proposal
  runs,     \* history: how often the tool ran to its effect
  resets,   \* history: how often it was returned to the queue
  lost      \* history: a session working on it died

row == <<status, want, seen, started>>
history == <<runs, resets, lost>>
work == <<at, on>>
vars == <<live, row, work, history>>

Statuses == {"none", "de_xuat", "dang_xu_ly", "hoan_thanh", "tu_choi", "that_bai"}
Running == {"claimed", "checked", "ran", "failed"}
Places == Running \cup {"idle", "reset"}

On(a, places) == {s \in Sessions : at[s] \in places /\ on[s] = a}

Init ==
  /\ live \in States
  /\ status = [a \in Actions |-> "none"]
  /\ want \in [Actions -> States]
  /\ seen = [a \in Actions |-> None]
  /\ started = [a \in Actions |-> "none"]
  /\ at = [s \in Sessions |-> "idle"]
  /\ on = [s \in Sessions |-> None]
  /\ runs = [a \in Actions |-> 0]
  /\ resets = [a \in Actions |-> 0]
  /\ lost = [a \in Actions |-> FALSE]

Does(s, place, a) == at' = [at EXCEPT ![s] = place] /\ on' = [on EXCEPT ![s] = a]
Ends(s) == Does(s, "idle", None)

----------------------------------------------------------------------------
(* Proposals and the queue                                                 *)

\* propose_action: with a snapshot of the target, if the tool declares one.  A
\* proposal that would change nothing is not interesting and left out.
Propose(a) ==
  /\ status[a] = "none" /\ want[a] # live
  /\ status' = [status EXCEPT ![a] = "de_xuat"]
  /\ \E snapshot \in {live, None} : seen' = [seen EXCEPT ![a] = snapshot]
  /\ UNCHANGED <<live, want, started, work, history>>

\* The condition of the one UPDATE that claims a proposal.
Unfinished(a) == status[a] \in {"de_xuat", "dang_xu_ly"}     \* mutant
Claimable(a) == status[a] = "de_xuat"

\* approve_action, up to the commit of the claim.  A claim that matches no row is an
\* answer 400 and changes nothing.
Approve(s, a) ==
  /\ at[s] = "idle" /\ Claimable(a)
  /\ status' = [status EXCEPT ![a] = "dang_xu_ly"]
  /\ started' = [started EXCEPT ![a] = "fresh"]
  /\ Does(s, "claimed", a)
  /\ UNCHANGED <<live, want, seen, history>>

Reject(a) ==
  /\ Claimable(a)
  /\ status' = [status EXCEPT ![a] = "tu_choi"]
  /\ started' = [started EXCEPT ![a] = "none"]
  /\ UNCHANGED <<live, want, seen, work, history>>

----------------------------------------------------------------------------
(* An approval at work                                                     *)

\* revalidate_state: the target is read and compared with the snapshot.
Stale(a) == seen[a] # None /\ seen[a] # live

Revalidate(s, a) ==
  /\ s \in On(a, {"claimed"})
  /\ Does(s, IF Stale(a) THEN "failed" ELSE "checked", a)
  /\ UNCHANGED <<live, row, history>>

\* The tool commits its effect; what it does after that may still fail.
Run(s, a) ==
  /\ s \in On(a, {"checked"})
  /\ live' = want[a]
  /\ runs' = [runs EXCEPT ![a] = @ + 1]
  /\ \E end \in {"ran", "failed"} : Does(s, end, a)
  /\ UNCHANGED <<row, resets, lost>>

\* The domain service refuses, or fails before its commit.
RefusedUnnoticed(s, a) ==                                    \* mutant
  /\ s \in On(a, {"checked"})
  /\ Does(s, "ran", a)
  /\ UNCHANGED <<live, row, history>>
Refused(s, a) ==
  /\ s \in On(a, {"checked"})
  /\ Does(s, "failed", a)
  /\ UNCHANGED <<live, row, history>>

\* The outcome is written whatever the row has become in the meantime.
Finish(s, a) ==
  /\ \E end \in {<<"ran", "hoan_thanh">>, <<"failed", "that_bai">>} :
       /\ s \in On(a, {end[1]})
       /\ status' = [status EXCEPT ![a] = end[2]]
  /\ Ends(s)
  /\ UNCHANGED <<live, want, seen, started, history>>

\* The process ends, or the outcome cannot be written.
Crash(s, a) ==
  /\ s \in On(a, Running \cup {"reset"})
  /\ Ends(s)
  /\ lost' = [lost EXCEPT ![a] = TRUE]
  /\ UNCHANGED <<live, row, runs, resets>>

----------------------------------------------------------------------------
(* The way out of a stuck proposal                                         *)

\* STALE_ACTION_MINUTES pass.
Age(a) ==
  /\ status[a] = "dang_xu_ly" /\ started[a] = "fresh"
  /\ started' = [started EXCEPT ![a] = "old"]
  /\ UNCHANGED <<live, status, want, seen, work, history>>

\* reset_action reads the row without a lock ...
BeginReset(s, a) ==
  /\ at[s] = "idle" /\ resets[a] + Cardinality(On(a, {"reset"})) < MaxResets
  /\ status[a] = "dang_xu_ly" /\ started[a] = "old"
  /\ Does(s, "reset", a)
  /\ UNCHANGED <<live, row, history>>

\* ... and writes it by primary key.
EndReset(s, a) ==
  /\ s \in On(a, {"reset"})
  /\ status' = [status EXCEPT ![a] = "de_xuat"]
  /\ started' = [started EXCEPT ![a] = "none"]
  /\ resets' = [resets EXCEPT ![a] = @ + 1]
  /\ Ends(s)
  /\ UNCHANGED <<live, want, seen, runs, lost>>

\* Staff, customers and jobs change the target all the time.
OtherChange ==
  /\ live' \in States \ {live}
  /\ UNCHANGED <<row, work, history>>

Next ==
  \/ OtherChange
  \/ \E a \in Actions : Propose(a) \/ Reject(a) \/ Age(a)
  \/ \E s \in Sessions, a \in Actions :
       \/ Approve(s, a) \/ Revalidate(s, a) \/ Run(s, a) \/ Refused(s, a)
       \/ Finish(s, a) \/ Crash(s, a) \/ BeginReset(s, a) \/ EndReset(s, a)

Spec == Init /\ [][Next]_vars

----------------------------------------------------------------------------
(* Properties                                                              *)

\* Rows, captured states, sessions and histories of the right kind.
TypeOK ==
  /\ live \in States
  /\ status \in [Actions -> Statuses]
  /\ want \in [Actions -> States]
  /\ seen \in [Actions -> States \cup {None}]
  /\ started \in [Actions -> {"none", "fresh", "old"}]
  /\ at \in [Sessions -> Places] /\ on \in [Sessions -> Actions \cup {None}]
  /\ runs \in [Actions -> Nat]
  /\ resets \in [Actions -> Nat]
  /\ lost \in [Actions -> BOOLEAN]

\* A proposal runs at most once for each time it was in the queue, however many
\* approvals race for it and however late a slow one ends: with each run goes the
\* claim that took it from the queue.
OneRunPerQueueing ==
  \A a \in Actions :
    runs[a] + Cardinality(On(a, {"claimed", "checked"})) <= 1 + resets[a]

\* A rejected proposal that nobody reset has not run, and no approval is at work on it
\* that could still run it.
RejectedNeverRuns ==
  \A a \in Actions : status[a] = "tu_choi" /\ resets[a] = 0 =>
    runs[a] = 0 /\ On(a, Running) = {}

\* What the audit log calls completed has taken effect.
CompletedHasRun == \A a \in Actions : status[a] = "hoan_thanh" => runs[a] > 0

\* Only a dead session leaves a proposal in flight with nobody at work on it.
InFlightHasWorker ==
  \A a \in Actions : status[a] = "dang_xu_ly" => On(a, Running) # {} \/ lost[a]

\* Approvals that race, a slow one, a rejection and resets decide as the row says.
DecisionsHold == OneRunPerQueueing /\ RejectedNeverRuns

\* The audit log is true of what was done and of what is under way.
LogIsTrue == CompletedHasRun /\ InFlightHasWorker
============================================================================
