--------------------------- MODULE Notifications ---------------------------
(* The unattended half of the operations agent: a scan turns the conditions *)
(* that alerts report into insights for the staff                           *)
(* (proactive_service.py), each through one audited automatic action        *)
(* (execute_automated_action, proactive_actions.py).  Scans overlap: the    *)
(* scheduled job holds a lock, the requests that scan do not.  Managers may *)
(* reset, approve and reject the rows of these actions like any others      *)
(* (agent_service.py).  A condition stands for the evidence built from an   *)
(* alert and the stock behind it.                                           *)
EXTENDS Integers, FiniteSets, ActionPolicy

CONSTANTS Alerts,       \* alert ids
          Rank,         \* the place of each in what list_alerts returns
          Conditions,   \* what the evidence on an alert may say
          Initial,      \* the evidence of alerts just raised
          Prints, Fingerprint, \* insight_fingerprint leaves part of the evidence out
          Texts,        \* what the recommendation may read: the model words it anew
          Tokens,       \* occurrences of an insight: 0, then one per supersession
          Workers,      \* database sessions that scan
          Managers,     \* database sessions of managers that reset and approve
          NoCondition,
          NoText,
          NoKey,
          MaxChanges,   \* bound on what the world and the managers do in a behaviour
          MaxFaults     \* bound on crashes and unexpected errors

ASSUME Evidence == /\ Fingerprint \in [Conditions -> Prints] /\ NoCondition \notin Conditions
                   /\ Initial \subseteq Conditions
                   /\ NoText \notin Texts
ASSUME Listing == /\ IsFiniteSet(Alerts) /\ Rank \in [Alerts -> Nat]
                  /\ \A a, b \in Alerts : Rank[a] = Rank[b] => a = b
ASSUME Occurrences == 0 \in Tokens /\ Tokens \subseteq Nat

VARIABLES alert,   \* status of each alert and the evidence on it, if it is current
          insight, \* ProactiveInsight: status and supersessions so far, per alert and print
          action,  \* AgentAction: the row of each idempotency key
          worker,  \* what each scan is doing and remembers
          manager, \* what each reset or approval is doing, and to which row
          changes, faults

vars == <<alert, insight, action, worker, manager, changes, faults>>

(* An alert in hand, one handled and one dismissed are the same here: only an *)
(* untouched one is listed, and the insights of the others are withdrawn.    *)
AlertStatuses == {"chua_xu_ly", "handled", "deleted"}
Open == {"unread", "read"}
Ids == Alerts \X Prints
Keys == Alerts \X Conditions \X Tokens
Of(k) == <<k[1], Fingerprint[k[2]]>>
NoInsight == [status |-> "none", round |-> 0]
NoAction == [status |-> "none", outcome |-> "none", attempts |-> 0, text |-> NoText]
Session(pc, todo, drop, token, text, old) ==
  [pc |-> pc, todo |-> todo, drop |-> drop, token |-> token, text |-> text, old |-> old]
Idle == Session("idle", {}, {}, 0, NoText, {})
NoDecision == [pc |-> "idle", key |-> NoKey]
Results == {"created", "reopened", "deduplicated"}

Init ==
  /\ alert \in [Alerts -> [status : {"chua_xu_ly"}, cond : Initial]]
  /\ insight = [i \in Ids |-> NoInsight]
  /\ action = [k \in Keys |-> NoAction]
  /\ worker = [w \in Workers |-> Idle]
  /\ manager = [m \in Managers |-> NoDecision]
  /\ changes = 0 /\ faults = 0

Candidate(a) == alert[a].status = "chua_xu_ly" /\ alert[a].cond # NoCondition
Opened(a) == {i \in Ids : i[1] = a /\ insight[i].status \in Open}

\* mutant: an insight is withdrawn when its alert is handled, not when it has lapsed
HandledOnly == {i \in Ids : insight[i].status \in Open /\ alert[i[1]].status # "chua_xu_ly"}
Noncurrent == {i \in Ids : insight[i].status \in Open /\ ~Candidate(i[1])}

Superseded(ids) == [i \in Ids |-> IF i \in ids
                                  THEN [status |-> "superseded", round |-> insight[i].round + 1]
                                  ELSE insight[i]]

(* Rows in flight for STALE_ACTION_MINUTES or more, their session dead or    *)
(* slow, are settled by what it left.                                        *)
InFlight == {k \in Keys : action[k].status = "dang_xu_ly"}
\* mutant: a row that is that old is taken for completed
ReconciledBlindly(stale) ==
  [k \in Keys |-> IF k \in stale THEN [action[k] EXCEPT !.status = "hoan_thanh"] ELSE action[k]]
Reconciled(stale) ==
  [k \in Keys |->
     IF k \notin stale THEN action[k]
     ELSE IF insight[Of(k)].status = "none"
     THEN [action[k] EXCEPT !.status = "that_bai", !.outcome = "failed"]
     ELSE [action[k] EXCEPT !.status = "hoan_thanh", !.outcome = "deduplicated"]]

(* A scan settles stale rows, lists the current alerts and marks the         *)
(* insights to withdraw; the marks reach the database with its next commit.  *)
Begin(w, stale) ==
  /\ worker[w].pc = "idle"
  /\ action' = Reconciled(stale)
  /\ worker' = [worker EXCEPT ![w] =
       Session("look", {<<a, alert[a].cond>> : a \in {b \in Alerts : Candidate(b)}},
               Noncurrent, 0, NoText, {})]
  /\ UNCHANGED <<alert, insight, manager, changes, faults>>

(* The candidates are taken in the order of the list.                        *)
Earliest(todo) == CHOOSE t \in todo : \A u \in todo : Rank[t[1]] <= Rank[u[1]]
Target(w) == Earliest(worker[w].todo)
Key(w) == <<Target(w)[1], Target(w)[2], worker[w].token>>
Stop(w) == worker' = [worker EXCEPT ![w] = Idle]

(* On to the next candidate; a new insight supersedes the open ones that it  *)
(* found, with the next commit.                                              *)
Proceed(w, outcome, drop) ==
  worker' = [worker EXCEPT ![w] =
    Session("look", worker[w].todo \ {Target(w)},
            drop \cup (IF outcome = "created" THEN worker[w].old ELSE {}), 0, NoText, {})]

(* Skip what the staff has been told; else word a recommendation.            *)
Look(w) ==
  /\ worker[w].pc = "look" /\ worker[w].todo # {}
  /\ LET i == Of(Target(w))
     IN \/ insight[i].status \in Open \cup {"resolved"} /\ Proceed(w, "none", worker[w].drop)
        \/ /\ insight[i].status \in {"none", "superseded"}
           /\ \E t \in Texts : worker' = [worker EXCEPT ![w] =
                Session("claim", worker[w].todo, worker[w].drop,
                        IF insight[i].status = "none" THEN 0 ELSE insight[i].round,
                        t, Opened(i[1]))]
  /\ UNCHANGED <<alert, insight, action, manager, changes, faults>>

(* execute_automated_action looks its key up: the parameters must be those   *)
(* of the first time, recommendation included, or it raises and ends the     *)
(* scan; a failure is retried once, anything else is left as it is.          *)
CanRetry(row) == row.status = "that_bai" /\ row.attempts < 2 /\ row.outcome = "failed"
Executed(row) == IF row.status = "hoan_thanh" THEN row.outcome ELSE "none"
Claim(w) ==
  /\ worker[w].pc = "claim"
  /\ evaluate_automated_action(TOOL_REGISTRY["create_proactive_notification"]) = "automatic"
  /\ LET row == action[Key(w)]
     IN \/ row.status # "none" /\ row.text # worker[w].text /\ Stop(w)
        \/ /\ row.status # "none" /\ row.text = worker[w].text /\ ~CanRetry(row)
           /\ Proceed(w, Executed(row), worker[w].drop)
        \/ row.status = "none" /\ worker' = [worker EXCEPT ![w].pc = "insert"]
        \/ /\ row.status # "none" /\ row.text = worker[w].text /\ CanRetry(row)
           /\ worker' = [worker EXCEPT ![w].pc = "retry"]
  /\ UNCHANGED <<alert, insight, action, manager, changes, faults>>

(* A commit of the session writes the insights it marked; if one of them is  *)
(* gone it fails, and the scan with it.                                      *)
Flushes(w) == \A i \in worker[w].drop : insight[i].status # "none"
Running(w, attempts) == [status |-> "dang_xu_ly", outcome |-> action[Key(w)].outcome,
                         attempts |-> attempts, text |-> worker[w].text]
Claimed(w, attempts) ==
  /\ Flushes(w)
  /\ insight' = Superseded(worker[w].drop)
  /\ action' = [action EXCEPT ![Key(w)] = Running(w, attempts)]
  /\ worker' = [worker EXCEPT ![w] = Session("run", worker[w].todo, {}, worker[w].token,
                                             worker[w].text, worker[w].old)]

(* The key is unique: of two scans that insert it one finds the other's row, *)
(* and loses the withdrawals it had marked with its transaction.             *)
Insert(w) ==
  /\ worker[w].pc = "insert"
  /\ \/ action[Key(w)].status = "none" /\ Claimed(w, 1)
     \/ /\ action[Key(w)].status # "none" /\ Flushes(w)
        /\ Proceed(w, Executed(action[Key(w)]), {}) /\ UNCHANGED <<insight, action>>
     \/ ~Flushes(w) /\ Stop(w) /\ UNCHANGED <<insight, action>>
  /\ UNCHANGED <<alert, manager, changes, faults>>

(* A retry writes by primary key what it decided on an unlocked read.        *)
Retry(w) ==
  /\ worker[w].pc = "retry"
  /\ \/ Claimed(w, 2)
     \/ ~Flushes(w) /\ Stop(w) /\ UNCHANGED <<insight, action>>
  /\ UNCHANGED <<alert, manager, changes, faults>>

Fails(w, outcome) ==
  /\ action' = [action EXCEPT ![Key(w)] =
       [status |-> "that_bai", outcome |-> outcome, attempts |-> @.attempts, text |-> @.text]]
  /\ Proceed(w, "none", {})

(* revalidate_notification_state: the evidence must be what it was.  Whether *)
(* the alert is still open is not asked.                                     *)
Current(k) == alert[k[1]].status # "deleted" /\ alert[k[1]].cond = k[2]
Revalidate(w) ==
  /\ worker[w].pc = "run"
  /\ \/ Current(Key(w)) /\ worker' = [worker EXCEPT ![w].pc = "notify"] /\ UNCHANGED action
     \/ ~Current(Key(w)) /\ Fails(w, "rejected")
  /\ UNCHANGED <<alert, insight, manager, changes, faults>>

(* create_proactive_notification, its own commit included.                   *)
Tell(k, result) ==
  LET i == Of(k)
      Becomes(n) == insight' = [insight EXCEPT ![i] = [status |-> "unread", round |-> n]]
  IN \/ /\ insight[i].status = "none" /\ alert[i[1]].status = "deleted"
        /\ result = "failed" /\ UNCHANGED insight
     \/ /\ insight[i].status = "none" /\ alert[i[1]].status # "deleted"
        /\ result = "created" /\ Becomes(0)
     \/ /\ insight[i].status = "superseded" /\ k[3] # 0
        /\ result = "reopened" /\ Becomes(insight[i].round)
     \/ /\ \/ insight[i].status \in Open \cup {"resolved"}
           \/ insight[i].status = "superseded" /\ k[3] = 0
        /\ result = "deduplicated" /\ UNCHANGED insight
Notify(w) ==
  /\ worker[w].pc = "notify"
  /\ \/ Tell(Key(w), "failed") /\ Fails(w, "failed")
     \/ \E result \in Results :
          /\ Tell(Key(w), result)
          /\ worker' = [worker EXCEPT ![w].pc = result] /\ UNCHANGED action
  /\ UNCHANGED <<alert, manager, changes, faults>>

(* The outcome goes to the row, whatever has become of it meanwhile.         *)
Finish(w) ==
  /\ worker[w].pc \in Results
  /\ action' = [action EXCEPT ![Key(w)] =
       [status |-> "hoan_thanh", outcome |-> worker[w].pc, attempts |-> @.attempts, text |-> @.text]]
  /\ Proceed(w, worker[w].pc, {})
  /\ UNCHANGED <<alert, insight, manager, changes, faults>>

End(w) ==
  /\ worker[w].pc = "look" /\ worker[w].todo = {} /\ Stop(w)
  /\ insight' = IF Flushes(w) THEN Superseded(worker[w].drop) ELSE insight
  /\ UNCHANGED <<alert, action, manager, changes, faults>>

(* An unexpected error in the tool is caught and recorded; a crash is not.   *)
Fault(w) ==
  /\ worker[w].pc \in {"run", "notify"} /\ faults < MaxFaults /\ faults' = faults + 1
  /\ Fails(w, "failed") /\ UNCHANGED <<alert, insight, manager, changes>>
Crash(w) ==
  /\ worker[w].pc # "idle" /\ faults < MaxFaults /\ faults' = faults + 1 /\ Stop(w)
  /\ UNCHANGED <<alert, insight, action, manager, changes>>

(* What the managers decide about a row: neither a reset nor an approval nor *)
(* a rejection asks whether the row was proposed to them or runs unattended. *)
Turns == changes < MaxChanges /\ changes' = changes + 1
Does(m, pc, k) == manager' = [manager EXCEPT ![m] = [pc |-> pc, key |-> k]]
Done(m) == manager' = [manager EXCEPT ![m] = NoDecision]
Marks(k, status) == action' = [action EXCEPT ![k].status = status]

Reject(k) ==
  /\ action[k].status = "de_xuat" /\ Turns /\ Marks(k, "tu_choi")
  /\ UNCHANGED <<alert, insight, worker, manager, faults>>

(* reset_action reads an old row in flight, and writes it by its primary key. *)
BeginReset(m, k) ==
  /\ manager[m].pc = "idle" /\ action[k].status = "dang_xu_ly" /\ Turns /\ Does(m, "reset", k)
  /\ UNCHANGED <<alert, insight, action, worker, faults>>
EndReset(m) ==
  /\ manager[m].pc = "reset" /\ Marks(manager[m].key, "de_xuat") /\ Done(m)
  /\ UNCHANGED <<alert, insight, worker, changes, faults>>

(* approve_action claims the row, looks at the evidence again, runs the tool  *)
(* and writes what came of it; an error leaves the outcome in the row.        *)
Approve(m, k) ==
  /\ manager[m].pc = "idle" /\ action[k].status = "de_xuat" /\ Turns
  /\ Marks(k, "dang_xu_ly") /\ Does(m, "run", k)
  /\ UNCHANGED <<alert, insight, worker, faults>>
Refused(m) == Marks(manager[m].key, "that_bai") /\ Done(m)
Recheck(m) ==
  /\ manager[m].pc = "run"
  /\ \/ Current(manager[m].key) /\ Does(m, "notify", manager[m].key) /\ UNCHANGED action
     \/ ~Current(manager[m].key) /\ Refused(m)
  /\ UNCHANGED <<alert, insight, worker, changes, faults>>
Execute(m) ==
  /\ manager[m].pc = "notify"
  /\ \/ Tell(manager[m].key, "failed") /\ Refused(m)
     \/ \E result \in Results :
          Tell(manager[m].key, result) /\ Does(m, result, manager[m].key) /\ UNCHANGED action
  /\ UNCHANGED <<alert, worker, changes, faults>>
Record(m) ==
  /\ manager[m].pc \in Results /\ Done(m)
  /\ action' = [action EXCEPT ![manager[m].key] =
       [status |-> "hoan_thanh", outcome |-> manager[m].pc, attempts |-> @.attempts, text |-> @.text]]
  /\ UNCHANGED <<alert, insight, worker, changes, faults>>
Handles(m) == EndReset(m) \/ Recheck(m) \/ Execute(m) \/ Record(m)

(* An unexpected error in an approval is recorded; a crash is not.            *)
Goes(m) ==
  /\ manager[m].pc # "idle" /\ faults < MaxFaults /\ faults' = faults + 1
  /\ \/ manager[m].pc \in {"run", "notify"} /\ Refused(m)
     \/ Done(m) /\ UNCHANGED action
  /\ UNCHANGED <<alert, insight, worker, changes>>

(* The staff reads and resolves insights (update_proactive_insight_status).  *)
Mark(i, status) ==
  /\ insight[i].status \in (Open \cup {"resolved"}) \ {status} /\ changes < MaxChanges
  /\ changes' = changes + 1
  /\ insight' = [insight EXCEPT ![i] = [status |-> status, round |-> @.round]]
  /\ UNCHANGED <<alert, action, worker, manager, faults>>

(* The stock moves, and with it the evidence, or it is no longer current.    *)
Move(a, c) ==
  /\ alert[a].status # "deleted" /\ alert[a].cond # c /\ changes < MaxChanges
  /\ changes' = changes + 1
  /\ alert' = [alert EXCEPT ![a] = [status |-> @.status, cond |-> c]]
  /\ UNCHANGED <<insight, action, worker, manager, faults>>

(* The managers handle alerts; a deleted one takes its insights with it.     *)
Handle(a, status) ==
  /\ alert[a].status \notin {"deleted", status} /\ changes < MaxChanges
  /\ changes' = changes + 1
  /\ alert' = [alert EXCEPT ![a] = [status |-> status, cond |-> @.cond]]
  /\ insight' = [i \in Ids |-> IF i[1] = a /\ status = "deleted" THEN NoInsight ELSE insight[i]]
  /\ UNCHANGED <<action, worker, manager, faults>>

Work(w) == \/ Begin(w, {}) \/ Look(w) \/ Claim(w) \/ Insert(w) \/ Retry(w)
           \/ Revalidate(w) \/ Notify(w) \/ Finish(w) \/ End(w)
Next ==
  \/ \E w \in Workers : \/ Work(w) \/ Fault(w) \/ Crash(w)
                         \/ \E stale \in SUBSET InFlight : Begin(w, stale)
  \/ \E k \in Keys : Reject(k) \/ \E m \in Managers : BeginReset(m, k) \/ Approve(m, k)
  \/ \E m \in Managers : Handles(m) \/ Goes(m)
  \/ \E i \in Ids, st \in {"read", "resolved"} : Mark(i, st)
  \/ \E a \in Alerts : \/ \E c \in Conditions \cup {NoCondition} : Move(a, c)
                       \/ \E st \in AlertStatuses : Handle(a, st)

(* Scans recur and come to their end, and some of them find what is in       *)
(* flight to be stale; a manager's request goes on, but nobody has to decide. *)
Fairness == /\ \A w \in Workers : WF_vars(Work(w)) /\ SF_vars(Begin(w, InFlight))
            /\ \A m \in Managers : WF_vars(Handles(m))
Spec == Init /\ [][Next]_vars /\ Fairness
-----------------------------------------------------------------------------
TypeOK ==
  /\ alert \in [Alerts -> [status : AlertStatuses, cond : Conditions \cup {NoCondition}]]
  /\ insight \in [Ids -> [status : Open \cup {"none", "resolved", "superseded"}, round : Nat]]
  /\ action \in [Keys -> [status : {"none", "de_xuat", "dang_xu_ly", "hoan_thanh",
                                    "that_bai", "tu_choi"},
                          outcome : Results \cup {"none", "rejected", "failed"},
                          attempts : 0..2, text : Texts \cup {NoText}]]
  /\ worker \in [Workers -> [pc : Results \cup {"idle", "look", "claim", "insert", "retry", "run", "notify"},
                             todo : SUBSET (Alerts \X Conditions), drop : SUBSET Ids, token : Tokens,
                             text : Texts \cup {NoText}, old : SUBSET Ids]]
  /\ manager \in [Managers -> [pc : Results \cup {"idle", "reset", "run", "notify"},
                               key : Keys \cup {NoKey}]]

(* An audit row that says completed points at an insight that exists: what   *)
(* the log claims was told was told, even when the session that told it      *)
(* died, another one settled its row, or both finished it, and managers      *)
(* reset and approved it meanwhile.                                          *)
CompletedHasInsight ==
  \A k \in Keys : action[k].status = "hoan_thanh" /\ alert[k[1]].status # "deleted"
                    => insight[Of(k)].status # "none"

(* Nothing reaches the staff that was not claimed first: whatever crashed or *)
(* was retried, an insight has an audit row of a condition it describes.     *)
EverythingAudited ==
  \A i \in Ids : insight[i].status # "none"
                   => \E k \in Keys : Of(k) = i /\ action[k].status # "none"

(* The audit log and what the staff are told agree, in both directions.      *)
AuditIsTrue == TypeOK /\ CompletedHasInsight /\ EverythingAudited

TakenForDone(k) == /\ action[k].status = "hoan_thanh" /\ action[k].outcome = "deduplicated"
                   /\ insight[Of(k)].status = "superseded"
LeftToManagers(k) == action[k].status \in {"de_xuat", "tu_choi"}
FailedForGood(k) == action[k].status = "that_bai" /\ ~CanRetry(action[k])
Answered(a) ==
  LET i == <<a, Fingerprint[alert[a].cond]>>
      k == <<a, alert[a].cond, insight[i].round>>
  IN \/ insight[i].status \in Open \cup {"resolved"}
     \/ FailedForGood(k) \/ TakenForDone(k) \/ LeftToManagers(k)

\* A scan is about to be ended by a row whose recommendation reads otherwise.
Reworded(w) == /\ worker[w].pc = "claim" /\ action[Key(w)].status # "none"
               /\ action[Key(w)].text # worker[w].text

(* When the world holds still, no row stays in flight.  And unless scans are *)
(* ended again and again because the model words a recommendation anew,      *)
(* every current alert ends up with an insight, or with an audit row of its  *)
(* very condition and occurrence that failed for good, was taken for done,   *)
(* or is for a manager to decide or was rejected; and no insight stays open  *)
(* whose alert is not current: overlapping scans, crashes, failures, lost    *)
(* withdrawals and managers notwithstanding.                                 *)
InsightsSettle ==
  /\ <>[](\A k \in Keys : action[k].status # "dang_xu_ly")
  /\ \/ <>[](/\ \A a \in Alerts : Candidate(a) => Answered(a)
             /\ \A i \in Ids : insight[i].status \in Open => Candidate(i[1]))
     \/ []<>(\E w \in Workers : Reworded(w))
=============================================================================
