------------------------------ MODULE Admission ------------------------------
(***************************************************************************)
(* AdmissionMiddleware: how many HTTP requests work at once, how many wait *)
(* for their turn, and what that leaves of the connection pool.            *)
(*                                                                         *)
(* The middleware runs on one event loop, so what a request does between   *)
(* two awaits is one step.  The limiter is anyio's and external: acquire   *)
(* takes a token or waits for one, a released token goes to a waiter, and  *)
(* a waiter that is cancelled keeps none.                                  *)
(***************************************************************************)
EXTENDS Integers, FiniteSets

CONSTANTS
  Clients,      \* each has at most one request under way
  Probes,       \* the clients that ask for /health
  Jobs,         \* the connections the scheduler's jobs may hold
  MaxInflight,  \* tokens of the limiter
  MaxWaiting,   \* requests that may wait for a token
  PoolSize      \* connections of the engine, overflow included

ASSUME ClientsFinite == IsFiniteSet(Clients) /\ Probes \subseteq Clients
ASSUME JobsFinite == IsFiniteSet(Jobs) /\ Jobs \cap Clients = {}
ASSUME Limits == MaxInflight \in Nat \ {0} /\ MaxWaiting \in Nat \ {0} /\ PoolSize \in Nat
\* Twenty requests and the three connections of two jobs, out of thirty.
ASSUME Reserve == MaxInflight + Cardinality(Jobs) <= PoolSize

VARIABLES
  pc,        \* where each client's request is
  waiting,   \* the middleware's counter
  borrowers, \* the requests the limiter has given a token
  conns      \* the holders of database connections

vars == <<pc, waiting, borrowers, conns>>

Places == {"away", "queued", "granted", "running", "closing", "closed", "late",
           "refusing", "probing"}

At(places) == {c \in Clients : pc[c] \in places}

\* A request that was admitted and has not returned: its endpoint, its teardown, or
\* what is left of the middleware's call after them.
AtWork == At({"running", "closing", "closed"})

Init ==
  /\ pc = [c \in Clients |-> "away"]
  /\ waiting = 0
  /\ borrowers = {}
  /\ conns = {}

Goes(c, to) == pc' = [pc EXCEPT ![c] = to]

----------------------------------------------------------------------------
(* The limiter                                                             *)

\* acquire: the token at once if one is free and nobody waits, else a place in line.
Acquire(c) ==
  IF At({"queued"}) = {} /\ Cardinality(borrowers) < MaxInflight
    THEN borrowers' = borrowers \cup {c} /\ Goes(c, "granted")
    ELSE borrowers' = borrowers /\ Goes(c, "queued")

\* The token of c goes to one of those who wait, if any, and c goes on to `to`.
HandOver(c, to) ==
  \/ /\ At({"queued"}) = {}
     /\ borrowers' = borrowers \ {c}
     /\ Goes(c, to)
  \/ \E n \in At({"queued"}) :
       /\ borrowers' = (borrowers \ {c}) \cup {n}
       /\ pc' = [pc EXCEPT ![c] = to, ![n] = "granted"]

\* acquire ends with an exception: c leaves the line, or passes on what it was given.
GiveUp(c, to) ==
  \/ pc[c] = "queued" /\ borrowers' = borrowers /\ Goes(c, to)
  \/ pc[c] = "granted" /\ HandOver(c, to)

----------------------------------------------------------------------------
(* The middleware                                                          *)

\* /health passes the limiter by.
Probe(c) ==
  /\ pc[c] = "away" /\ c \in Probes
  /\ Goes(c, "probing")
  /\ UNCHANGED <<waiting, borrowers, conns>>

NoRoom == waiting >= MaxWaiting

Refuse(c) ==
  /\ pc[c] = "away" /\ c \notin Probes /\ NoRoom
  /\ Goes(c, "refusing")
  /\ UNCHANGED <<waiting, borrowers, conns>>

\* Counted first, then in line.
Join(c) ==
  /\ pc[c] = "away" /\ c \notin Probes /\ ~NoRoom
  /\ waiting' = waiting + 1
  /\ Acquire(c)
  /\ UNCHANGED conns

\* acquire has returned: the request goes on to the application.
Enter(c) ==
  /\ pc[c] = "granted"
  /\ waiting' = waiting - 1
  /\ Goes(c, "running")
  /\ UNCHANGED <<borrowers, conns>>

\* fail_after: wait_seconds have passed, perhaps with a token on its way.
TimeOutAtDoor(c) ==                                          \* mutant
  pc[c] = "granted" /\ GiveUp(c, "late") /\ UNCHANGED <<waiting, conns>>
TimeOut(c) ==
  /\ GiveUp(c, "late")
  /\ UNCHANGED <<waiting, conns>>

\* The 503 of a request that timed out: it counts as waiting until the 503 is sent.
AnsweredLate(c) ==
  /\ pc[c] = "late"
  /\ waiting' = waiting - 1
  /\ Goes(c, "away")
  /\ UNCHANGED <<borrowers, conns>>

\* The request's task is cancelled while it waits.
Disconnect(c) ==
  /\ GiveUp(c, "away")
  /\ waiting' = waiting - 1
  /\ UNCHANGED conns

\* The 503 of a refused request, or the answer to a probe, is sent or given up.
Answered(c) ==
  /\ pc[c] \in {"refusing", "probing"}
  /\ Goes(c, "away")
  /\ UNCHANGED <<waiting, borrowers, conns>>

\* The endpoint's session takes a connection of the pool.
Connect(c) ==
  /\ pc[c] = "running" /\ c \notin conns
  /\ Cardinality(conns) < PoolSize
  /\ conns' = conns \cup {c}
  /\ UNCHANGED <<pc, waiting, borrowers>>

\* A commit or rollback of the endpoint gives the connection back until the next query.
EndTransaction(c) ==
  /\ pc[c] = "running" /\ c \in conns
  /\ conns' = conns \ {c}
  /\ UNCHANGED <<pc, waiting, borrowers>>

\* The endpoint has answered, or failed, or was cancelled; get_db has still to close.
EarlyRelease(c) ==                                           \* mutant
  pc[c] = "running" /\ HandOver(c, "closing") /\ UNCHANGED <<waiting, conns>>
Finish(c) ==
  /\ pc[c] = "running"
  /\ Goes(c, "closing")
  /\ UNCHANGED <<waiting, borrowers, conns>>

Teardown(c) ==
  /\ pc[c] = "closing"
  /\ conns' = conns \ {c}
  /\ Goes(c, "closed")
  /\ UNCHANGED <<waiting, borrowers>>

KeepToken(c) ==                                              \* mutant
  pc[c] = "closed" /\ Goes(c, "away") /\ UNCHANGED <<waiting, borrowers, conns>>
Release(c) ==
  /\ pc[c] = "closed"
  /\ HandOver(c, "away")
  /\ UNCHANGED <<waiting, conns>>

\* A job of the scheduler opens or closes one of its sessions.
JobConnects(j) ==
  /\ j \notin conns /\ Cardinality(conns) < PoolSize
  /\ conns' = conns \cup {j}
  /\ UNCHANGED <<pc, waiting, borrowers>>
JobCloses(j) ==
  /\ j \in conns
  /\ conns' = conns \ {j}
  /\ UNCHANGED <<pc, waiting, borrowers>>

Next ==
  \/ \E c \in Clients :
       \/ Probe(c) \/ Refuse(c) \/ Join(c) \/ Enter(c) \/ TimeOut(c) \/ Disconnect(c)
       \/ AnsweredLate(c) \/ Answered(c) \/ Connect(c)
       \/ EndTransaction(c) \/ Finish(c) \/ Teardown(c) \/ Release(c)
  \/ \E j \in Jobs : JobConnects(j) \/ JobCloses(j)

Spec == Init /\ [][Next]_vars

\* The event loop resumes what can go on and fires its timers.  Nothing is assumed of
\* the endpoints: one may wait for a lock for ever.
Fairness == \A c \in Clients : WF_vars(Enter(c)) /\ WF_vars(TimeOut(c))

FairSpec == Spec /\ Fairness

----------------------------------------------------------------------------
(* Properties                                                              *)

\* The middleware's state: places, a counter that never goes below zero, holders.
TypeOK ==
  /\ pc \in [Clients -> Places]
  /\ waiting \in Nat
  /\ borrowers \in SUBSET Clients
  /\ conns \in SUBSET (Clients \cup Jobs)

\* The counter is the number of requests in acquire or still answering their timeout,
\* whichever way the others left (token, answer, cancellation), and never more than
\* max_waiting.
WaitingCounted ==
  /\ waiting = Cardinality(At({"queued", "granted", "late"}))
  /\ waiting <= MaxWaiting

\* While somebody waits, max_inflight requests hold a token and each of them is at work
\* or about to start: no token is lost with a failed, cancelled or timed-out request.
NoTokenLost ==
  At({"queued"}) # {} =>
    /\ borrowers = AtWork \cup At({"granted"})
    /\ Cardinality(borrowers) = MaxInflight

\* The counter never goes below zero, and the places in line and the tokens are both
\* exact, so neither leaks away with the requests that fail.
PlacesCounted == TypeOK /\ WaitingCounted /\ NoTokenLost

\* An admitted request that needs a connection finds one: no worker thread ever waits
\* in the pool, because a token is kept until the session is closed.
PoolSuffices ==
  (\E c \in At({"running"}) : c \notin conns) => Cardinality(conns) < PoolSize

\* Nobody waits for ever for a token, even when no endpoint ever answers.
WaitingEnds == \A c \in Clients : pc[c] = "queued" ~> pc[c] # "queued"
============================================================================
