------------------------- MODULE AgentActionsProofs -------------------------
(***************************************************************************)
(* The approval lifecycle for any number of proposals, sessions, target    *)
(* states and resets, and the chats that make the proposals, for any       *)
(* number of turns, of rounds and of calls.                                *)
(***************************************************************************)
EXTENDS AgentChat, FiniteSetTheorems, TLAPS

CanRun == {"claimed", "checked"}

\* The next claim of a proposal that waits for its decision, or has still to be made.
Ticket(a) == IF status[a] \in {"none", "de_xuat"} THEN 1 ELSE 0

\* Runs, claims that may become runs and the ticket for the next claim share one
\* queueing, and one more for each reset.
Tickets ==
  \A a \in Actions : runs[a] + Cardinality(On(a, CanRun)) + Ticket(a) <= 1 + resets[a]

\* Until its first reset a proposal that was never approved has nobody at work on it.
Untouched ==
  \A a \in Actions : status[a] \in {"none", "de_xuat", "tu_choi"} /\ resets[a] = 0 =>
    runs[a] = 0 /\ On(a, Running) = {}

\* A session about to write "hoan_thanh" has seen the tool take effect.
Done ==
  \A a \in Actions : status[a] = "hoan_thanh" \/ On(a, {"ran"}) # {} => runs[a] > 0

IInv == TypeOK /\ Tickets /\ Untouched /\ Done /\ InFlightHasWorker

----------------------------------------------------------------------------
(* Sets of sessions                                                        *)

\* The sessions at work on a proposal are finitely many.
LEMMA OnFinite ==
  ASSUME NEW a, NEW places
  PROVE  IsFiniteSet(On(a, places)) /\ Cardinality(On(a, places)) \in Nat
<1>1. On(a, places) \in SUBSET Sessions
  BY DEF On
<1> QED
  BY <1>1, Finite, FS_Subset, FS_CardinalityType

\* What a session's move does to the sessions on each proposal.
LEMMA Moved ==
  ASSUME TypeOK, NEW s \in Sessions, NEW place, NEW b, Does(s, place, b),
         NEW a, NEW places
  PROVE  On(a, places)' = IF place \in places /\ b = a
                            THEN On(a, places) \cup {s} ELSE On(a, places) \ {s}
BY DEF Does, On, TypeOK

\* A claim adds one session at most; any other move adds none.
LEMMA Claims ==
  ASSUME TypeOK, NEW s \in Sessions, NEW place, NEW b, Does(s, place, b), NEW a
  PROVE  /\ Cardinality(On(a, CanRun)') \in Nat
         /\ Cardinality(On(a, CanRun)') <= Cardinality(On(a, CanRun)) + 1
         /\ (place \notin CanRun \/ b # a \/ s \in On(a, CanRun))
              => Cardinality(On(a, CanRun)') <= Cardinality(On(a, CanRun))
         /\ place \notin CanRun /\ s \in On(a, CanRun)
              => Cardinality(On(a, CanRun)') = Cardinality(On(a, CanRun)) - 1
<1> DEFINE On0 == On(a, CanRun)
<1>1. IsFiniteSet(On0) /\ Cardinality(On0) \in Nat
  BY OnFinite
<1>2. /\ IsFiniteSet(On0 \cup {s}) /\ IsFiniteSet(On0 \ {s})
      /\ Cardinality(On0 \cup {s}) = IF s \in On0 THEN Cardinality(On0) ELSE Cardinality(On0) + 1
      /\ Cardinality(On0 \ {s}) = IF s \in On0 THEN Cardinality(On0) - 1 ELSE Cardinality(On0)
  BY <1>1, FS_AddElement, FS_RemoveElement
<1>3. Cardinality(On0 \cup {s}) \in Nat /\ Cardinality(On0 \ {s}) \in Nat
  BY <1>2, FS_CardinalityType
<1>4. On(a, CanRun)' = IF place \in CanRun /\ b = a THEN On0 \cup {s} ELSE On0 \ {s}
  BY Moved
<1> HIDE DEF On0
<1>5. \/ place \in CanRun /\ b = a /\ On(a, CanRun)' = On0 \cup {s}
      \/ ~(place \in CanRun /\ b = a) /\ On(a, CanRun)' = On0 \ {s}
  BY <1>4
<1>6. Cardinality(On(a, CanRun)') \in Nat
  BY <1>3, <1>5
<1>7. Cardinality(On(a, CanRun)') <= Cardinality(On0) + 1
  <2>1. CASE On(a, CanRun)' = On0 \cup {s}
    BY <1>1, <1>2, <2>1
  <2>2. CASE On(a, CanRun)' = On0 \ {s}
    BY <1>1, <1>2, <2>2
  <2> QED
    BY <1>5, <2>1, <2>2
<1>8. (place \notin CanRun \/ b # a \/ s \in On0)
        => Cardinality(On(a, CanRun)') <= Cardinality(On0)
  BY <1>1, <1>2, <1>5
<1>9. place \notin CanRun /\ s \in On0
        => Cardinality(On(a, CanRun)') = Cardinality(On0) - 1
  BY <1>1, <1>2, <1>5
<1> QED
  BY <1>6, <1>7, <1>8, <1>9 DEF On0

----------------------------------------------------------------------------
(* Types                                                                   *)

\* Every step leaves rows, sessions and histories of the right kind.
LEMMA TypesKept == TypeOK /\ [Next]_vars => TypeOK'
<1> SUFFICES ASSUME TypeOK, [Next]_vars PROVE TypeOK'
  OBVIOUS
<1> USE DEF TypeOK, row, work, history, Statuses, Places, Running, Does, Ends, On
<1>1. ASSUME OtherChange PROVE TypeOK'
  BY <1>1 DEF OtherChange
<1>2. ASSUME NEW a \in Actions, Propose(a) PROVE TypeOK'
  BY <1>2 DEF Propose
<1>3. ASSUME NEW a \in Actions, Reject(a) \/ Age(a) PROVE TypeOK'
  BY <1>3 DEF Reject, Age
<1>4. ASSUME NEW s \in Sessions, NEW a \in Actions, Approve(s, a) \/ Revalidate(s, a) PROVE TypeOK'
  BY <1>4 DEF Approve, Revalidate
<1>5. ASSUME NEW s \in Sessions, NEW a \in Actions, Run(s, a) PROVE TypeOK'
  BY <1>5 DEF Run
<1>6. ASSUME NEW s \in Sessions, NEW a \in Actions, Refused(s, a) \/ Finish(s, a) PROVE TypeOK'
  BY <1>6 DEF Refused, Finish
<1>7. ASSUME NEW s \in Sessions, NEW a \in Actions, Crash(s, a) \/ BeginReset(s, a) PROVE TypeOK'
  BY <1>7 DEF Crash, BeginReset
<1>8. ASSUME NEW s \in Sessions, NEW a \in Actions, EndReset(s, a) PROVE TypeOK'
  BY <1>8 DEF EndReset
<1>9. CASE UNCHANGED vars
  BY <1>9 DEF vars
<1> QED
  BY <1>1, <1>2, <1>3, <1>4, <1>5, <1>6, <1>7, <1>8, <1>9 DEF Next

----------------------------------------------------------------------------
(* The four parts                                                          *)

\* No step lets a proposal run more often than it was in the queue.
LEMMA TicketsKept == TypeOK /\ Tickets /\ [Next]_vars => Tickets'
<1> SUFFICES ASSUME TypeOK, Tickets, [Next]_vars, NEW b \in Actions
             PROVE  (runs[b] + Cardinality(On(b, CanRun)) + Ticket(b) <= 1 + resets[b])'
  BY DEF Tickets
<1> DEFINE n == Cardinality(On(b, CanRun))
<1>1. /\ n \in Nat /\ runs[b] \in Nat /\ resets[b] \in Nat
      /\ runs[b] + n + Ticket(b) <= 1 + resets[b]
  BY OnFinite DEF Tickets, TypeOK
<1>2. ASSUME UNCHANGED <<work, runs, resets>>, Ticket(b)' \in {0, Ticket(b)}
      PROVE  (runs[b] + Cardinality(On(b, CanRun)) + Ticket(b) <= 1 + resets[b])'
  <2>1. On(b, CanRun)' = On(b, CanRun)
    BY <1>2 DEF On, work
  <2>2. Ticket(b) \in {0, 1}
    BY DEF Ticket
  <2> QED
    BY <1>1, <1>2, <2>1, <2>2
<1>3. ASSUME NEW s \in Sessions, NEW a \in Actions, Approve(s, a)
      PROVE  (runs[b] + Cardinality(On(b, CanRun)) + Ticket(b) <= 1 + resets[b])'
  <2>1. Does(s, "claimed", a) /\ UNCHANGED <<runs, resets>>
    BY <1>3 DEF Approve, history
  <2>2. a = b => Ticket(b) = 1 /\ Ticket(b)' = 0
    BY <1>3 DEF Approve, Claimable, Ticket, TypeOK
  <2>3. a # b => Ticket(b)' = Ticket(b)
    BY <1>3 DEF Approve, Ticket, TypeOK
  <2>4. /\ Cardinality(On(b, CanRun)') \in Nat /\ Cardinality(On(b, CanRun)') <= n + 1
        /\ a # b => Cardinality(On(b, CanRun)') <= n
    BY <2>1, Claims
  <2>5. Ticket(b) \in {0, 1}
    BY DEF Ticket
  <2> QED
    BY <1>1, <2>1, <2>2, <2>3, <2>4, <2>5
<1>4. ASSUME NEW s \in Sessions, NEW a \in Actions,
             Revalidate(s, a) \/ Refused(s, a) \/ Crash(s, a) \/ BeginReset(s, a)
      PROVE  (runs[b] + Cardinality(On(b, CanRun)) + Ticket(b) <= 1 + resets[b])'
  <2>1. UNCHANGED <<runs, resets, status>>
    BY <1>4 DEF Revalidate, Refused, Crash, BeginReset, history, row
  <2>2. PICK place \in Places, c \in Actions \cup {None} :
          Does(s, place, c) /\ (place \notin CanRun \/ (c = a /\ s \in On(a, CanRun)))
    <3>1. CASE Revalidate(s, a)
      BY <3>1 DEF Revalidate, On, CanRun, Places, Running
    <3>2. CASE Refused(s, a) \/ BeginReset(s, a)
      BY <3>2 DEF Refused, BeginReset, CanRun, Places, Running
    <3>3. CASE Crash(s, a)
      BY <3>3 DEF Crash, Ends, CanRun, Places, Running
    <3> QED
      BY <1>4, <3>1, <3>2, <3>3
  <2>3. Cardinality(On(b, CanRun)') \in Nat /\ Cardinality(On(b, CanRun)') <= n
    <3>1. place \notin CanRun \/ c # b \/ s \in On(b, CanRun)
      BY <2>2
    <3> QED
      BY <2>2, <3>1, Claims
  <2>4. Ticket(b)' = Ticket(b) /\ Ticket(b) \in {0, 1}
    BY <2>1 DEF Ticket
  <2> QED
    BY <1>1, <2>1, <2>3, <2>4
<1>5. ASSUME NEW s \in Sessions, NEW a \in Actions, Run(s, a)
      PROVE  (runs[b] + Cardinality(On(b, CanRun)) + Ticket(b) <= 1 + resets[b])'
  <2>1. PICK end \in {"ran", "failed"} : Does(s, end, a)
    BY <1>5 DEF Run
  <2>2. s \in On(a, CanRun) /\ end \notin CanRun /\ UNCHANGED <<status, resets>>
        /\ runs' = [runs EXCEPT ![a] = @ + 1]
    BY <1>5, <2>1 DEF Run, On, CanRun, row
  <2>3. /\ Cardinality(On(b, CanRun)') \in Nat /\ Cardinality(On(b, CanRun)') <= n
        /\ s \in On(b, CanRun) => Cardinality(On(b, CanRun)') = n - 1
    BY <2>1, <2>2, Claims
  <2>4. Ticket(b)' = Ticket(b) /\ Ticket(b) \in {0, 1}
    BY <2>2 DEF Ticket
  <2>5. CASE a = b
    BY <1>1, <2>2, <2>3, <2>4, <2>5 DEF TypeOK
  <2>6. CASE a # b
    BY <1>1, <2>2, <2>3, <2>4, <2>6 DEF TypeOK
  <2> QED
    BY <2>5, <2>6
<1>6. ASSUME NEW s \in Sessions, NEW a \in Actions, Finish(s, a)
      PROVE  (runs[b] + Cardinality(On(b, CanRun)) + Ticket(b) <= 1 + resets[b])'
  <2>1. Does(s, "idle", None) /\ UNCHANGED <<runs, resets>>
    BY <1>6 DEF Finish, Ends, history
  <2>2. Cardinality(On(b, CanRun)') \in Nat /\ Cardinality(On(b, CanRun)') <= n
    BY <2>1, Claims DEF CanRun
  <2>3. Ticket(b)' \in {0, Ticket(b)} /\ Ticket(b) \in {0, 1}
    BY <1>6 DEF Finish, Ticket, TypeOK
  <2> QED
    BY <1>1, <2>1, <2>2, <2>3
<1>7. ASSUME NEW s \in Sessions, NEW a \in Actions, EndReset(s, a)
      PROVE  (runs[b] + Cardinality(On(b, CanRun)) + Ticket(b) <= 1 + resets[b])'
  <2>1. /\ Does(s, "idle", None) /\ UNCHANGED runs
        /\ resets' = [resets EXCEPT ![a] = @ + 1]
        /\ a # b => Ticket(b)' = Ticket(b)
    BY <1>7 DEF EndReset, Ends, Ticket, TypeOK
  <2>2. Cardinality(On(b, CanRun)') \in Nat /\ Cardinality(On(b, CanRun)') <= n
    BY <2>1, Claims DEF CanRun
  <2>3. Ticket(b)' \in {0, 1} /\ Ticket(b) \in {0, 1}
    BY DEF Ticket
  <2>4. CASE a = b
    BY <1>1, <2>1, <2>2, <2>3, <2>4 DEF TypeOK
  <2>5. CASE a # b
    BY <1>1, <2>1, <2>2, <2>3, <2>5 DEF TypeOK
  <2> QED
    BY <2>4, <2>5
<1>8. CASE OtherChange \/ UNCHANGED vars
  BY <1>2, <1>8 DEF OtherChange, vars, row, history, Ticket
<1>9. ASSUME NEW a \in Actions, Propose(a) PROVE UNCHANGED <<work, runs, resets>> /\ Ticket(b)' \in {0, Ticket(b)}
  BY <1>9 DEF Propose, Ticket, TypeOK, history
<1>10. ASSUME NEW a \in Actions, Reject(a) PROVE UNCHANGED <<work, runs, resets>> /\ Ticket(b)' \in {0, Ticket(b)}
  BY <1>10 DEF Reject, Ticket, TypeOK, history
<1>11. ASSUME NEW a \in Actions, Age(a) PROVE UNCHANGED <<work, runs, resets>> /\ Ticket(b)' \in {0, Ticket(b)}
  BY <1>11 DEF Age, Ticket, history
<1> QED
  BY <1>2, <1>3, <1>4, <1>5, <1>6, <1>7, <1>8, <1>9, <1>10, <1>11 DEF Next

\* What never claimed a proposal leaves it untouched, and only a reset lets it be
\* claimed again.
LEMMA UntouchedKept == TypeOK /\ Untouched /\ [Next]_vars => Untouched'
<1> SUFFICES ASSUME TypeOK, Untouched, [Next]_vars, NEW b \in Actions,
                    status'[b] \in {"none", "de_xuat", "tu_choi"}, resets'[b] = 0
             PROVE  runs'[b] = 0 /\ On(b, Running)' = {}
  BY DEF Untouched
<1> DEFINE Rests == /\ status[b] \in {"none", "de_xuat", "tu_choi"} /\ resets[b] = 0
                    /\ UNCHANGED runs /\ On(b, Running)' \subseteq On(b, Running)
<1>1. Rests => runs'[b] = 0 /\ On(b, Running)' = {}
  BY DEF Untouched
<1>2. CASE OtherChange \/ UNCHANGED vars
  BY <1>1, <1>2 DEF OtherChange, vars, row, work, history, On
<1>3. ASSUME NEW a \in Actions, Propose(a) \/ Reject(a) \/ Age(a) PROVE Rests
  BY <1>3 DEF Propose, Reject, Age, Claimable, work, history, On, TypeOK
<1>4. ASSUME NEW s \in Sessions, NEW a \in Actions, Approve(s, a) PROVE Rests
  <2>1. a # b
    BY <1>4 DEF Approve, TypeOK
  <2> QED
    BY <1>4, <2>1 DEF Approve, Does, On, TypeOK, history
<1>5. ASSUME NEW s \in Sessions, NEW a \in Actions, Revalidate(s, a) \/ Refused(s, a)
      PROVE  Rests
  BY <1>5 DEF Revalidate, Refused, Does, On, TypeOK, row, history, Running
<1>6. ASSUME NEW s \in Sessions, NEW a \in Actions, Run(s, a)
      PROVE  runs'[b] = 0 /\ On(b, Running)' = {}
  <2>1. s \in On(a, Running) /\ status' = status /\ resets' = resets
    BY <1>6 DEF Run, On, Running, row
  <2>2. a # b
    BY <2>1 DEF Untouched
  <2> QED
    BY <1>6, <2>1, <2>2 DEF Run, Does, On, TypeOK, Untouched
<1>7. ASSUME NEW s \in Sessions, NEW a \in Actions, Finish(s, a) PROVE Rests
  <2>1. a # b
    BY <1>7 DEF Finish, TypeOK
  <2> QED
    BY <1>7, <2>1 DEF Finish, Ends, Does, On, TypeOK, history, Running
<1>8. ASSUME NEW s \in Sessions, NEW a \in Actions, Crash(s, a) \/ BeginReset(s, a)
      PROVE  Rests
  BY <1>8 DEF Crash, BeginReset, Ends, Does, On, TypeOK, row, history, Running
<1>9. ASSUME NEW s \in Sessions, NEW a \in Actions, EndReset(s, a) PROVE Rests
  <2>1. a # b
    BY <1>9 DEF EndReset, TypeOK
  <2> QED
    BY <1>9, <2>1 DEF EndReset, Ends, Does, On, TypeOK, Running
<1> HIDE DEF Rests
<1> QED
  BY <1>1, <1>2, <1>3, <1>4, <1>5, <1>6, <1>7, <1>8, <1>9 DEF Next

\* "hoan_thanh" is written by a session that saw the tool take effect, and by no other.
LEMMA DoneKept == TypeOK /\ Done /\ [Next]_vars => Done'
<1> SUFFICES ASSUME TypeOK, Done, [Next]_vars, NEW b \in Actions,
                    status'[b] = "hoan_thanh" \/ On(b, {"ran"})' # {}
             PROVE  runs'[b] > 0
  BY DEF Done
<1> DEFINE Before == /\ status[b] = "hoan_thanh" \/ On(b, {"ran"}) # {}
                     /\ UNCHANGED runs
<1>1. Before => runs'[b] > 0
  BY DEF Done
<1>2. CASE OtherChange \/ UNCHANGED vars
  BY <1>1, <1>2 DEF OtherChange, vars, row, work, history, On
<1>3. ASSUME NEW a \in Actions, Propose(a) \/ Reject(a) \/ Age(a) PROVE Before
  BY <1>3 DEF Propose, Reject, Age, work, history, On, TypeOK
<1>4. ASSUME NEW s \in Sessions, NEW a \in Actions, Approve(s, a) PROVE Before
  BY <1>4 DEF Approve, Does, On, TypeOK, history
<1>5. ASSUME NEW s \in Sessions, NEW a \in Actions, Revalidate(s, a) \/ Refused(s, a)
      PROVE  Before
  BY <1>5 DEF Revalidate, Refused, Does, On, TypeOK, row, history
<1>6. ASSUME NEW s \in Sessions, NEW a \in Actions, Run(s, a) PROVE runs'[b] > 0
  <2>1. CASE a = b
    BY <1>6, <2>1 DEF Run, TypeOK
  <2>2. CASE a # b
    BY <1>6, <2>2 DEF Run, Does, On, TypeOK, Done, row
  <2> QED
    BY <2>1, <2>2
<1>7. ASSUME NEW s \in Sessions, NEW a \in Actions, Finish(s, a) PROVE Before
  BY <1>7 DEF Finish, Ends, Does, On, TypeOK, history
<1>8. ASSUME NEW s \in Sessions, NEW a \in Actions, Crash(s, a) \/ BeginReset(s, a)
      PROVE  Before
  BY <1>8 DEF Crash, BeginReset, Ends, Does, On, TypeOK, row, history
<1>9. ASSUME NEW s \in Sessions, NEW a \in Actions, EndReset(s, a) PROVE Before
  BY <1>9 DEF EndReset, Ends, Does, On, TypeOK
<1> HIDE DEF Before
<1> QED
  BY <1>1, <1>2, <1>3, <1>4, <1>5, <1>6, <1>7, <1>8, <1>9 DEF Next

\* A session leaves a proposal in flight only by dying.
LEMMA InFlightKept == TypeOK /\ InFlightHasWorker /\ [Next]_vars => InFlightHasWorker'
<1> SUFFICES ASSUME TypeOK, InFlightHasWorker, [Next]_vars, NEW b \in Actions,
                    status'[b] = "dang_xu_ly"
             PROVE  On(b, Running)' # {} \/ lost'[b]
  BY DEF InFlightHasWorker
<1> DEFINE Stays == /\ status[b] = "dang_xu_ly" /\ UNCHANGED lost
                    /\ On(b, Running) \subseteq On(b, Running)'
<1>1. Stays => On(b, Running)' # {} \/ lost'[b]
  BY DEF InFlightHasWorker
<1>2. CASE OtherChange \/ UNCHANGED vars
  BY <1>1, <1>2 DEF OtherChange, vars, row, work, history, On
<1>3. ASSUME NEW a \in Actions, Propose(a) \/ Reject(a) \/ Age(a) PROVE Stays
  BY <1>3 DEF Propose, Reject, Age, work, history, On, TypeOK
<1>4. ASSUME NEW s \in Sessions, NEW a \in Actions, Approve(s, a)
      PROVE  On(b, Running)' # {} \/ lost'[b]
  <2>1. CASE a = b
    <3>1. s \in On(b, Running)'
      BY <1>4, <2>1 DEF Approve, Does, On, TypeOK, Running
    <3> QED
      BY <3>1
  <2>2. CASE a # b
    <3>1. Stays
      BY <1>4, <2>2 DEF Approve, Does, On, TypeOK, history, Running
    <3> QED
      BY <1>1, <3>1
  <2> QED
    BY <2>1, <2>2
<1>5. ASSUME NEW s \in Sessions, NEW a \in Actions,
             Revalidate(s, a) \/ Refused(s, a) \/ Run(s, a) \/ BeginReset(s, a)
      PROVE  Stays
  BY <1>5 DEF Revalidate, Refused, Run, BeginReset, Does, On, TypeOK, row, history, Running
<1>6. ASSUME NEW s \in Sessions, NEW a \in Actions, Finish(s, a) \/ EndReset(s, a)
      PROVE  Stays
  <2>1. a # b
    BY <1>6 DEF Finish, EndReset, TypeOK
  <2> QED
    BY <1>6, <2>1 DEF Finish, EndReset, Ends, Does, On, TypeOK, history
<1>7. ASSUME NEW s \in Sessions, NEW a \in Actions, Crash(s, a)
      PROVE  On(b, Running)' # {} \/ lost'[b]
  <2>1. CASE a = b
    BY <1>7, <2>1 DEF Crash, TypeOK
  <2>2. CASE a # b
    <3>1. status' = status /\ lost'[b] = lost[b] /\ On(b, Running) \subseteq On(b, Running)'
      BY <1>7, <2>2 DEF Crash, Ends, Does, On, TypeOK, row
    <3> QED
      BY <3>1 DEF InFlightHasWorker
  <2> QED
    BY <2>1, <2>2
<1> HIDE DEF Stays
<1> QED
  BY <1>1, <1>2, <1>3, <1>4, <1>5, <1>6, <1>7 DEF Next

----------------------------------------------------------------------------
(* The theorems                                                            *)

\* At the start nothing is proposed and nobody is at work.
LEMMA Initially == Init => IInv
<1> SUFFICES ASSUME Init PROVE IInv
  OBVIOUS
<1>1. TypeOK
  BY DEF Init, TypeOK, Statuses, Places
<1>2. \A a : On(a, CanRun) = {} /\ On(a, Running) = {} /\ On(a, {"ran"}) = {}
  BY DEF Init, On, CanRun, Running
<1>3. Cardinality({}) = 0
  BY FS_EmptySet
<1>4. Tickets
  BY <1>2, <1>3, SMTT(30) DEF Tickets, Ticket, Init
<1>5. Untouched /\ Done /\ InFlightHasWorker
  BY <1>2 DEF Untouched, Done, InFlightHasWorker, Init
<1> QED
  BY <1>1, <1>4, <1>5 DEF IInv

\* The four parts hold together, always.
LEMMA Always == Spec => []IInv
<1>1. IInv /\ [Next]_vars => IInv'
  BY TypesKept, TicketsKept, UntouchedKept, DoneKept, InFlightKept DEF IInv
<1> QED
  BY <1>1, Initially, PTL DEF Spec

\* Rows, sessions and histories always have their types.
THEOREM TypeCorrect == Spec => []TypeOK
<1>1. IInv => TypeOK
  BY DEF IInv
<1> QED
  BY <1>1, Always, PTL

\* A proposal runs at most once for each time it was in the queue.
THEOREM RunsAreQueued == Spec => []OneRunPerQueueing
<1>1. IInv => OneRunPerQueueing
  <2> SUFFICES ASSUME IInv, NEW a \in Actions
               PROVE  runs[a] + Cardinality(On(a, CanRun)) <= 1 + resets[a]
    BY DEF OneRunPerQueueing, CanRun
  <2>1. Cardinality(On(a, CanRun)) \in Nat /\ Ticket(a) \in {0, 1}
    BY OnFinite DEF Ticket
  <2> QED
    BY <2>1 DEF IInv, Tickets, TypeOK
<1> QED
  BY <1>1, Always, PTL

\* A rejection that nobody reset holds: the tool has not run and nobody is at work.
THEOREM RejectionsHold == Spec => []RejectedNeverRuns
<1>1. IInv => RejectedNeverRuns
  BY DEF IInv, Untouched, RejectedNeverRuns
<1> QED
  BY <1>1, Always, PTL

\* What the log calls completed has taken effect.
THEOREM CompletedIsDone == Spec => []CompletedHasRun
<1>1. IInv => CompletedHasRun
  BY DEF IInv, Done, CompletedHasRun
<1> QED
  BY <1>1, Always, PTL

\* Only a dead session leaves a proposal in flight with nobody at work on it.
THEOREM OrphansAreDead == Spec => []InFlightHasWorker
<1>1. IInv => InFlightHasWorker
  BY DEF IInv
<1> QED
  BY <1>1, Always, PTL

\* What was decided about a proposal holds: one run for each time it was queued, none
\* after a rejection.
THEOREM DecisionsAlwaysHold == Spec => []DecisionsHold
BY RunsAreQueued, RejectionsHold, PTL DEF DecisionsHold

\* The audit log tells the truth about what has run and who is at work.
THEOREM LogIsAlwaysTrue == Spec => []LogIsTrue
BY CompletedIsDone, OrphansAreDead, PTL DEF LogIsTrue

----------------------------------------------------------------------------
(* The chat                                                                *)

\* A call that was asked for has its answer in its place, or is still to do and will get
\* the place that is its own.
Answers(m, t) ==
  \A i \in DOMAIN m : m[i].role = "assistant" =>
    \A k \in DOMAIN m[i].calls :
      LET p == i + k - Len(m) IN
        IF p <= 0 THEN m[i + k] = [role |-> "tool", id |-> m[i].calls[k]]
                  ELSE p \in DOMAIN t /\ t[p].id = m[i].calls[k]
Answering(c) == Answers(messages[c], todo[c])

\* The answer of the call at hand takes the place that is its own.
LEMMA OneAnswer ==
  ASSUME NEW m \in Seq(Said), NEW t \in Seq(Calls), t # <<>>, Answers(m, t),
         NEW x \in Said, x = [role |-> "tool", id |-> t[1].id]
  PROVE  Answers(Append(m, x), Tail(t))
<1> SUFFICES ASSUME NEW i \in DOMAIN Append(m, x), Append(m, x)[i].role = "assistant",
                    NEW k \in DOMAIN Append(m, x)[i].calls
             PROVE  LET p == i + k - Len(Append(m, x))
                        id == Append(m, x)[i].calls[k]
                    IN  IF p <= 0 THEN Append(m, x)[i + k] = [role |-> "tool", id |-> id]
                                  ELSE p \in DOMAIN Tail(t) /\ Tail(t)[p].id = id
  BY DEF Answers
<1>1. i \in DOMAIN m /\ Append(m, x)[i] = m[i]
  OBVIOUS
<1>2. m[i] \in Said /\ m[i].calls \in Seq(Ids)
  <2>1. m[i] \in Said /\ m[i].role = "assistant"
    BY <1>1
  <2> QED
    BY <2>1 DEF Said
<1>3. k \in Nat /\ k > 0 /\ i \in Nat /\ i > 0 /\ Len(m) \in Nat /\ Len(Append(m, x)) = Len(m) + 1
  BY <1>1, <1>2
<1>4. PICK y : y = m[i].calls[k]
  OBVIOUS
<1>5. IF i + k - Len(m) <= 0 THEN m[i + k] = [role |-> "tool", id |-> y]
                          ELSE i + k - Len(m) \in DOMAIN t /\ t[i + k - Len(m)].id = y
  BY <1>1, <1>4 DEF Answers
<1>6. CASE i + k <= Len(m)
  BY <1>1, <1>3, <1>4, <1>5, <1>6
<1>7. CASE i + k = Len(m) + 1
  BY <1>1, <1>3, <1>4, <1>5, <1>7
<1>8. CASE i + k > Len(m) + 1
  <2>1. PICK p : p = i + k - Len(m) - 1
    OBVIOUS
  <2>2. p \in Nat /\ p > 0 /\ p + 1 \in DOMAIN t /\ t[p + 1].id = y
    BY <1>3, <1>5, <1>8, <2>1
  <2>3. p \in DOMAIN Tail(t) /\ Tail(t)[p] = t[p + 1]
    BY <2>2
  <2> QED
    BY <1>1, <1>3, <1>4, <1>8, <2>1, <2>2, <2>3
<1>9. i + k <= Len(m) \/ i + k = Len(m) + 1 \/ i + k > Len(m) + 1
  BY <1>3, SMTT(30)
<1> QED
  BY <1>6, <1>7, <1>8, <1>9

\* With nothing to do, the calls of the next answer are what there is to do.
LEMMA NewCalls ==
  ASSUME NEW m \in Seq(Said), Answers(m, <<>>), NEW n \in Nat, NEW ids \in Seq(Ids), DOMAIN ids = 1..n,
         NEW t \in Seq(Calls), DOMAIN t = 1..n, \A i \in 1..n : t[i].id = ids[i],
         NEW x \in Said, x = [role |-> "assistant", calls |-> ids]
  PROVE  Answers(Append(m, x), t)
<1> SUFFICES ASSUME NEW i \in DOMAIN Append(m, x), Append(m, x)[i].role = "assistant",
                    NEW k \in DOMAIN Append(m, x)[i].calls
             PROVE  LET p == i + k - Len(Append(m, x))
                        id == Append(m, x)[i].calls[k]
                    IN  IF p <= 0 THEN Append(m, x)[i + k] = [role |-> "tool", id |-> id]
                                  ELSE p \in DOMAIN t /\ t[p].id = id
  BY DEF Answers
<1>1. CASE i = Len(m) + 1
  <2>1. Append(m, x)[i] = x /\ x.calls = ids /\ Len(Append(m, x)) = i /\ i \in Nat
    BY <1>1
  <2> QED
    BY <2>1
<1>2. CASE i # Len(m) + 1
  <2>1. i \in DOMAIN m /\ Append(m, x)[i] = m[i]
    BY <1>2
  <2>2. m[i] \in Said /\ m[i].role = "assistant"
    BY <2>1
  <2>3. m[i].calls \in Seq(Ids)
    BY <2>2 DEF Said
  <2>4. k \in Nat /\ k > 0 /\ i \in Nat /\ i > 0 /\ Len(m) \in Nat /\ Len(Append(m, x)) = Len(m) + 1
    BY <2>1, <2>3
  <2>5. PICK e : e = <<>>
    OBVIOUS
  <2>6. IF i + k - Len(m) <= 0 THEN m[i + k] = [role |-> "tool", id |-> m[i].calls[k]]
                            ELSE i + k - Len(m) \in DOMAIN e
    BY <2>1, <2>5 DEF Answers
  <2>7. DOMAIN e = {}
    BY <2>5
  <2>8. i + k <= Len(m) /\ m[i + k] = [role |-> "tool", id |-> m[i].calls[k]]
    BY <2>4, <2>6, <2>7
  <2> QED
    BY <2>1, <2>4, <2>8
<1> QED
  BY <1>1, <1>2

\* There are calls to do when the loop handles them and none when it asks, and until it is
\* given up it remembers all it proposed.
Looping(c) ==
  /\ phase[c] \in {"asking", "tools"} => Answering(c)
  /\ phase[c] = "asking" => todo[c] = <<>>
  /\ phase[c] = "tools" => todo[c] # <<>>
  /\ phase[c] = "free" => todo[c] = <<>>
  /\ phase[c] \notin {"fallback", "fell back", "dead"} => proposed[c] = made[c]
  /\ proposed[c] \subseteq made[c]
  /\ \A a \in made[c] : status[a] # "none"

ChatInv ==
  /\ ChatTypeOK
  /\ \A c \in Turns : Looping(c)
  /\ \A c, d \in Turns : c # d => made[c] \cap made[d] = {}

\* A proposal, once made, stays in the log.
LEMMA ProposalsStay ==
  ASSUME TypeOK, [Next]_vars, NEW a, status[a] # "none"
  PROVE  status'[a] # "none"
<1>1. ASSUME NEW b \in Actions, NEW v \in Statuses \ {"none"}, status' = [status EXCEPT ![b] = v]
      PROVE  status'[a] # "none"
  BY <1>1 DEF TypeOK
<1>2. ASSUME status' = status PROVE status'[a] # "none"
  BY <1>2
<1>3. ASSUME NEW b \in Actions, Propose(b) \/ Reject(b) PROVE status'[a] # "none"
  BY <1>1, <1>3 DEF Propose, Reject, Statuses
<1>4. ASSUME NEW s \in Sessions, NEW b \in Actions, Approve(s, b) \/ Finish(s, b) \/ EndReset(s, b)
      PROVE  status'[a] # "none"
  BY <1>1, <1>4 DEF Approve, Finish, EndReset, Statuses
<1> QED
  BY <1>2, <1>3, <1>4
     DEF Next, OtherChange, Age, Revalidate, Run, Refused, Crash, BeginReset, row, vars

\* One turn's step: the others' places stay as they were.
LEMMA OneTurn ==
  ASSUME ChatInv, ChatTypeOK', [Next]_vars, NEW c \in Turns,
         \A d \in Turns : d # c => /\ phase'[d] = phase[d] /\ messages'[d] = messages[d]
                                   /\ todo'[d] = todo[d] /\ proposed'[d] = proposed[d]
                                   /\ made'[d] = made[d],
         Looping(c)', \A d \in Turns : d # c => made'[c] \cap made[d] = {}
  PROVE  ChatInv'
<1>1. TypeOK
  BY DEF ChatInv, ChatTypeOK
<1>2. ASSUME NEW d \in Turns, d # c PROVE Looping(d)'
  <2>1. Looping(d)
    BY DEF ChatInv
  <2>2. Answering(d)' <=> Answering(d)
    BY <1>2 DEF Answering
  <2>3. \A a \in made[d] : status'[a] # "none"
    BY <1>1, <2>1, ProposalsStay DEF Looping
  <2> QED
    BY <1>2, <2>1, <2>2, <2>3 DEF Looping
<1>3. \A d, e \in Turns : d # e => made'[d] \cap made'[e] = {}
  BY DEF ChatInv
<1> QED
  BY <1>2, <1>3 DEF ChatInv

LEMMA Quiet ==
  ASSUME ChatInv, ChatTypeOK', [Next]_vars, UNCHANGED chat
  PROVE  ChatInv'
<1>0. TypeOK /\ phase' = phase /\ messages' = messages /\ todo' = todo /\ proposed' = proposed /\ made' = made
  BY DEF chat, ChatInv, ChatTypeOK
<1>1. ASSUME NEW d \in Turns PROVE Looping(d)'
  <2>1. Looping(d)
    BY DEF ChatInv
  <2>2. Answering(d)' <=> Answering(d)
    BY <1>0 DEF Answering
  <2>3. \A a \in made[d] : status'[a] # "none"
    BY <1>0, <2>1, ProposalsStay DEF Looping
  <2> QED
    BY <1>0, <2>1, <2>2, <2>3 DEF Looping
<1> QED
  BY <1>0, <1>1 DEF ChatInv

LEMMA HandledAnswers ==
  ASSUME ChatInv, NEW c \in Turns, Handled(c)
  PROVE  /\ messages' \in [Turns -> Seq(Said)] /\ todo' \in [Turns -> Seq(Calls)]
         /\ phase' \in [Turns -> Phases]
         /\ \A d \in Turns : d # c => phase'[d] = phase[d] /\ messages'[d] = messages[d] /\ todo'[d] = todo[d]
         /\ Answering(c)' /\ phase'[c] \in {"asking", "tools"}
         /\ phase'[c] = "asking" <=> todo'[c] = <<>>
<1>1. PICK m, t : m = messages[c] /\ t = todo[c]
  OBVIOUS
<1>2. m \in Seq(Said) /\ t \in Seq(Calls) /\ t # <<>> /\ phase[c] = "tools" /\ Answers(m, t)
  BY <1>1 DEF ChatInv, ChatTypeOK, Looping, Handled, Answering
<1>3. PICK x : x = [role |-> "tool", id |-> t[1].id]
  OBVIOUS
<1>4. x \in Said
  <2>1. t[1] \in Calls
    BY <1>2
  <2> QED
    BY <1>3, <2>1 DEF Said, Calls
<1>5. /\ messages' = [messages EXCEPT ![c] = Append(m, x)] /\ todo' = [todo EXCEPT ![c] = Tail(t)]
      /\ phase' = [phase EXCEPT ![c] = IF Len(t) = 1 THEN "asking" ELSE "tools"]
  BY <1>1, <1>2, <1>3 DEF Handled, Goes
<1>6. Append(m, x) \in Seq(Said) /\ Tail(t) \in Seq(Calls)
  BY <1>2, <1>4
<1>e. Len(t) = 1 <=> Tail(t) = <<>>
  <2>1. Len(t) \in Nat /\ Len(t) # 0 /\ Len(Tail(t)) = Len(t) - 1
    BY <1>2
  <2>2. PICK u : u = Tail(t)
    OBVIOUS
  <2>3. u \in Seq(Calls)
    BY <1>6, <2>2
  <2>4. u = <<>> <=> Len(u) = 0
    BY <2>3
  <2> QED
    BY <2>1, <2>2, <2>4
<1>7. messages'[c] = Append(m, x) /\ todo'[c] = Tail(t) /\ phase'[c] = IF Len(t) = 1 THEN "asking" ELSE "tools"
  BY <1>5 DEF ChatInv, ChatTypeOK
<1>8. Answering(c)'
  BY <1>2, <1>3, <1>4, <1>7, OneAnswer DEF Answering
<1> QED
  BY <1>5, <1>6, <1>e, <1>7, <1>8 DEF ChatInv, ChatTypeOK, Phases

LEMMA AsksOpens ==
  ASSUME ChatInv, NEW c \in Turns, Asks(c)
  PROVE  ChatInv'
<1>0. PICK m, it : m = messages[c] /\ it = iteration[c]
  OBVIOUS
<1>1. PICK n \in 1..MaxCalls : \E kind \in [1..n -> Kinds] :
        /\ todo' = [todo EXCEPT ![c] = [i \in 1..n |-> [id |-> <<it, i>>, kind |-> kind[i]]]]
        /\ messages' = [messages EXCEPT ![c] =
                          Append(m, [role |-> "assistant", calls |-> [i \in 1..n |-> <<it, i>>]])]
  BY <1>0 DEF Asks
<1>k. PICK kind \in [1..n -> Kinds] :
        /\ todo' = [todo EXCEPT ![c] = [i \in 1..n |-> [id |-> <<it, i>>, kind |-> kind[i]]]]
        /\ messages' = [messages EXCEPT ![c] =
                          Append(m, [role |-> "assistant", calls |-> [i \in 1..n |-> <<it, i>>]])]
  BY <1>1
<1>2. PICK ids, t : ids = [i \in 1..n |-> <<it, i>>] /\ t = [i \in 1..n |-> [id |-> <<it, i>>, kind |-> kind[i]]]
  OBVIOUS
<1>3. n \in Nat /\ n > 0 /\ it \in 0..MaxIterations /\ it < MaxIterations /\ MaxIterations \in Nat /\ it \in Nat
  BY <1>0, <1>1, LoopBound DEF Asks, ChatInv, ChatTypeOK
<1>4. ids \in Seq(Ids) /\ DOMAIN ids = 1..n
  BY <1>2, <1>3 DEF Ids
<1>5. t \in Seq(Calls) /\ t # <<>> /\ DOMAIN t = 1..n /\ \A i \in 1..n : t[i].id = ids[i]
  <2>1. \A i \in 1..n : t[i] \in Calls /\ t[i].id = ids[i]
    BY <1>k, <1>2, <1>3 DEF Calls, Ids
  <2>2. t = [i \in 1..n |-> t[i]] /\ DOMAIN t = 1..n
    BY <1>2
  <2>3. t \in Seq(Calls)
    BY <1>3, <2>1, <2>2
  <2>4. 1 \in DOMAIN t
    BY <1>3, <2>2
  <2> QED
    BY <2>1, <2>2, <2>3, <2>4
<1>6. PICK x : x = [role |-> "assistant", calls |-> ids]
  OBVIOUS
<1>7. x \in Said
  BY <1>4, <1>6 DEF Said
<1>8. m \in Seq(Said) /\ phase[c] = "asking" /\ todo[c] = <<>> /\ Answers(m, <<>>)
  <2>1. messages[c] \in Seq(Said)
    BY DEF ChatInv, ChatTypeOK
  <2>2. phase[c] = "asking"
    BY DEF Asks
  <2>3. todo[c] = <<>> /\ Answering(c)
    BY <2>2 DEF ChatInv, Looping
  <2> QED
    BY <1>0, <2>1, <2>2, <2>3 DEF Answering
<1>b. Append(m, x) \in Seq(Said)
  BY <1>7, <1>8
<1>9. /\ messages' = [messages EXCEPT ![c] = Append(m, x)] /\ todo' = [todo EXCEPT ![c] = t]
      /\ phase' = [phase EXCEPT ![c] = "tools"] /\ iteration' = [iteration EXCEPT ![c] = it + 1]
      /\ UNCHANGED <<vars, proposed, made, view>>
  BY <1>0, <1>k, <1>2, <1>6 DEF Asks, Goes
<1>10. ChatTypeOK'
  <2>1. TypeOK'
    BY <1>9, TypesKept DEF ChatInv, ChatTypeOK
  <2>2. messages' \in [Turns -> Seq(Said)] /\ todo' \in [Turns -> Seq(Calls)]
    BY <1>5, <1>b, <1>9 DEF ChatInv, ChatTypeOK
  <2>3. iteration' \in [Turns -> 0..MaxIterations]
    <3>1. it + 1 \in 0..MaxIterations
      BY <1>3
    <3> QED
      BY <1>9, <3>1 DEF ChatInv, ChatTypeOK
  <2>4. phase' \in [Turns -> Phases]
    BY <1>9 DEF ChatInv, ChatTypeOK, Phases
  <2> QED
    BY <1>9, <2>1, <2>2, <2>3, <2>4 DEF ChatInv, ChatTypeOK
<1>11. messages'[c] = Append(m, x) /\ todo'[c] = t /\ phase'[c] = "tools"
  BY <1>9 DEF ChatInv, ChatTypeOK
<1>12. Answering(c)'
  BY <1>3, <1>4, <1>5, <1>6, <1>7, <1>8, <1>11, NewCalls DEF Answering
<1>13. Looping(c)'
  <2>1. Looping(c) /\ phase[c] = "asking"
    BY <1>8 DEF ChatInv
  <2>2. proposed' = proposed /\ made' = made /\ status' = status
    BY <1>9 DEF vars, row
  <2> QED
    BY <1>5, <1>11, <1>12, <2>1, <2>2 DEF Looping
<1>14. \A d \in Turns : d # c => /\ phase'[d] = phase[d] /\ messages'[d] = messages[d]
                                 /\ todo'[d] = todo[d] /\ proposed'[d] = proposed[d]
                                 /\ made'[d] = made[d]
  BY <1>9 DEF ChatInv, ChatTypeOK
<1> QED
  BY <1>9, <1>10, <1>13, <1>14, OneTurn DEF ChatInv

\* A call that is read or refused has its answer.
LEMMA ReadOrRefuseAnswers ==
  ASSUME ChatInv, NEW c \in Turns, ReadOrRefuse(c)
  PROVE  ChatInv'
<1>1. Handled(c) /\ UNCHANGED <<vars, proposed, made, iteration, view>>
  BY DEF ReadOrRefuse, Handled
<1>2. TypeOK' /\ status' = status /\ [Next]_vars
  BY <1>1, TypesKept DEF ChatInv, ChatTypeOK, vars, row
<1>3. ChatTypeOK'
  BY <1>1, <1>2, HandledAnswers DEF ChatInv, ChatTypeOK
<1>4. Looping(c)'
  <2>1. Looping(c) /\ phase[c] = "tools"
    BY <1>1 DEF ChatInv, Handled
  <2> QED
    BY <1>1, <1>2, <2>1, HandledAnswers DEF Looping
<1>5. \A d \in Turns : d # c => /\ phase'[d] = phase[d] /\ messages'[d] = messages[d]
                                /\ todo'[d] = todo[d] /\ proposed'[d] = proposed[d]
                                /\ made'[d] = made[d]
  BY <1>1, HandledAnswers
<1> QED
  BY <1>1, <1>2, <1>3, <1>4, <1>5, OneTurn DEF ChatInv

\* A change is answered as well, and the proposal it made was nobody's.
LEMMA ProposeCallAnswers ==
  ASSUME ChatInv, NEW c \in Turns, NEW a \in Actions, ProposeCall(c, a)
  PROVE  ChatInv'
<1>1. /\ Handled(c) /\ Propose(a) /\ UNCHANGED <<iteration, view>>
      /\ proposed' = [proposed EXCEPT ![c] = proposed[c] \cup {a}]
      /\ made' = [made EXCEPT ![c] = made[c] \cup {a}]
  BY DEF ProposeCall, Handled
<1>2. [Next]_vars /\ TypeOK
  BY <1>1 DEF Next, ChatInv, ChatTypeOK
<1>3. TypeOK'
  BY <1>2, TypesKept
<1>4. ChatTypeOK'
  BY <1>1, <1>3, HandledAnswers DEF ChatInv, ChatTypeOK
<1>5. status[a] = "none" /\ status'[a] # "none"
  BY <1>1, <1>2 DEF Propose, TypeOK
<1>6. proposed'[c] = proposed[c] \cup {a} /\ made'[c] = made[c] \cup {a}
  BY <1>1 DEF ChatInv, ChatTypeOK
<1>7. Looping(c) /\ phase[c] = "tools"
  BY <1>1 DEF ChatInv, Handled
<1>8. \A b \in made'[c] : status'[b] # "none"
  <2>1. \A b \in made[c] : status'[b] # "none"
    BY <1>2, <1>7, ProposalsStay DEF Looping
  <2> QED
    BY <1>5, <1>6, <2>1
<1>9. Looping(c)'
  <2>1. proposed'[c] = made'[c]
    BY <1>6, <1>7 DEF Looping
  <2> QED
    BY <1>1, <1>8, <2>1, HandledAnswers DEF Looping
<1>10. \A d \in Turns : d # c => made'[c] \cap made[d] = {}
  <2> SUFFICES ASSUME NEW d \in Turns, d # c PROVE made'[c] \cap made[d] = {}
    OBVIOUS
  <2>1. a \notin made[d]
    BY <1>5 DEF ChatInv, Looping
  <2> QED
    BY <1>6, <2>1 DEF ChatInv
<1>11. \A d \in Turns : d # c => /\ phase'[d] = phase[d] /\ messages'[d] = messages[d]
                                 /\ todo'[d] = todo[d] /\ proposed'[d] = proposed[d]
                                 /\ made'[d] = made[d]
  BY <1>1, HandledAnswers DEF ChatInv, ChatTypeOK
<1> QED
  BY <1>2, <1>4, <1>9, <1>10, <1>11, OneTurn

\* The two ways of a reply.
LEMMA TwoEnds ==
  ASSUME NEW end \in {<<"answered", "replied">>, <<"fallback", "fell back">>}
  PROVE  \/ end[1] = "answered" /\ end[2] = "replied"
         \/ end[1] = "fallback" /\ end[2] = "fell back"
<1>1. /\ <<"answered", "replied">>[1] = "answered" /\ <<"answered", "replied">>[2] = "replied"
      /\ <<"fallback", "fell back">>[1] = "fallback" /\ <<"fallback", "fell back">>[2] = "fell back"
  OBVIOUS
<1>2. CASE end = <<"answered", "replied">>
  BY <1>1, <1>2, Zenon
<1>3. CASE end = <<"fallback", "fell back">>
  BY <1>1, <1>3, Zenon
<1> QED
  BY <1>2, <1>3

\* A step that leaves the conversation of a turn, or begins it or gives it up.
LEMMA TurnGoes ==
  ASSUME ChatInv, NEW c \in Turns,
         Send(c) \/ Answered(c) \/ Limit(c) \/ Fails(c) \/ Reply(c) \/ Dies(c)
  PROVE  ChatInv'
<1>1. UNCHANGED <<vars, iteration, made>>
  BY DEF Send, Answered, Limit, Fails, Reply, Dies
<1>2. PICK place \in Phases : phase' = [phase EXCEPT ![c] = place]
  <2>1. ASSUME NEW place \in Phases, Goes(c, place)
        PROVE  \E x \in Phases : phase' = [phase EXCEPT ![c] = x]
    BY <2>1 DEF Goes
  <2>2. \/ \E place \in {"asking", "fallback", "answered", "dead"} : Goes(c, place)
        \/ \E end \in {<<"answered", "replied">>, <<"fallback", "fell back">>} : Goes(c, end[2])
    BY DEF Send, Answered, Limit, Fails, Reply, Dies
  <2>3. \E place \in {"asking", "fallback", "answered", "dead", "replied", "fell back"} : Goes(c, place)
    <3>1. ASSUME NEW end \in {<<"answered", "replied">>, <<"fallback", "fell back">>}, Goes(c, end[2])
          PROVE  Goes(c, "replied") \/ Goes(c, "fell back")
      <4>2. PICK place : place = end[2]
        OBVIOUS
      <4>3. place = "replied" \/ place = "fell back"
        BY <4>2, TwoEnds
      <4>4. Goes(c, place)
        BY <3>1, <4>2
      <4> QED
        BY <4>3, <4>4
    <3> QED
      BY <2>2, <3>1
  <2> QED
    BY <2>1, <2>3 DEF Phases
<1>3. TypeOK' /\ status' = status /\ made' = made /\ [Next]_vars
  BY <1>1, TypesKept DEF ChatInv, ChatTypeOK, vars, row
<1>4. PICK x : x = [role |-> "user"]
  OBVIOUS
<1>5. <<x>> \in Seq(Said)
  BY <1>4 DEF Said
<1>6. CASE Send(c)
  <2>1. /\ messages' = [messages EXCEPT ![c] = <<x>>] /\ view' = [view EXCEPT ![c] = "waiting"]
        /\ UNCHANGED <<iteration, todo, proposed, made>> /\ phase[c] = "free"
        /\ phase'[c] \in {"asking", "fallback"}
    BY <1>4, <1>6 DEF Send, Goes, ChatInv, ChatTypeOK
  <2>2. ChatTypeOK'
    BY <1>2, <1>3, <1>5, <2>1 DEF ChatInv, ChatTypeOK
  <2>3. Looping(c)'
    <3>1. Looping(c) /\ messages'[c] = <<x>>
      BY <2>1 DEF ChatInv, ChatTypeOK
    <3>2. PICK m, t : m = <<x>> /\ t = todo[c]
      OBVIOUS
    <3>3. Answers(m, t)
      <4>1. \A i \in DOMAIN m : m[i] = x
        BY <3>2
      <4> QED
        BY <1>4, <4>1 DEF Answers
    <3>4. Answering(c)'
      BY <2>1, <3>1, <3>2, <3>3 DEF Answering
    <3> QED
      BY <1>3, <2>1, <3>1, <3>4 DEF Looping
  <2>4. \A d \in Turns : d # c => phase'[d] = phase[d] /\ messages'[d] = messages[d]
    BY <1>2, <2>1 DEF ChatInv, ChatTypeOK
  <2> QED
    BY <1>3, <2>1, <2>2, <2>3, <2>4, OneTurn DEF ChatInv
<1>7. CASE Fails(c)
  <2>1. /\ proposed' = [proposed EXCEPT ![c] = {}] /\ todo' = [todo EXCEPT ![c] = <<>>]
        /\ UNCHANGED <<iteration, messages, made, view>>
        /\ phase'[c] = "fallback"
    BY <1>7 DEF Fails, Goes, ChatInv, ChatTypeOK
  <2>2. ChatTypeOK'
    <3>1. <<>> \in Seq(Calls)
      OBVIOUS
    <3> QED
      BY <1>2, <1>3, <2>1, <3>1 DEF ChatInv, ChatTypeOK
  <2>3. Looping(c)'
    <3>1. Looping(c) /\ proposed'[c] = {}
      BY <2>1 DEF ChatInv, ChatTypeOK
    <3> QED
      BY <1>3, <2>1, <3>1 DEF Looping
  <2>4. \A d \in Turns : d # c => phase'[d] = phase[d] /\ todo'[d] = todo[d] /\ proposed'[d] = proposed[d]
    BY <1>2, <2>1 DEF ChatInv, ChatTypeOK
  <2> QED
    BY <1>3, <2>1, <2>2, <2>3, <2>4, OneTurn DEF ChatInv
<1>8. CASE Answered(c) \/ Limit(c) \/ Reply(c) \/ Dies(c)
  <2>1. /\ UNCHANGED <<iteration, messages, todo, proposed, made, view>>
        /\ phase'[c] \in {"answered", "replied", "fell back", "dead"}
        /\ phase[c] \notin {"fallback", "fell back", "dead"} \/ phase'[c] \in {"fell back", "dead"}
    <3>1. phase \in [Turns -> Phases]
      BY DEF ChatInv, ChatTypeOK
    <3>2. CASE Answered(c) \/ Limit(c) \/ Dies(c)
      BY <3>1, <3>2 DEF Answered, Limit, Dies, Goes
    <3>3. CASE Reply(c)
      <4>1. \/ phase[c] = "answered" /\ Goes(c, "replied")
            \/ phase[c] = "fallback" /\ Goes(c, "fell back")
        <5>1. PICK end \in {<<"answered", "replied">>, <<"fallback", "fell back">>} :
                phase[c] = end[1] /\ Goes(c, end[2])
          BY <3>3 DEF Reply
        <5>2. PICK from, to : from = end[1] /\ to = end[2]
          OBVIOUS
        <5>3. \/ from = "answered" /\ to = "replied"
              \/ from = "fallback" /\ to = "fell back"
          BY <5>2, TwoEnds
        <5>4. phase[c] = from /\ Goes(c, to)
          BY <5>1, <5>2
        <5> QED
          BY <5>3, <5>4
      <4> QED
        BY <3>1, <3>3, <4>1 DEF Reply, Goes
    <3> QED
      BY <1>8, <3>2, <3>3
  <2>2. ChatTypeOK'
    BY <1>2, <1>3, <2>1 DEF ChatInv, ChatTypeOK
  <2>3. Looping(c)'
    <3>1. Looping(c)
      BY DEF ChatInv
    <3> QED
      BY <1>3, <2>1, <3>1 DEF Looping
  <2>4. \A d \in Turns : d # c => phase'[d] = phase[d]
    BY <1>2 DEF ChatInv, ChatTypeOK
  <2> QED
    BY <1>3, <2>1, <2>2, <2>3, <2>4, OneTurn DEF ChatInv
<1> QED
  BY <1>6, <1>7, <1>8

\* Every step of the chats is a step of the approval lifecycle or leaves it alone.
LEMMA ChatsStep == [ChatNext]_<<vars, chatVars>> => [Next]_vars
<1> SUFFICES ASSUME ChatNext PROVE [Next]_vars
  OBVIOUS
<1>1. ASSUME NEW c \in Turns, NEW a \in Actions, ProposeCall(c, a) PROVE [Next]_vars
  BY <1>1 DEF ProposeCall, Next
<1>2. ASSUME NEW c \in Turns,
             Send(c) \/ Answered(c) \/ Asks(c) \/ Limit(c) \/ ReadOrRefuse(c) \/ Fails(c) \/ Reply(c)
               \/ Dies(c) \/ Receive(c) \/ Disconnect(c)
      PROVE  UNCHANGED vars
  BY <1>2 DEF Send, Answered, Asks, Limit, ReadOrRefuse, Fails, Reply, Dies, Receive, Disconnect
<1> QED
  BY <1>1, <1>2 DEF ChatNext, ChatStep, Loop

\* What the page does is nothing to the loop.
LEMMA PageShows ==
  ASSUME ChatInv, NEW c \in Turns, Receive(c) \/ Disconnect(c)
  PROVE  ChatInv'
<1>1. UNCHANGED <<vars, chat>> /\ \E shown \in {"reply", "error"} : view' = [view EXCEPT ![c] = shown]
  BY DEF Receive, Disconnect
<1>2. TypeOK'
  BY <1>1, TypesKept DEF ChatInv, ChatTypeOK
<1>3. ChatTypeOK'
  BY <1>1, <1>2 DEF ChatInv, ChatTypeOK, chat
<1> QED
  BY <1>1, <1>3, Quiet

LEMMA ChatKept == ChatInv /\ [ChatNext]_<<vars, chatVars>> => ChatInv'
<1> SUFFICES ASSUME ChatInv, [ChatNext]_<<vars, chatVars>> PROVE ChatInv'
  OBVIOUS
<1>1. ASSUME [Next]_vars, UNCHANGED chatVars PROVE ChatInv'
  <2>1. TypeOK'
    BY <1>1, TypesKept DEF ChatInv, ChatTypeOK
  <2>2. ChatTypeOK'
    BY <1>1, <2>1 DEF ChatInv, ChatTypeOK, chatVars, chat
  <2> QED
    BY <1>1, <2>2, Quiet DEF chatVars
<1>2. ASSUME NEW c \in Turns, NEW a \in Actions, ProposeCall(c, a) PROVE ChatInv'
  BY <1>2, ProposeCallAnswers
<1>3. ASSUME NEW c \in Turns, Asks(c) \/ ReadOrRefuse(c) PROVE ChatInv'
  BY <1>3, AsksOpens, ReadOrRefuseAnswers
<1>4. ASSUME NEW c \in Turns,
             Send(c) \/ Answered(c) \/ Limit(c) \/ Fails(c) \/ Reply(c) \/ Dies(c)
      PROVE  ChatInv'
  BY <1>4, TurnGoes
<1>5. ASSUME NEW c \in Turns, Receive(c) \/ Disconnect(c) PROVE ChatInv'
  BY <1>5, PageShows
<1> QED
  BY <1>1, <1>2, <1>3, <1>4, <1>5 DEF ChatNext, ChatStep, Loop

LEMMA ChatBegins == ChatInit => ChatInv
<1> SUFFICES ASSUME ChatInit PROVE ChatInv
  OBVIOUS
<1>1. TypeOK
  BY Initially DEF ChatInit, IInv
<1>2. <<>> \in Seq(Said) /\ <<>> \in Seq(Calls) /\ 0 \in 0..MaxIterations
  BY LoopBound
<1>3. ChatTypeOK
  BY <1>1, <1>2 DEF ChatInit, ChatTypeOK, Phases
<1>4. ASSUME NEW c \in Turns PROVE Looping(c) /\ made[c] = {}
  BY DEF ChatInit, Looping
<1> QED
  BY <1>3, <1>4 DEF ChatInv

LEMMA ChatAlways == ChatSpec => []ChatInv
BY ChatBegins, ChatKept, PTL DEF ChatSpec

\* When the model is asked there is nothing to do, so that no call is left open.
LEMMA AskedIsAnswered == ChatInv => CallsAnswered
<1> SUFFICES ASSUME ChatInv, NEW c \in Turns, phase[c] = "asking", NEW i \in DOMAIN messages[c],
                    messages[c][i].role = "assistant", NEW k \in DOMAIN messages[c][i].calls
             PROVE  /\ i + k \in DOMAIN messages[c]
                    /\ messages[c][i + k] = [role |-> "tool", id |-> messages[c][i].calls[k]]
  BY DEF CallsAnswered
<1>1. PICK m, t : m = messages[c] /\ t = todo[c]
  OBVIOUS
<1>2. m \in Seq(Said) /\ t = <<>> /\ Answers(m, t) /\ i \in DOMAIN m
  BY <1>1 DEF ChatInv, ChatTypeOK, Looping, Answering
<1>3. m[i] \in Said
  BY <1>2
<1>4. m[i].calls \in Seq(Ids)
  BY <1>1, <1>3 DEF Said
<1>5. k \in Nat /\ k > 0 /\ i \in Nat /\ i > 0 /\ Len(m) \in Nat
  BY <1>1, <1>2, <1>4
<1>6. IF i + k - Len(m) <= 0 THEN m[i + k] = [role |-> "tool", id |-> m[i].calls[k]]
                          ELSE i + k - Len(m) \in DOMAIN t
  BY <1>1, <1>2 DEF Answers
<1>7. DOMAIN t = {}
  BY <1>2
<1>8. i + k <= Len(m) /\ m[i + k] = [role |-> "tool", id |-> m[i].calls[k]]
  BY <1>5, <1>6, <1>7
<1>9. i + k \in DOMAIN m
  BY <1>2, <1>5, <1>8
<1> QED
  BY <1>1, <1>8, <1>9

\* The chats are one more way into the queue and change nothing about it: whatever is
\* proved above of the lifecycle holds while any number of turns propose.
THEOREM ChatsKeepTheLifecycle == ChatSpec => Spec
BY ChatsStep, PTL DEF ChatSpec, ChatInit, Spec

\* A turn is whole, for every number of turns, rounds and calls and whatever the model
\* asks for: no call is left open when the model is asked again, and a reply in its words
\* tells of all the turn's proposals, each in the log and no other turn's.
THEOREM TurnsAreTold == ChatSpec => []TurnsTold
<1>1. ASSUME ChatInv PROVE TurnsTold
  <2>1. CallsAnswered /\ ChatTypeOK
    BY <1>1, AskedIsAnswered DEF ChatInv
  <2>2. RepliesTell
    BY <1>1 DEF ChatInv, Looping, RepliesTell
  <2>3. ProposalsOwned
    BY <1>1 DEF ChatInv, Looping, ProposalsOwned
  <2> QED
    BY <2>1, <2>2, <2>3 DEF TurnsTold
<1> QED
  BY <1>1, ChatAlways, PTL
============================================================================
