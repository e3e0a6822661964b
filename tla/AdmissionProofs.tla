--------------------------- MODULE AdmissionProofs ---------------------------
(***************************************************************************)
(* Who gets in and what they may do there.  The admission counter, the     *)
(* limiter's tokens and the connection pool, for any number of clients and *)
(* any limits that leave the reserve; and the accounts: however requests   *)
(* that look first and write later cross, accounts stay whole, rights are  *)
(* given by others only, and pages offer what the routes serve.            *)
(***************************************************************************)
EXTENDS Admission, Accounts, FiniteSetTheorems, TLAPS

InLine == {"queued", "granted", "late"}
WithToken == {"granted", "running", "closing", "closed"}

\* A token is held exactly from acquire to release, and there are not too many.
Tokens ==
  /\ borrowers = At(WithToken)
  /\ Cardinality(borrowers) <= MaxInflight
  /\ At({"queued"}) # {} => Cardinality(borrowers) = MaxInflight

Waiting == waiting = Cardinality(At(InLine)) /\ waiting <= MaxWaiting

\* A connection belongs to a job, or to a request whose session is not closed.
Connections == conns \subseteq At({"running", "closing"}) \cup Jobs

IInv == TypeOK /\ Tokens /\ Waiting /\ Connections

----------------------------------------------------------------------------
(* Sets of clients                                                         *)

\* The clients at given places are finitely many.
LEMMA AtFinite ==
  ASSUME NEW S
  PROVE  IsFiniteSet(At(S)) /\ Cardinality(At(S)) \in Nat
<1>1. At(S) \in SUBSET Clients
  BY DEF At
<1> QED
  BY <1>1, ClientsFinite, FS_Subset, FS_CardinalityType

\* Where the clients are after one of them has moved.
LEMMA OneMoves ==
  ASSUME NEW c \in Clients, NEW to, pc \in [Clients -> Places], Goes(c, to), NEW S
  PROVE  At(S)' = IF to \in S THEN At(S) \cup {c} ELSE At(S) \ {c}
BY DEF At, Goes

\* One who is not there comes, one who is there goes.
LEMMA Count ==
  ASSUME NEW S, NEW c
  PROVE  /\ c \notin At(S) => Cardinality(At(S) \cup {c}) = Cardinality(At(S)) + 1
         /\ c \in At(S) => /\ Cardinality(At(S) \cup {c}) = Cardinality(At(S))
                           /\ Cardinality(At(S) \ {c}) = Cardinality(At(S)) - 1
                           /\ Cardinality(At(S) \ {c}) \in Nat
         /\ c \notin At(S) => At(S) \ {c} = At(S)
BY AtFinite, FS_AddElement, FS_RemoveElement, FS_CardinalityType

\* The counter follows one who leaves.
LEMMA OneLess ==
  ASSUME TypeOK, Waiting, NEW c \in At(InLine),
         waiting' = waiting - 1, At(InLine)' = At(InLine) \ {c}
  PROVE  Waiting' /\ waiting' \in Nat
<1>1. Cardinality(At(InLine) \ {c}) = Cardinality(At(InLine)) - 1
      /\ Cardinality(At(InLine) \ {c}) \in Nat
  BY Count
<1> QED
  BY <1>1, Limits DEF Waiting, TypeOK

----------------------------------------------------------------------------
(* The limiter                                                             *)

\* A released token leaves no waiter behind, and nobody else moves.
LEMMA HandOverKeeps ==
  ASSUME TypeOK, Tokens, NEW c \in Clients, pc[c] \in {"granted", "closed"},
         NEW to \in {"late", "away"}, HandOver(c, to)
  PROVE  /\ pc' \in [Clients -> Places] /\ borrowers' \in SUBSET Clients
         /\ Tokens'
         /\ At(InLine)' = IF to = "late" THEN At(InLine) \cup {c} ELSE At(InLine) \ {c}
         /\ At({"running", "closing"})' = At({"running", "closing"})
<1>1. c \in borrowers /\ IsFiniteSet(borrowers) /\ Cardinality(borrowers) \in Nat
  BY AtFinite DEF Tokens, At, WithToken
<1>2. Cardinality(borrowers \ {c}) = Cardinality(borrowers) - 1
      /\ IsFiniteSet(borrowers \ {c})
  BY <1>1, FS_RemoveElement
<1>3. CASE At({"queued"}) = {} /\ borrowers' = borrowers \ {c} /\ Goes(c, to)
  <2>1. pc' \in [Clients -> Places]
    BY <1>3 DEF TypeOK, Goes, Places
  <2>2. At(WithToken)' = At(WithToken) \ {c} /\ At({"queued"})' = {}
    BY <1>3 DEF TypeOK, Goes, At, WithToken
  <2>3. Tokens'
    BY <1>1, <1>2, <1>3, <2>2, Limits DEF Tokens
  <2> QED
    BY <1>3, <2>1, <2>3 DEF TypeOK, Goes, At, InLine
<1>4. ASSUME NEW n \in At({"queued"}), borrowers' = (borrowers \ {c}) \cup {n},
             pc' = [pc EXCEPT ![c] = to, ![n] = "granted"]
      PROVE  /\ pc' \in [Clients -> Places] /\ borrowers' \in SUBSET Clients
             /\ Tokens'
             /\ At(InLine)' = IF to = "late" THEN At(InLine) \cup {c} ELSE At(InLine) \ {c}
             /\ At({"running", "closing"})' = At({"running", "closing"})
  <2>1. n \in Clients /\ n # c /\ pc[n] = "queued" /\ n \notin borrowers
    BY DEF At, Tokens, WithToken
  <2>2. pc' \in [Clients -> Places] /\ borrowers' \in SUBSET Clients
    BY <1>4, <2>1 DEF TypeOK, Places
  <2>3. At(WithToken)' = (At(WithToken) \ {c}) \cup {n}
    BY <1>4, <2>1 DEF TypeOK, At, WithToken
  <2>4. Cardinality(borrowers') = Cardinality(borrowers)
    <3>1. Cardinality((borrowers \ {c}) \cup {n}) = Cardinality(borrowers \ {c}) + 1
      BY <1>2, <2>1, FS_AddElement
    <3> QED
      BY <1>1, <1>2, <1>4, <3>1
  <2>5. Cardinality(borrowers) = MaxInflight
    BY <1>4 DEF Tokens
  <2>6. Tokens'
    BY <1>4, <2>3, <2>4, <2>5, Limits DEF Tokens
  <2> QED
    BY <1>4, <2>1, <2>2, <2>6 DEF TypeOK, At, InLine
<1> QED
  BY <1>3, <1>4 DEF HandOver

\* Leaving acquire without a token.
LEMMA GiveUpKeeps ==
  ASSUME TypeOK, Tokens, NEW c \in Clients, NEW to \in {"late", "away"}, GiveUp(c, to)
  PROVE  /\ pc' \in [Clients -> Places] /\ borrowers' \in SUBSET Clients
         /\ c \in At(InLine) /\ Tokens'
         /\ At(InLine)' = IF to = "late" THEN At(InLine) \cup {c} ELSE At(InLine) \ {c}
         /\ At({"running", "closing"})' = At({"running", "closing"})
<1>1. CASE pc[c] = "granted" /\ HandOver(c, to)
  BY <1>1, HandOverKeeps DEF At, InLine
<1>2. CASE pc[c] = "queued" /\ borrowers' = borrowers /\ Goes(c, to)
  <2>1. At(WithToken)' = At(WithToken) /\ At({"queued"})' \subseteq At({"queued"})
    BY <1>2 DEF TypeOK, Goes, At, WithToken
  <2>2. Tokens'
    BY <1>2, <2>1 DEF Tokens
  <2> QED
    BY <1>2, <2>2 DEF TypeOK, Goes, At, InLine, Places
<1> QED
  BY <1>1, <1>2 DEF GiveUp

----------------------------------------------------------------------------
(* The invariant                                                           *)

\* Every step keeps the places, the tokens, the counter and the connections in accord.
LEMMA Invariance == IInv /\ [Next]_vars => IInv'
<1> SUFFICES ASSUME IInv, [Next]_vars PROVE IInv'
  OBVIOUS
<1> USE DEF IInv
<1>1. ASSUME NEW c \in Clients, Probe(c) \/ Refuse(c) \/ Answered(c) PROVE IInv'
  <2>1. \E to \in {"probing", "refusing", "away"} : Goes(c, to)
        /\ UNCHANGED <<waiting, borrowers, conns>> /\ pc[c] \in {"away", "refusing", "probing"}
    BY <1>1 DEF Probe, Refuse, Answered
  <2>2. /\ pc' \in [Clients -> Places]
        /\ At(WithToken)' = At(WithToken) /\ At({"queued"})' = At({"queued"})
        /\ At(InLine)' = At(InLine) /\ At({"running", "closing"})' = At({"running", "closing"})
    BY <2>1 DEF TypeOK, Goes, At, WithToken, InLine, Places
  <2> QED
    BY <2>1, <2>2 DEF TypeOK, Tokens, Waiting, Connections
<1>2. ASSUME NEW c \in Clients, Join(c) PROVE IInv'
  <2>1. /\ pc[c] = "away" /\ waiting < MaxWaiting /\ waiting' = waiting + 1
        /\ Acquire(c) /\ conns' = conns
    BY <1>2, Limits DEF Join, NoRoom, TypeOK
  <2>2. \E to \in {"granted", "queued"} : Goes(c, to)
    BY <2>1 DEF Acquire
  <2>3. /\ pc' \in [Clients -> Places]
        /\ At({"running", "closing"})' = At({"running", "closing"})
        /\ At(InLine)' = At(InLine) \cup {c} /\ c \notin At(InLine)
    BY <2>1, <2>2 DEF TypeOK, Goes, At, InLine, Places
  <2>4. Waiting'
    BY <2>1, <2>3, Count, Limits DEF Waiting, TypeOK
  <2>5. c \notin At(WithToken) /\ c \notin borrowers
    BY <2>1 DEF At, WithToken, Tokens
  <2>6. IsFiniteSet(borrowers) /\ Cardinality(borrowers) \in Nat
    BY AtFinite DEF Tokens
  <2>7. CASE At({"queued"}) = {} /\ Cardinality(borrowers) < MaxInflight
    <3>1. borrowers' = borrowers \cup {c} /\ Goes(c, "granted")
      BY <2>1, <2>7 DEF Acquire
    <3>2. At(WithToken)' = At(WithToken) \cup {c} /\ At({"queued"})' = {}
      BY <2>7, <3>1 DEF TypeOK, Goes, At, WithToken
    <3>3. Cardinality(borrowers') = Cardinality(borrowers) + 1
      BY <2>5, <2>6, <3>1, FS_AddElement
    <3>4. Tokens'
      BY <2>6, <2>7, <3>1, <3>2, <3>3, Limits DEF Tokens
    <3> QED
      BY <2>1, <2>3, <2>4, <3>1, <3>4 DEF TypeOK, Connections
  <2>8. CASE ~(At({"queued"}) = {} /\ Cardinality(borrowers) < MaxInflight)
    <3>1. borrowers' = borrowers /\ Goes(c, "queued")
      BY <2>1, <2>8 DEF Acquire
    <3>2. At(WithToken)' = At(WithToken)
      BY <2>1, <3>1 DEF TypeOK, Goes, At, WithToken
    <3>3. Cardinality(borrowers) = MaxInflight
      BY <2>6, <2>8, Limits DEF Tokens
    <3>4. Tokens'
      BY <3>1, <3>2, <3>3, Limits DEF Tokens
    <3> QED
      BY <2>1, <2>3, <2>4, <3>1, <3>4 DEF TypeOK, Connections
  <2> QED
    BY <2>7, <2>8
<1>3. ASSUME NEW c \in Clients, Enter(c) PROVE IInv'
  <2>1. pc[c] = "granted" /\ Goes(c, "running") /\ waiting' = waiting - 1
        /\ borrowers' = borrowers /\ conns' = conns
    BY <1>3 DEF Enter
  <2>2. /\ pc' \in [Clients -> Places] /\ c \in At(InLine)
        /\ At(WithToken)' = At(WithToken) /\ At({"queued"})' = At({"queued"})
        /\ At(InLine)' = At(InLine) \ {c}
        /\ At({"running", "closing"}) \subseteq At({"running", "closing"})'
    BY <2>1 DEF TypeOK, Goes, At, WithToken, InLine, Places
  <2>3. Waiting' /\ waiting' \in Nat
    BY <2>1, <2>2, OneLess
  <2> QED
    BY <2>1, <2>2, <2>3 DEF TypeOK, Tokens, Connections
<1>4. ASSUME NEW c \in Clients, TimeOut(c) PROVE IInv'
  <2>1. GiveUp(c, "late") /\ waiting' = waiting /\ conns' = conns
    BY <1>4 DEF TimeOut
  <2>2. At(InLine)' = At(InLine)
    BY <2>1, GiveUpKeeps
  <2>3. Waiting'
    BY <2>1, <2>2 DEF Waiting
  <2> QED
    BY <2>1, <2>3, GiveUpKeeps DEF TypeOK, Connections
<1>5. ASSUME NEW c \in Clients, Disconnect(c) PROVE IInv'
  <2>1. GiveUp(c, "away") /\ waiting' = waiting - 1 /\ conns' = conns
    BY <1>5 DEF Disconnect
  <2>2. c \in At(InLine) /\ At(InLine)' = At(InLine) \ {c}
    BY <2>1, GiveUpKeeps
  <2>3. Waiting' /\ waiting' \in Nat
    BY <2>1, <2>2, OneLess
  <2> QED
    BY <2>1, <2>3, GiveUpKeeps DEF TypeOK, Connections
<1>6. ASSUME NEW c \in Clients, AnsweredLate(c) PROVE IInv'
  <2>1. pc[c] = "late" /\ Goes(c, "away") /\ waiting' = waiting - 1
        /\ borrowers' = borrowers /\ conns' = conns
    BY <1>6 DEF AnsweredLate
  <2>2. /\ pc' \in [Clients -> Places] /\ c \in At(InLine)
        /\ At(WithToken)' = At(WithToken) /\ At({"queued"})' = At({"queued"})
        /\ At(InLine)' = At(InLine) \ {c}
        /\ At({"running", "closing"})' = At({"running", "closing"})
    BY <2>1 DEF TypeOK, Goes, At, WithToken, InLine, Places
  <2>3. Waiting' /\ waiting' \in Nat
    BY <2>1, <2>2, OneLess
  <2> QED
    BY <2>1, <2>2, <2>3 DEF TypeOK, Tokens, Connections
<1>7. ASSUME NEW c \in Clients, Connect(c) \/ EndTransaction(c) PROVE IInv'
  <2>1. /\ pc[c] = "running" /\ conns' \subseteq conns \cup {c}
        /\ UNCHANGED <<pc, waiting, borrowers>>
    BY <1>7 DEF Connect, EndTransaction
  <2>2. \A S : At(S)' = At(S)
    BY <2>1 DEF At
  <2>3. c \in At({"running", "closing"})
    BY <2>1 DEF At
  <2>4. Connections' /\ TypeOK'
    BY <2>1, <2>2, <2>3 DEF Connections, TypeOK
  <2> QED
    BY <2>1, <2>2, <2>4 DEF Tokens, Waiting
<1>8. ASSUME NEW c \in Clients, Finish(c) \/ Teardown(c) PROVE IInv'
  <2>1. /\ \E to \in {"closing", "closed"} : Goes(c, to)
        /\ pc[c] \in {"running", "closing"}
        /\ waiting' = waiting /\ borrowers' = borrowers
    BY <1>8 DEF Finish, Teardown
  <2>2. /\ pc' \in [Clients -> Places]
        /\ At(WithToken)' = At(WithToken) /\ At({"queued"})' = At({"queued"})
        /\ At(InLine)' = At(InLine)
    BY <2>1 DEF TypeOK, Goes, At, WithToken, InLine, Places
  <2>3. Connections'
    BY <1>8, JobsFinite DEF Finish, Teardown, Connections, Goes, At, TypeOK
  <2>4. conns' \in SUBSET (Clients \cup Jobs)
    BY <1>8 DEF Finish, Teardown, TypeOK
  <2> QED
    BY <2>1, <2>2, <2>3, <2>4 DEF TypeOK, Tokens, Waiting
<1>9. ASSUME NEW c \in Clients, Release(c) PROVE IInv'
  <2>1. pc[c] = "closed" /\ HandOver(c, "away") /\ waiting' = waiting /\ conns' = conns
    BY <1>9 DEF Release
  <2>2. At(InLine)' = At(InLine) \ {c} /\ c \notin At(InLine)
    BY <2>1, HandOverKeeps DEF At, InLine
  <2>3. Waiting'
    BY <2>1, <2>2 DEF Waiting
  <2> QED
    BY <2>1, <2>3, HandOverKeeps DEF TypeOK, Connections
<1>10. ASSUME NEW j \in Jobs, JobConnects(j) \/ JobCloses(j) PROVE IInv'
  <2>1. conns' \subseteq conns \cup {j} /\ UNCHANGED <<pc, waiting, borrowers>>
    BY <1>10 DEF JobConnects, JobCloses
  <2>2. \A S : At(S)' = At(S)
    BY <2>1 DEF At
  <2>3. Connections' /\ TypeOK'
    BY <2>1, <2>2 DEF Connections, TypeOK
  <2> QED
    BY <2>1, <2>2, <2>3 DEF Tokens, Waiting
<1>11. CASE UNCHANGED vars
  BY <1>11 DEF vars, TypeOK, Tokens, Waiting, Connections, At
<1> QED
  BY <1>1, <1>2, <1>3, <1>4, <1>5, <1>6, <1>7, <1>8, <1>9, <1>10, <1>11 DEF Next

\* At the start nobody is there.
LEMMA Initially == Init => IInv
<1> SUFFICES ASSUME Init PROVE IInv
  OBVIOUS
<1>1. At(WithToken) = {} /\ At(InLine) = {} /\ At({"queued"}) = {}
  BY DEF Init, At, WithToken, InLine
<1>2. Cardinality({}) = 0
  BY FS_EmptySet
<1> QED
  BY <1>1, <1>2, Limits DEF IInv, TypeOK, Tokens, Waiting, Connections, Init, Places

\* The accord holds always.
LEMMA Always == Spec => []IInv
BY Initially, Invariance, PTL DEF Spec

----------------------------------------------------------------------------
(* The theorems                                                            *)

\* The state always has its type: above all, the counter never falls below zero.
THEOREM TypeCorrect == Spec => []TypeOK
<1>1. IInv => TypeOK
  BY DEF IInv
<1> QED
  BY <1>1, Always, PTL

\* The waiting counter is exact and bounded, whichever way requests end.
THEOREM WaitingIsCounted == Spec => []WaitingCounted
<1>1. IInv => WaitingCounted
  BY DEF IInv, Waiting, WaitingCounted, InLine
<1> QED
  BY <1>1, Always, PTL

\* No token is ever lost.
THEOREM TokensStay == Spec => []NoTokenLost
<1>1. IInv => NoTokenLost
  BY DEF IInv, Tokens, NoTokenLost, AtWork, At, WithToken
<1> QED
  BY <1>1, Always, PTL

\* With the reserve, no admitted request ever waits in the connection pool.
THEOREM PoolIsEnough == Spec => []PoolSuffices
<1>1. IInv => PoolSuffices
  <2> SUFFICES ASSUME IInv, NEW c \in At({"running"}), c \notin conns
               PROVE  Cardinality(conns) < PoolSize
    BY DEF PoolSuffices
  <2> DEFINE Others == borrowers \ {c}
  <2>1. /\ c \in borrowers /\ IsFiniteSet(borrowers)
        /\ Cardinality(borrowers) \in Nat /\ Cardinality(borrowers) <= MaxInflight
    BY AtFinite DEF IInv, Tokens, At, WithToken
  <2>2. IsFiniteSet(Others) /\ Cardinality(Others) = Cardinality(borrowers) - 1
    BY <2>1, FS_RemoveElement
  <2>3. conns \in SUBSET (Others \cup Jobs)
    BY DEF IInv, Connections, Tokens, At, WithToken
  <2>4. Others \cap Jobs = {}
    BY JobsFinite DEF IInv, TypeOK
  <2>5. /\ IsFiniteSet(Others \cup Jobs)
        /\ Cardinality(Others \cup Jobs)
             = Cardinality(Others) + Cardinality(Jobs) - Cardinality(Others \cap Jobs)
    BY <2>2, JobsFinite, FS_Union
  <2>6. Cardinality(Others \cap Jobs) = 0
    BY <2>4, FS_EmptySet
  <2>7. Cardinality(conns) <= Cardinality(Others \cup Jobs) /\ Cardinality(conns) \in Nat
    BY <2>3, <2>5, FS_Subset, FS_CardinalityType
  <2>8. Cardinality(Jobs) \in Nat
    BY JobsFinite, FS_CardinalityType
  <2> HIDE DEF Others
  <2> QED
    BY <2>1, <2>2, <2>5, <2>6, <2>7, <2>8, Limits, Reserve
<1> QED
  BY <1>1, Always, PTL

\* The counter and the tokens are exact together.
THEOREM PlacesAreCounted == Spec => []PlacesCounted
BY TypeCorrect, WaitingIsCounted, TokensStay, PTL DEF PlacesCounted

-----------------------------------------------------------------------------
(* Accounts                                                                *)

UserRow == [role : Roles \cup {"none"}, active : BOOLEAN,
            email : Addresses \cup {NoOne}, sub : Identities \cup {NoOne}]

\* What a request on its way to the commit may be about to write.
Legal(by, role, q, set) ==
  /\ by \in People \cup {NoOne} /\ role \in Anyone /\ q \in People \cup {NoOne}
  /\ DOMAIN set \subseteq Fields
  /\ "role" \in DOMAIN set => set["role"] \in Roles
  /\ "active" \in DOMAIN set => set["active"] \in BOOLEAN
  /\ "email" \in DOMAIN set => set["email"] \in Addresses
  /\ "sub" \in DOMAIN set => set["sub"] \in Identities \cup {NoOne}
  /\ q = NoOne => DOMAIN set = Fields /\ (set["role"] = "customer" \/ role = "admin")
  /\ q # NoOne => /\ Exists(q)
                  /\ "role" \in DOMAIN set => role = "admin"
                  /\ "active" \in DOMAIN set /\ set["active"] => by # q /\ role \in MANAGEMENT_ROLES

\* A request that was let in had an enabled account when its row was loaded, and creates
\* accounts as an administrator only.
LetIn(r) ==
  /\ r.pc = "load" /\ r.by \in People /\ r.as \in UserRow
  /\ r.as.role \in Roles /\ r.as.active
  /\ r.kind = "create_user" => r.as.role = "admin"

ReqOK(r) == r = Idle \/ LetIn(r) \/ (r.pc = "commit" /\ Legal(r.by, r.role, r.about, r.set))

RowsOK ==
  /\ row \in [People -> UserRow]
  /\ \A p \in People : /\ row[p].active => Exists(p)
                       /\ Exists(p) => row[p].email # NoOne
  /\ Allowed(row)
PageOK == page \in [Watched -> [role : Anyone, old : BOOLEAN]]
AccountsInv == RowsOK /\ DOMAIN req = Writers /\ (\A w \in Writers : ReqOK(req[w])) /\ PageOK

-----------------------------------------------------------------------------
LEMMA Strings == DOMAIN NoRow = Fields /\ Roles \subseteq Anyone /\ Visitor \in Anyone
  BY DEF NoRow, Fields, Anyone, Roles, Visitor

\* Nobody but an administrator is let in to create accounts.
LEMMA OnlyAdminsCreate ==
  ASSUME NEW role, <<"create_user", role>> \in Routes PROVE role = "admin"
  <1>1. <<"create_user", role>> \notin UNION {AgentRoutes, AlertRoutes, DisposalRoutes, LotRoutes, StockRoutes}
    BY DEF AgentRoutes, AlertRoutes, DisposalRoutes, LotRoutes, StockRoutes, Demand, For
  <1>2. <<"create_user", role>> \notin UNION {ComponentRoutes, TraceRoutes, ScanRoutes, GiftBoxRoutes, PublicBoxRoutes}
    BY DEF ComponentRoutes, TraceRoutes, ScanRoutes, GiftBoxRoutes, PublicBoxRoutes, Demand, For
  <1>3. <<"create_user", role>> \notin UNION {CatalogueRoutes, ProductRoutes, VariantRoutes, VoucherRoutes}
    BY DEF CatalogueRoutes, ProductRoutes, VariantRoutes, VoucherRoutes, Demand, For
  <1>4. <<"create_user", role>> \notin UNION {SupplierRoutes, ReportRoutes, BestSellerRoutes, OrderRoutes, PaymentRoutes, SessionRoutes}
    BY DEF SupplierRoutes, ReportRoutes, BestSellerRoutes, OrderRoutes, PaymentRoutes, SessionRoutes, Demand, For
  <1>5. <<"create_user", role>> \in UserRoutes => role = "admin"
    BY DEF UserRoutes, For
  <1> QED BY <1>1, <1>2, <1>3, <1>4, <1>5 DEF Routes

LEMMA AccountsInit == UsersInit => AccountsInv
  <1> SUFFICES ASSUME UsersInit PROVE AccountsInv OBVIOUS
  <1>1. \A p \in DOMAIN Founders : p \in People /\ Founders[p] \in Roles /\ HomeOf[p] \in Addresses
    BY Founded
  <1>2. \A p \in People : row[p] = IF p \in DOMAIN Founders
          THEN [role |-> Founders[p], active |-> TRUE, email |-> HomeOf[p], sub |-> NoOne] ELSE NoRow
    BY DEF UsersInit, NewAccount
  <1>3. row \in [People -> UserRow]
    BY <1>1, <1>2 DEF UsersInit, UserRow, NoRow, NewAccount
  <1>4. RowsOK
    BY <1>1, <1>2, <1>3, Founded, Distinct DEF RowsOK, Allowed, Exists, NoRow, Roles
  <1>5. PageOK
    BY DEF UsersInit, PageOK, Anyone
  <1> QED BY <1>4, <1>5 DEF UsersInit, AccountsInv, ReqOK

-----------------------------------------------------------------------------
\* A request that now waits for its commit, or is over.
LEMMA WriteKeeps ==
  ASSUME AccountsInv, NEW w \in Writers, NEW by, NEW role, NEW q, NEW set,
         Legal(by, role, q, set), Write(w, by, role, q, set)
  PROVE  AccountsInv'
  <1>1. RowsOK' /\ PageOK' /\ DOMAIN req' = Writers
    BY DEF AccountsInv, RowsOK, PageOK, Write, Allowed, Exists
  <1>2. \A v \in Writers \ {w} : req'[v] = req[v]
    BY DEF AccountsInv, Write
  <1>3. ReqOK(req'[w])
    BY DEF AccountsInv, Write, ReqOK
  <1>4. \A v \in Writers : ReqOK(req'[v])
    BY <1>2, <1>3 DEF AccountsInv
  <1>5. \A v \in Writers : ReqOK(req[v])'
    BY <1>4 DEF Write, ReqOK, Legal, Exists
  <1> QED BY <1>1, <1>5 DEF AccountsInv

LEMMA NewIsLegal ==
  ASSUME NEW by \in People \cup {NoOne}, NEW role \in Anyone, NEW e \in Addresses,
         NEW as \in Roles, NEW i \in Identities \cup {NoOne}, as = "customer" \/ role = "admin"
  PROVE  Legal(by, role, NoOne, NewAccount(e, as, i))
  BY DEF Legal, NewAccount, Fields

\* Each service method, from what it read to what it will write.
LEMMA RegisterKeeps ==
  ASSUME AccountsInv, NEW w \in Writers, NEW e \in Named, register(w, e) PROVE AccountsInv'
  <1>1. Legal(NoOne, Visitor, NoOne, NewAccount(e, "customer", NoOne))
    BY NewIsLegal, Strings, Distinct DEF Roles
  <1> QED BY <1>1, WriteKeeps DEF register

LEMMA CreateKeeps ==
  ASSUME AccountsInv, NEW w \in Writers, NEW e \in Named, NEW r \in Granted, create_user(w, e, r)
  PROVE  AccountsInv'
  <1>1. LetIn(req[w])
    BY DEF AccountsInv, ReqOK, create_user, Asked, Idle
  <1>2. Legal(req[w].by, req[w].as.role, NoOne, NewAccount(e, r, NoOne))
    BY <1>1, NewIsLegal, Strings, Distinct DEF LetIn, create_user, Asked
  <1> QED BY <1>2, WriteKeeps DEF create_user

LEMMA UpdateKeeps ==
  ASSUME AccountsInv, NEW w \in Writers, NEW q \in People, NEW sent \in Bodies, update_user(w, q, sent)
  PROVE  AccountsInv'
  <1> DEFINE new == Changed(Loaded(w, q), sent)
  <1>1. LetIn(req[w])
    BY DEF AccountsInv, ReqOK, update_user, Asked, Idle
  <1>2. /\ DOMAIN sent \subseteq Fields /\ "sub" \notin DOMAIN sent
        /\ "role" \in DOMAIN sent => sent["role"] \in Roles
        /\ "active" \in DOMAIN sent => sent["active"] \in BOOLEAN
        /\ "email" \in DOMAIN sent => sent["email"] \in Addresses
    BY Distinct DEF Bodies, Fields
  <1>3. /\ DOMAIN new \subseteq DOMAIN sent
        /\ \A f \in DOMAIN new : new[f] = sent[f] /\ new[f] # Loaded(w, q)[f]
    BY DEF Changed
  <1>4. "role" \in DOMAIN new => req[w].as.role = "admin"
    BY <1>3 DEF update_user, MayUpdate
  <1>5. "active" \in DOMAIN new /\ new["active"] => req[w].by # q
    <2> SUFFICES ASSUME "active" \in DOMAIN new, new["active"], req[w].by = q PROVE FALSE
      OBVIOUS
    <2>1. Loaded(w, q)["active"] = req[w].as.active
      BY DEF Loaded
    <2> QED BY <1>1, <1>2, <1>3, <2>1 DEF LetIn
  <1>6. req[w].by # q => req[w].as.role \in MANAGEMENT_ROLES
    BY DEF update_user, MayUpdate
  <1>7. Legal(req[w].by, req[w].as.role, q, new)
    <2> HIDE DEF new
    <2> QED BY <1>1, <1>2, <1>3, <1>4, <1>5, <1>6, Strings, Distinct DEF Legal, LetIn, update_user
  <1> QED BY <1>7, WriteKeeps DEF update_user

LEMMA DeleteKeeps ==
  ASSUME AccountsInv, NEW w \in Writers, NEW q \in People, delete_user(w, q) PROVE AccountsInv'
  <1> DEFINE new == Changed(row[q], [active |-> FALSE])
  <1>1. LetIn(req[w])
    BY DEF AccountsInv, ReqOK, delete_user, Asked, Idle
  <1>2. DOMAIN new \subseteq {"active"} /\ ("active" \in DOMAIN new => new["active"] = FALSE)
    BY DEF Changed
  <1>3. Legal(req[w].by, req[w].as.role, q, new)
    <2> HIDE DEF new
    <2> QED BY <1>1, <1>2, Strings, Distinct DEF Legal, LetIn, delete_user, Fields
  <1> QED BY <1>3, WriteKeeps DEF delete_user

LEMMA ProvisionKeeps ==
  ASSUME AccountsInv, NEW w \in Writers, NEW i \in Identities, provision_cognito_user(w, i)
  PROVE  AccountsInv'
  <1>1. CASE UNCHANGED <<row, req, page>>
    BY <1>1 DEF AccountsInv, RowsOK, PageOK, Allowed, Exists, ReqOK, LetIn, Legal
  <1>2. ASSUME NEW q \in Holding("email", AddressOf[i]), Write(w, NoOne, Visitor, q, [sub |-> i])
        PROVE  AccountsInv'
    <2>1. q \in People /\ Exists(q)
      BY <1>2 DEF Holding
    <2>2. Legal(NoOne, Visitor, q, [sub |-> i])
      BY <2>1, Strings, Distinct DEF Legal, Fields
    <2> QED BY <1>2, <2>2, WriteKeeps
  <1>3. CASE Write(w, NoOne, Visitor, NoOne, NewAccount(AddressOf[i], "customer", i))
    <2>1. Legal(NoOne, Visitor, NoOne, NewAccount(AddressOf[i], "customer", i))
      BY NewIsLegal, Strings, Addressed DEF Roles
    <2> QED BY <1>3, <2>1, WriteKeeps
  <1> QED BY <1>1, <1>2, <1>3 DEF provision_cognito_user

LEMMA AuthenticateKeeps ==
  ASSUME AccountsInv, NEW w \in Writers, NEW p \in People,
         NEW h \in {"create_user", "update_user", "delete_user"}, Authenticate(w, p, h)
  PROVE  AccountsInv'
  <1>1. row[p] \in UserRow /\ row[p].active /\ row[p].role \in Roles
    BY DEF AccountsInv, RowsOK, Authenticate, Exists, UserRow
  <1>2. h = "create_user" => row[p].role = "admin"
    BY OnlyAdminsCreate DEF Authenticate
  <1>3. LetIn(req'[w])
    BY <1>1, <1>2 DEF Authenticate, LetIn, AccountsInv
  <1>4. \A v \in Writers : req'[v] = req[v] \/ LetIn(req'[v])
    BY <1>3 DEF Authenticate, AccountsInv
  <1>5. \A v \in Writers : ReqOK(req[v])'
    BY <1>4 DEF Authenticate, AccountsInv, ReqOK, LetIn, Legal, Exists
  <1>6. RowsOK' /\ PageOK' /\ DOMAIN req' = Writers
    BY DEF AccountsInv, RowsOK, PageOK, Authenticate, Allowed, Exists
  <1> QED BY <1>5, <1>6 DEF AccountsInv

LEMMA AbandonKeeps ==
  ASSUME AccountsInv, NEW w \in Writers, Abandon(w) PROVE AccountsInv'
  <1>1. \A v \in Writers : req'[v] = req[v] \/ req'[v] = Idle
    BY DEF Abandon, AccountsInv
  <1>2. \A v \in Writers : ReqOK(req[v])'
    BY <1>1 DEF Abandon, AccountsInv, ReqOK, LetIn, Legal, Exists
  <1>3. RowsOK' /\ PageOK' /\ DOMAIN req' = Writers
    BY DEF AccountsInv, RowsOK, PageOK, Abandon, Allowed, Exists
  <1> QED BY <1>2, <1>3 DEF AccountsInv

-----------------------------------------------------------------------------
\* What a commit does to the rows: one of them, or none, takes what its request is about to
\* write, and the unique columns stay unique.
Written(old, set) == [f \in Fields |-> IF f \in DOMAIN set THEN set[f] ELSE old[f]]

LEMMA CommitWrites ==
  ASSUME AccountsInv, NEW w \in Writers, Commit(w)
  PROVE  /\ Legal(req[w].by, req[w].role, req[w].about, req[w].set)
         /\ req'[w] = Idle
         /\ \/ row' = row
            \/ \E q \in Target(w) : /\ q \in People
                                    /\ row' = [row EXCEPT ![q] = Written(row[q], req[w].set)]
                                    /\ Allowed(row)'
  <1>1. Legal(req[w].by, req[w].role, req[w].about, req[w].set)
    BY DEF AccountsInv, ReqOK, LetIn, Commit, Idle
  <1>2. req'[w] = Idle
    BY DEF AccountsInv, Commit
  <1>3. Target(w) \subseteq People
    BY <1>1 DEF Target, Legal
  <1>4. \A q \in Target(w) :
          [row EXCEPT ![q] = [f \in DOMAIN NoRow |-> IF f \in DOMAIN req[w].set THEN req[w].set[f] ELSE @[f]]]
            = [row EXCEPT ![q] = Written(row[q], req[w].set)]
    BY <1>3, Strings DEF Written, AccountsInv, RowsOK
  <1> QED BY <1>1, <1>2, <1>3, <1>4, ZenonT(40) DEF Commit, Allowed

LEMMA CommitKeeps ==
  ASSUME AccountsInv, NEW w \in Writers, Commit(w) PROVE AccountsInv'
  <1>1. RowsOK' /\ \A p \in People : Exists(p) => Exists(p)'
    <2>1. CASE row' = row
      BY <2>1 DEF AccountsInv, RowsOK, Allowed, Exists
    <2>2. ASSUME NEW q \in Target(w), q \in People,
                 row' = [row EXCEPT ![q] = Written(row[q], req[w].set)], Allowed(row)'
          PROVE  RowsOK' /\ \A p \in People : Exists(p) => Exists(p)'
      <3> DEFINE set == req[w].set
                 new == Written(row[q], set)
      <3>1. Legal(req[w].by, req[w].role, req[w].about, set)
        BY CommitWrites
      <3>2. row[q] \in UserRow
        BY <2>2 DEF AccountsInv, RowsOK
      <3>3. row'[q] = new /\ \A p \in People \ {q} : row'[p] = row[p]
        BY <2>2 DEF AccountsInv, RowsOK
      <3>4. /\ new = [role |-> new.role, active |-> new.active, email |-> new.email, sub |-> new.sub]
            /\ new.role = IF "role" \in DOMAIN set THEN set["role"] ELSE row[q].role
            /\ new.active = IF "active" \in DOMAIN set THEN set["active"] ELSE row[q].active
            /\ new.email = IF "email" \in DOMAIN set THEN set["email"] ELSE row[q].email
            /\ new.sub = IF "sub" \in DOMAIN set THEN set["sub"] ELSE row[q].sub
        BY DEF Written, Fields
      <3>5. \/ "role" \in DOMAIN set /\ "email" \in DOMAIN set
            \/ Exists(q)
        BY <3>1, <2>2 DEF Legal, Target, Fields
      <3>6. new.role \in Roles /\ new.email \in Addresses
        <4> HIDE DEF new, set
        <4> QED BY <3>1, <3>2, <3>4, <3>5, <2>2 DEF Legal, Exists, UserRow, AccountsInv, RowsOK
      <3>7. new \in UserRow
        <4> HIDE DEF new, set
        <4> QED BY <3>1, <3>2, <3>4, <3>6 DEF Legal, UserRow
      <3>8. row' \in [People -> UserRow]
        BY <2>2, <3>7 DEF AccountsInv, RowsOK
      <3>9. \A p \in People : /\ row'[p].active => Exists(p)'
                              /\ Exists(p)' => row'[p].email # NoOne
                              /\ Exists(p) => Exists(p)'
        <4> HIDE DEF new
        <4> QED BY <3>3, <3>6, Distinct DEF AccountsInv, RowsOK, Exists, Roles
      <3> QED BY <2>2, <3>8, <3>9 DEF RowsOK
    <2> QED BY <2>1, <2>2, CommitWrites
  <1>2. \A v \in Writers : req'[v] = req[v] \/ req'[v] = Idle
    BY DEF Commit, AccountsInv
  <1>3. \A v \in Writers : ReqOK(req[v])'
    BY <1>1, <1>2, Distinct DEF AccountsInv, ReqOK, LetIn, Legal
  <1>4. DOMAIN req' = Writers
    BY DEF AccountsInv, Commit
  <1>5. PageOK'
    BY DEF AccountsInv, PageOK, Commit
  <1> QED BY <1>1, <1>3, <1>4, <1>5 DEF AccountsInv

LEMMA ViewerTyped == ASSUME AccountsInv, NEW p \in People PROVE Viewer(p) \in Anyone
  BY Strings DEF AccountsInv, RowsOK, Exists, UserRow, Viewer

LEMMA BrowserKeeps ==
  ASSUME AccountsInv, NEW p \in Watched, get_current_user_info(p) PROVE AccountsInv'
  <1>1. p \in People
    BY Distinct
  <1>2. RowsOK' /\ DOMAIN req' = Writers /\ \A w \in Writers : ReqOK(req[w])'
    BY DEF AccountsInv, RowsOK, get_current_user_info, Allowed, Exists, ReqOK, LetIn, Legal
  <1>3. row[p].role \in Anyone
    BY <1>1, Strings DEF AccountsInv, RowsOK, get_current_user_info, Exists, UserRow
  <1>4. PageOK'
    BY <1>3 DEF AccountsInv, PageOK, get_current_user_info
  <1> QED BY <1>2, <1>4 DEF AccountsInv

LEMMA AccountsNext == AccountsInv /\ [UsersNext]_usersVars => AccountsInv'
  <1> SUFFICES ASSUME AccountsInv, [UsersNext]_usersVars PROVE AccountsInv'
    OBVIOUS
  <1>1. ASSUME NEW w \in Writers, NEW p \in People,
               NEW h \in {"create_user", "update_user", "delete_user"}, Authenticate(w, p, h)
        PROVE  AccountsInv'
    BY <1>1, AuthenticateKeeps
  <1>2. ASSUME NEW w \in Writers, NEW e \in Named, register(w, e) PROVE AccountsInv'
    BY <1>2, RegisterKeeps
  <1>3. ASSUME NEW w \in Writers, NEW e \in Named, NEW r \in Granted, create_user(w, e, r)
        PROVE  AccountsInv'
    BY <1>3, CreateKeeps
  <1>4. ASSUME NEW w \in Writers, NEW q \in People, NEW sent \in Bodies, update_user(w, q, sent)
        PROVE  AccountsInv'
    BY <1>4, UpdateKeeps
  <1>5. ASSUME NEW w \in Writers, NEW q \in People, delete_user(w, q) PROVE AccountsInv'
    BY <1>5, DeleteKeeps
  <1>6. ASSUME NEW w \in Writers, NEW i \in Identities, provision_cognito_user(w, i)
        PROVE  AccountsInv'
    BY <1>6, ProvisionKeeps
  <1>7. ASSUME NEW w \in Writers, Abandon(w) PROVE AccountsInv'
    BY <1>7, AbandonKeeps
  <1>8. ASSUME NEW w \in Writers, Commit(w) PROVE AccountsInv'
    BY <1>8, CommitKeeps
  <1>9. ASSUME NEW p \in Watched, get_current_user_info(p) PROVE AccountsInv'
    BY <1>9, BrowserKeeps
  <1>10. CASE UNCHANGED usersVars
    BY <1>10 DEF usersVars, AccountsInv, RowsOK, PageOK, Allowed, Exists, ReqOK, LetIn, Legal
  <1> QED BY <1>1, <1>2, <1>3, <1>4, <1>5, <1>6, <1>7, <1>8, <1>9, <1>10 DEF UsersNext

LEMMA AccountsInvariant == UsersSpec => []AccountsInv
  BY AccountsInit, AccountsNext, PTL DEF UsersSpec

LEMMA InvIsWhole == AccountsInv => AccountsWhole
  <1> SUFFICES ASSUME AccountsInv PROVE AccountsWhole
    OBVIOUS
  <1>1. \A w \in Writers :
          \/ req[w] = Idle
          \/ req[w].pc = "load" /\ req[w].by \in People /\ req[w].as.role \in Roles
          \/ /\ req[w].pc = "commit" /\ req[w].by \in People \cup {NoOne} /\ req[w].role \in Anyone
             /\ req[w].about \in People \cup {NoOne} /\ DOMAIN req[w].set \subseteq DOMAIN NoRow
    BY Strings DEF AccountsInv, ReqOK, LetIn, Legal
  <1>2. UsersTypeOK
    BY <1>1 DEF AccountsInv, UsersTypeOK, RowsOK, PageOK, UserRow
  <1>3. \A p, q \in People : p # q /\ Exists(p) /\ Exists(q) =>
          /\ row[p].email # row[q].email /\ row[p].email # NoOne
          /\ row[p].sub = NoOne \/ row[p].sub # row[q].sub
    BY DEF AccountsInv, RowsOK, Allowed
  <1> QED BY <1>2, <1>3 DEF AccountsWhole

\* However registrations, profiles, the users' administration and identities from outside
\* cross (user_service.py, auth_service.py), nobody gets two accounts and no two accounts
\* share an address or an identity, for any number of people and requests.
THEOREM AccountsStayWhole == UsersSpec => []AccountsWhole
  BY AccountsInvariant, InvIsWhole, PTL

-----------------------------------------------------------------------------
LEMMA CommitGrants ==
  ASSUME AccountsInv, NEW w \in Writers, Commit(w) PROVE OthersGrant
  <1> DEFINE Settled == {req[v] : v \in {u \in Writers : req[u].pc = "commit" /\ req'[u] = Idle}}
             r == req[w]
  <1>1. r \in Settled
    BY CommitWrites DEF Commit
  <1>2. Legal(r.by, r.role, r.about, r.set)
    BY CommitWrites
  <1>3. SUFFICES ASSUME NEW q \in Target(w), q \in People,
                        row' = [row EXCEPT ![q] = Written(row[q], r.set)],
                        NEW p \in People, row'[p] # row[p]
                 PROVE  /\ \/ row'[p].role = row[p].role
                           \/ row[p].role = "none" /\ row'[p].role = "customer"
                           \/ r.role = "admin"
                        /\ \/ row[p].role = "none" \/ row[p].active \/ ~row'[p].active
                           \/ r.by # p /\ r.role \in MANAGEMENT_ROLES
    <2> HIDE DEF r, Settled
    <2>1. CASE row' = row
      BY <2>1 DEF OthersGrant
    <2> QED BY <1>1, <2>1, CommitWrites DEF OthersGrant, r, Settled
  <1>4. p = q
    BY <1>3 DEF AccountsInv, RowsOK
  <1>5. /\ row'[q].role = IF "role" \in DOMAIN r.set THEN r.set["role"] ELSE row[q].role
        /\ row'[q].active = IF "active" \in DOMAIN r.set THEN r.set["active"] ELSE row[q].active
    BY <1>3 DEF AccountsInv, RowsOK, Written, Fields
  <1>6. CASE r.about = NoOne
    <2>1. row[q].role = "none"
      BY <1>3, <1>6 DEF Target, Exists
    <2> QED BY <1>2, <1>4, <1>5, <1>6, <2>1 DEF Legal, Fields
  <1>7. CASE r.about # NoOne
    <2>1. q = r.about
      BY <1>3, <1>7 DEF Target
    <2> QED BY <1>2, <1>4, <1>5, <1>7, <2>1 DEF Legal
  <1> QED BY <1>6, <1>7

LEMMA StepGrants == AccountsInv /\ [UsersNext]_usersVars => [OthersGrant]_row
  <1> SUFFICES ASSUME AccountsInv, UsersNext, row' # row PROVE OthersGrant
    BY DEF usersVars
  <1>1. \E w \in Writers : Commit(w)
    BY DEF UsersNext, Authenticate, register, create_user, update_user, delete_user,
           provision_cognito_user, Write, Abandon, get_current_user_info
  <1> QED BY <1>1, CommitGrants

\* A role changes only by a request whose caller was an administrator when it was let in, and
\* whoever has been disabled is enabled again only by somebody else's who managed then: a
\* profile saved from the row it had loaded (get_current_user, update_user) brings no right
\* back.  The role changes of an administrator who is demoted meanwhile are not excluded.
THEOREM RightsAreHeld == UsersSpec => RightsHold
  <1>1. UsersSpec => [][OthersGrant]_row
    BY AccountsInvariant, StepGrants, PTL DEF UsersSpec
  <1> QED BY <1>1 DEF RightsHold

-----------------------------------------------------------------------------
(* Pages and server.  A page asks for capabilities and offers calls; each    *)
(* call's route is open to every role that has what the page asks for.       *)

Serves(role, handlers) == \A h \in handlers : <<h, role>> \in Routes

BackOfficeCapabilities ==
  {"admin.access", "orders.read.own_created", "orders.pos.create", "products.read", "giftbox.read",
   "payments.manual.create", "inventory.read", "batches.write", "alerts.read", "alerts.update",
   "suppliers.read", "agent.chat"}
ManagementCapabilities ==
  {"dashboard.read", "products.write", "giftbox.write", "bom.write", "orders.delete",
   "payments.verify", "alerts.generate", "alerts.delete", "reports.read", "vouchers.read",
   "vouchers.write", "agent.action.execute"}

\* Who has a capability is let in where it is asked for.
LEMMA Holders ==
  ASSUME NEW name, NEW role, <<name, role>> \in CAPABILITIES
  PROVE  role \in require_capability(name)
  <1>1. PICK d : d = <<name, role>>
    OBVIOUS
  <1>2. d \in CAPABILITIES /\ d[1] = name /\ d[2] = role
    BY <1>1
  <1> QED BY <1>2 DEF require_capability

LEMMA Has ==
  ASSUME NEW name, NEW role, name \in capabilities_for(role)
  PROVE  <<name, role>> \in CAPABILITIES
  <1>1. PICK d \in CAPABILITIES : d[2] = role /\ d[1] = name
    BY DEF capabilities_for
  <1>2. d = <<d[1], d[2]>>
    BY DEF CAPABILITIES, For
  <1> QED BY <1>1, <1>2

LEMMA BackOfficeHolds ==
  ASSUME NEW name \in BackOfficeCapabilities, NEW role \in BACK_OFFICE_ROLES
  PROVE  role \in require_capability(name)
  <1>1. <<name, role>> \in CAPABILITIES
    BY DEF CAPABILITIES, For, BackOfficeCapabilities
  <1> QED BY <1>1, Holders

LEMMA ManagementHolds ==
  ASSUME NEW name \in ManagementCapabilities, NEW role \in MANAGEMENT_ROLES
  PROVE  role \in require_capability(name)
  <1>1. <<name, role>> \in CAPABILITIES
    BY DEF CAPABILITIES, For, ManagementCapabilities
  <1> QED BY <1>1, Holders

\* What having a capability says of a role.
LEMMA HasIsRole ==
  ASSUME NEW name, NEW role, name \in capabilities_for(role)
  PROVE  /\ role \in BACK_OFFICE_ROLES
         /\ name \in ManagementCapabilities => role \in MANAGEMENT_ROLES
         /\ name = "giftbox.delete" => role = "admin"
  <1>1. <<name, role>> \in CAPABILITIES
    BY Has
  <1> QED BY <1>1 DEF CAPABILITIES, For, ManagementCapabilities, BACK_OFFICE_ROLES, MANAGEMENT_ROLES

LEMMA Demanded ==
  ASSUME NEW name, NEW role, role \in require_capability(name), NEW handlers, NEW h \in handlers
  PROVE  <<h, role>> \in Demand(name, handlers)
  BY DEF Demand, For

BackOfficeCalls ==
  {"get_alerts_summary", "list_admin_variants", "list_product_categories", "list_gift_boxes",
   "list_orders", "create_order", "preorder_checkout", "list_product_batches",
   "list_component_batches", "list_gift_box_batches", "get_product_batch", "update_product_batch",
   "update_component_batch", "update_gift_box_batch", "dispose_expired_batch",
   "get_inventory_ledger", "get_batch_trace", "list_suppliers", "list_components",
   "suggest_batch_code", "create_product_batch", "create_component_batch", "create_gift_box_batch",
   "get_alerts", "update_alert", "get_agent_insights", "get_proactive_insights", "get_actions",
   "patch_proactive_insight", "get_best_sellers", "get_expiring_batches", "get_product",
   "get_gift_box", "get_gift_box_bom", "get_product_inventory", "list_products", "get_variant"}
ManagementCalls ==
  {"get_sales_report", "get_revenue_by_product", "get_revenue_by_category", "create_product",
   "update_product", "delete_product", "upload_product_image", "recrop_product_image",
   "create_variant", "update_variant", "delete_variant", "create_gift_box", "update_gift_box",
   "add_bom_item", "update_bom_item", "delete_bom_item", "list_vouchers", "create_voucher",
   "update_voucher", "delete_voucher", "delete_order", "list_reconciliation", "confirm_refund",
   "clear_resolved_alerts", "post_approve_action", "post_reject_action"}

\* The routes that the pages of the whole back office call ...
LEMMA BackOfficeServed ==
  ASSUME NEW role \in BACK_OFFICE_ROLES PROVE Serves(role, BackOfficeCalls)
  <1>1. \A name \in BackOfficeCapabilities : \A h, handlers :
          h \in handlers => <<h, role>> \in Demand(name, handlers)
    BY BackOfficeHolds, Demanded
  <1>2. role \in Anyone /\ role \in Roles
    BY DEF BACK_OFFICE_ROLES, Anyone, Roles
  <1>3. Serves(role, {"get_alerts_summary", "get_alerts", "update_alert"})
    BY <1>1 DEF BackOfficeCapabilities, Serves, Routes, AlertRoutes
  <1>4. Serves(role, {"get_agent_insights", "get_proactive_insights", "get_actions",
                      "patch_proactive_insight"})
    BY <1>1 DEF BackOfficeCapabilities, Serves, Routes, AgentRoutes
  <1>5. Serves(role, {"dispose_expired_batch"})
    BY <1>1 DEF BackOfficeCapabilities, Serves, Routes, DisposalRoutes
  <1>6. Serves(role, {"list_product_batches", "list_component_batches", "get_product_batch",
                      "update_product_batch", "update_component_batch", "suggest_batch_code",
                      "create_product_batch", "create_component_batch"})
    BY <1>1 DEF BackOfficeCapabilities, Serves, Routes, LotRoutes
  <1>7. Serves(role, {"list_gift_box_batches", "update_gift_box_batch", "create_gift_box_batch",
                      "get_expiring_batches", "get_product_inventory"})
    BY <1>1 DEF BackOfficeCapabilities, Serves, Routes, StockRoutes
  <1>8. Serves(role, {"get_inventory_ledger", "get_batch_trace", "list_components"})
    BY DEF Serves, Routes, TraceRoutes, ComponentRoutes, For
  <1>9. Serves(role, {"list_suppliers"})
    BY <1>1 DEF BackOfficeCapabilities, Serves, Routes, SupplierRoutes
  <1>10. Serves(role, {"list_gift_boxes", "get_gift_box", "get_gift_box_bom"})
    BY <1>1 DEF BackOfficeCapabilities, Serves, Routes, GiftBoxRoutes
  <1>11. Serves(role, {"list_admin_variants", "get_variant"})
    BY <1>1 DEF BackOfficeCapabilities, Serves, Routes, ProductRoutes, VariantRoutes
  <1>12. Serves(role, {"list_products", "list_product_categories", "get_product", "get_best_sellers"})
    BY <1>2 DEF Serves, Routes, CatalogueRoutes, ProductRoutes, BestSellerRoutes, For
  <1>13. Serves(role, {"list_orders", "create_order"})
    BY <1>2 DEF Serves, Routes, OrderRoutes, For
  <1>14. Serves(role, {"preorder_checkout"})
    BY <1>1 DEF BackOfficeCapabilities, Serves, Routes, OrderRoutes
  <1> QED BY <1>3, <1>4, <1>5, <1>6, <1>7, <1>8, <1>9, <1>10, <1>11, <1>12, <1>13, <1>14
          DEF Serves, BackOfficeCalls

\* ... and those that the management's call.
LEMMA ManagementServed ==
  ASSUME NEW role \in MANAGEMENT_ROLES PROVE Serves(role, ManagementCalls)
  <1>1. \A name \in ManagementCapabilities : \A h, handlers :
          h \in handlers => <<h, role>> \in Demand(name, handlers)
    BY ManagementHolds, Demanded
  <1>2. Serves(role, {"get_sales_report", "get_revenue_by_product", "get_revenue_by_category"})
    BY <1>1 DEF ManagementCapabilities, Serves, Routes, ReportRoutes
  <1>3. Serves(role, {"create_product", "upload_product_image", "recrop_product_image"})
    BY <1>1 DEF ManagementCapabilities, Serves, Routes, CatalogueRoutes
  <1>4. Serves(role, {"update_product", "delete_product"})
    BY <1>1 DEF ManagementCapabilities, Serves, Routes, ProductRoutes
  <1>5. Serves(role, {"create_variant", "update_variant", "delete_variant"})
    BY <1>1 DEF ManagementCapabilities, Serves, Routes, VariantRoutes
  <1>6. Serves(role, {"create_gift_box", "update_gift_box", "add_bom_item", "update_bom_item",
                      "delete_bom_item"})
    BY <1>1 DEF ManagementCapabilities, Serves, Routes, GiftBoxRoutes
  <1>7. Serves(role, {"list_vouchers", "create_voucher", "update_voucher", "delete_voucher"})
    BY <1>1 DEF ManagementCapabilities, Serves, Routes, VoucherRoutes
  <1>8. Serves(role, {"delete_order", "list_reconciliation", "confirm_refund"})
    BY <1>1 DEF ManagementCapabilities, Serves, Routes, OrderRoutes, PaymentRoutes
  <1>9. Serves(role, {"clear_resolved_alerts"})
    BY <1>1 DEF ManagementCapabilities, Serves, Routes, AlertRoutes
  <1>10. Serves(role, {"post_approve_action", "post_reject_action"})
    <2>1. role \in BACK_OFFICE_ROLES
      BY DEF MANAGEMENT_ROLES, BACK_OFFICE_ROLES
    <2>2. <<"agent.action.approve", role>> \in CAPABILITIES
      BY <2>1 DEF CAPABILITIES, For
    <2>3. role \in require_capability("agent.action.approve")
      BY <2>2, Holders
    <2>4. \A h \in {"post_approve_action", "post_reject_action"} :
            <<h, role>> \in Demand("agent.action.approve", {"post_approve_action", "post_reject_action"})
      BY <2>3, Demanded
    <2> QED BY <2>4 DEF Serves, Routes, AgentRoutes
  <1> QED BY <1>2, <1>3, <1>4, <1>5, <1>6, <1>7, <1>8, <1>9, <1>10 DEF Serves, ManagementCalls

\* A page that the back office may open offers what it may call; what is the management's
\* alone, or the administrator's, is offered on a page that asks for it.
Fits(needs, handlers) ==
  /\ "admin.access" \in needs
  /\ \/ handlers \subseteq BackOfficeCalls
     \/ handlers \subseteq BackOfficeCalls \cup ManagementCalls /\ needs \cap ManagementCapabilities # {}
     \/ handlers = {"delete_gift_box"} /\ "giftbox.delete" \in needs

LEMMA OfferFits ==
  ASSUME NEW needs, NEW handlers, NEW p \in Offer(needs, handlers),
         \/ handlers \subseteq BackOfficeCalls
         \/ handlers \subseteq BackOfficeCalls \cup ManagementCalls /\ needs \cap ManagementCapabilities # {}
         \/ handlers = {"delete_gift_box"} /\ "giftbox.delete" \in needs
  PROVE  Fits(p.needs, p.handlers)
  <1>1. p.handlers = handlers /\ p.needs = needs \cup {"admin.access"}
    BY DEF Offer
  <1> QED BY <1>1 DEF Fits

LEMMA PagesFit == \A p \in Pages : Fits(p.needs, p.handlers)
  <1> USE DEF BackOfficeCalls, ManagementCalls, ManagementCapabilities
  <1>1. \A p \in LayoutPage \cup DashboardPage : Fits(p.needs, p.handlers)
    BY OfferFits DEF LayoutPage, DashboardPage
  <1>2. \A p \in ProductPage : Fits(p.needs, p.handlers)
    BY OfferFits DEF ProductPage
  <1>3. \A p \in GiftBoxPage : Fits(p.needs, p.handlers)
    BY OfferFits DEF GiftBoxPage
  <1>4. \A p \in GiftBoxBomPage \cup VoucherPage : Fits(p.needs, p.handlers)
    BY OfferFits DEF GiftBoxBomPage, VoucherPage
  <1>5. \A p \in OrdersPage \cup ReconciliationPage : Fits(p.needs, p.handlers)
    BY OfferFits DEF OrdersPage, ReconciliationPage
  <1>6. \A p \in InventoryPage \cup TracePages \cup BatchPage : Fits(p.needs, p.handlers)
    BY OfferFits DEF InventoryPage, TracePages, BatchPage
  <1>7. \A p \in AlertsPage \cup AttentionWidget : Fits(p.needs, p.handlers)
    BY OfferFits DEF AlertsPage, AttentionWidget
  <1> QED BY <1>1, <1>2, <1>3, <1>4, <1>5, <1>6, <1>7 DEF Pages

LEMMA PagesAreServed ==
  ASSUME NEW role, NEW p \in Pages, p.needs \subseteq capabilities_for(role)
  PROVE  role \in BACK_OFFICE_ROLES /\ Serves(role, p.handlers)
  <1>1. Fits(p.needs, p.handlers)
    BY PagesFit
  <1>2. role \in BACK_OFFICE_ROLES /\ Serves(role, BackOfficeCalls)
    BY <1>1, HasIsRole, BackOfficeServed DEF Fits
  <1>3. p.needs \cap ManagementCapabilities # {} => Serves(role, ManagementCalls)
    BY HasIsRole, ManagementServed
  <1>4. ASSUME "giftbox.delete" \in p.needs PROVE Serves(role, {"delete_gift_box"})
    <2>1. <<"giftbox.delete", role>> \in CAPABILITIES
      BY <1>4, Has
    <2>2. <<"delete_gift_box", role>> \in Demand("giftbox.delete", {"delete_gift_box"})
      BY <2>1, Holders, Demanded
    <2> QED BY <2>2 DEF Serves, Routes, GiftBoxRoutes
  <1> QED BY <1>1, <1>2, <1>3, <1>4 DEF Fits, Serves

\* What is offered to a role is served to it, on every order it sees in a list, but for what
\* the order service keeps to the management.
LEMMA OfferedIsServed ==
  ASSUME NEW role \in Anyone, NEW tie \in Ties,
         NEW h \in (Offered[role] \cup OfferedFor[role][tie]) \ Served[role][tie]
  PROVE  <<h, tie>> \in Withheld(role)
  <1>1. Served[role][tie] = {r[1] : r \in {s \in Routes : s[2] = role}} \cup ServedFor(role, tie)
    BY DEF Served
  <1>2. CASE h \in Offered[role]
    <2>1. PICK p \in Pages : p.needs \subseteq capabilities_for(role) /\ h \in p.handlers
      BY <1>2 DEF Offered
    <2>2. <<h, role>> \in Routes
      BY <2>1, PagesAreServed DEF Serves
    <2>3. PICK r : r = <<h, role>>
      OBVIOUS
    <2>4. r \in Routes /\ r[1] = h /\ r[2] = role
      BY <2>2, <2>3
    <2> QED BY <1>1, <2>4
  <1>3. CASE h \in OfferedFor[role][tie]
    <2>1. /\ "orders.read.own_created" \in capabilities_for(role) /\ tie \in Listed(role)
          /\ h \in OrderPage
      BY <1>3 DEF OfferedFor
    <2>2. role \in BACK_OFFICE_ROLES /\ role # Visitor
      BY <2>1, HasIsRole DEF BACK_OFFICE_ROLES, Visitor
    <2>3. can_access_order(role, tie)
      BY <2>1, <2>2 DEF Listed, can_access_order
    <2>4. role \in require_capability("payments.manual.create")
      BY <2>2, BackOfficeHolds DEF BackOfficeCapabilities
    <2>5. h \notin ServedFor(role, tie)
      BY <1>1
    <2>6. h \in {"update_order_status", "cancel_order"}
      BY <2>1, <2>3, <2>4, <2>5 DEF OrderPage, ServedFor
    <2>7. role \notin MANAGEMENT_ROLES /\ (h = "cancel_order" => tie # "placed")
      BY <2>2, <2>5, <2>6 DEF ServedFor
    <2> QED BY <2>6, <2>7 DEF Withheld
  <1> QED BY <1>2, <1>3

LEMMA RefusedIsWithheld ==
  ASSUME NEW role \in Anyone PROVE Refusals[role][role] \subseteq Withheld(role)
  <1>1. Refusals[role][role] = UNION {((Offered[role] \cup OfferedFor[role][tie])
                                         \ Served[role][tie]) \X {tie} : tie \in Ties}
    BY DEF Refusals
  <1>2. ASSUME NEW c \in Refusals[role][role] PROVE c \in Withheld(role)
    <2>1. PICK tie \in Ties :
            c \in ((Offered[role] \cup OfferedFor[role][tie]) \ Served[role][tie]) \X {tie}
      BY <1>1, <1>2
    <2>2. PICK h \in (Offered[role] \cup OfferedFor[role][tie]) \ Served[role][tie] : c = <<h, tie>>
      BY <2>1
    <2> QED BY <2>2, OfferedIsServed
  <1> QED BY <1>2

\* Nothing is offered to a visitor.
LEMMA NothingOffered ==
  ASSUME NEW tie \in Ties PROVE Offered[Visitor] \cup OfferedFor[Visitor][tie] = {}
  <1>1. Visitor \in Anyone /\ Visitor \notin BACK_OFFICE_ROLES
    BY DEF Anyone, Visitor, BACK_OFFICE_ROLES
  <1>2. Offered[Visitor] = {}
    BY <1>1, PagesAreServed DEF Offered
  <1>3. OfferedFor[Visitor][tie] = {}
    BY <1>1, HasIsRole DEF OfferedFor
  <1> QED BY <1>2, <1>3

LEMMA NothingRefused ==
  ASSUME NEW viewer \in Anyone PROVE Refusals[viewer][Visitor] = {}
  <1>1. Refusals[viewer][Visitor] = UNION {((Offered[Visitor] \cup OfferedFor[Visitor][tie])
                                              \ Served[viewer][tie]) \X {tie} : tie \in Ties}
    BY Strings DEF Refusals
  <1> QED BY <1>1, NothingOffered

\* What a browser knows is true, or known to be old.
Told(p) == page[p].role = Visitor \/ page[p].role = Viewer(p) \/ page[p].old
PagesInv == AccountsInv /\ \A p \in Watched : Told(p)

LEMMA PagesBegin == UsersInit => PagesInv
  <1> SUFFICES ASSUME UsersInit PROVE PagesInv OBVIOUS
  <1>1. \A p \in Watched : Told(p)
    BY DEF UsersInit, Told
  <1> QED BY <1>1, AccountsInit DEF PagesInv

LEMMA PagesStay == PagesInv /\ [UsersNext]_usersVars => PagesInv'
  <1> SUFFICES ASSUME PagesInv, [UsersNext]_usersVars PROVE PagesInv'
    OBVIOUS
  <1>1. AccountsInv'
    BY AccountsNext DEF PagesInv
  <1>2. page \in [Watched -> [role : Anyone, old : BOOLEAN]] /\ Watched \subseteq People
    BY Distinct DEF PagesInv, AccountsInv, PageOK
  <1>3. SUFFICES ASSUME NEW p \in Watched PROVE Told(p)'
    BY <1>1 DEF PagesInv
  <1>4. Told(p)
    BY DEF PagesInv
  <1>5. CASE UNCHANGED <<row, page>>
    BY <1>4, <1>5 DEF Told, Viewer
  <1>6. ASSUME NEW w \in Writers, Commit(w) PROVE Told(p)'
    <2>1. /\ page'[p].role = page[p].role
          /\ page'[p].old = (page[p].old \/ (page[p].role # Visitor /\ row'[p] # row[p]))
      BY <1>2, <1>6 DEF Commit
    <2>2. CASE row'[p] = row[p]
      BY <1>4, <2>1, <2>2 DEF Told, Viewer
    <2>3. CASE row'[p] # row[p]
      BY <1>4, <2>1, <2>3 DEF Told
    <2> QED BY <2>2, <2>3
  <1>7. ASSUME NEW q \in Watched, get_current_user_info(q) PROVE Told(p)'
    <2>1. CASE p = q
      BY <1>2, <1>7, <2>1 DEF get_current_user_info, Told, Viewer
    <2>2. CASE p # q
      BY <1>2, <1>4, <1>7, <2>2 DEF get_current_user_info, Told, Viewer
    <2> QED BY <2>1, <2>2
  <1>8. UNCHANGED <<row, page>> \/ (\E w \in Writers : Commit(w))
          \/ (\E q \in Watched : get_current_user_info(q))
    BY DEF UsersNext, usersVars, Authenticate, register, create_user, update_user, delete_user,
           provision_cognito_user, Write, Abandon
  <1> QED BY <1>5, <1>6, <1>7, <1>8

\* Page and server agree, for every page, role and tie to an order: what a page offers to
\* somebody with the capabilities it asks for (core/capabilities.py) is not refused by the
\* route or the service behind it, unless the account has changed since the browser asked,
\* or it is a status change, or the cancellation of an order somebody else placed, by who
\* does not manage (AdminOrderDetailPage.tsx against order_service.py:498, 745).
THEOREM PagesAgree == UsersSpec => []PagesServed
  <1>1. ASSUME PagesInv, NEW p \in Watched, ~page[p].old PROVE Refused(p) \subseteq Withheld(page[p].role)
    <2>1. p \in People /\ page[p].role \in Anyone
      BY <1>1, Distinct DEF PagesInv, AccountsInv, PageOK
    <2>2. CASE page[p].role = Visitor
      BY <1>1, <2>1, <2>2, NothingRefused, ViewerTyped DEF PagesInv, Refused
    <2>3. CASE page[p].role = Viewer(p)
      BY <2>1, <2>3, RefusedIsWithheld DEF Refused
    <2> QED BY <1>1, <2>2, <2>3 DEF PagesInv, Told
  <1>2. PagesInv => PagesServed
    BY <1>1 DEF PagesServed
  <1> QED BY <1>2, PagesBegin, PagesStay, PTL DEF UsersSpec
=============================================================================
