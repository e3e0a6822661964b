--------------------------- MODULE CheckoutProofs ---------------------------
(***************************************************************************)
(* One order per key, and the limits of the vouchers, for any number of    *)
(* customers, tabs, keys, requests and vouchers.                           *)
(***************************************************************************)
EXTENDS Checkout, FiniteSetTheorems, TLAPS

\* What is sent, stored or ordered was drawn as an attempt.
Drawn(k) == k \in Keys /\ attempt[k] # NullAttempt
Attempted ==
  /\ \A u \in Customers : stored[u] # NoKey => Drawn(stored[u])
  /\ \A r \in Requests : req[r].pc # "idle" => Drawn(req[r].key)
  /\ \A r \in Requests : req[r].pc = "creating" => Code(r) \in Vouchers
  /\ \A o \in Orders : order[o].status # "none" => Drawn(order[o].key)

\* Only one request has a voucher locked, and it may still have it.
Reserved ==
  \A r \in Requests : \A v \in req[r].held :
    /\ HasUses(v) /\ MayUse(v, Customer(r))
    /\ ~HeldByOthers(v, r)

\* A live order is what a cancellation works on.
CancelsLive == \A o \in Orders : cancel[o].on => order[o].status = "live"

IInv ==
  /\ TypeOK /\ Attempted /\ OnePerKey /\ Reserved /\ CancelsLive
  /\ UsesCounted /\ PersonalLimitsKept

----------------------------------------------------------------------------
(* Attempts                                                                *)

\* An attempt, once drawn, is never changed.
LEMMA AttemptsStay ==
  ASSUME TypeOK, [Next]_vars, NEW k \in Keys, attempt[k] # NullAttempt
  PROVE  attempt'[k] = attempt[k]
<1>1. CASE \E t \in Tabs, r \in Requests, j \in Keys : Submit(t, r, j)
  <2>1. PICK t \in Tabs, r \in Requests, j \in Keys : Submit(t, r, j)
    BY <1>1
  <2>2. CASE attempt' = attempt
    BY <2>2
  <2>3. CASE attempt' # attempt
    <3>1. attempt[j] = NullAttempt
      BY <2>1, <2>3, Numbered DEF Submit, Attempt
    <3>2. PICK v \in Vouchers \cup {NoCode} :
            attempt' = [attempt EXCEPT ![j] = [customer |-> Owner[t], code |-> v]]
      BY <2>1, <2>3 DEF Submit, Attempt
    <3> QED
      BY <3>1, <3>2 DEF TypeOK
  <2> QED
    BY <2>2, <2>3
<1>2. CASE ~ \E t \in Tabs, r \in Requests, j \in Keys : Submit(t, r, j)
  BY <1>2 DEF Next, vars, browser, database, Reload, Receive, Discard, Disconnect, Serve,
     LockCustomer, Replay, Create, Redeem, Commit, Fail, BeginCancel, LockVoucher,
     CommitCancel, FailCancel, EditVoucher, EditGoods
<1> QED
  BY <1>1, <1>2

\* Only commits of checkouts and cancellations, and managers, write what matters here.
LEMMA OthersReadOnly ==
  ASSUME [Next]_vars
  PROVE  \/ \E r \in Requests : Commit(r)
         \/ \E o \in Orders : CommitCancel(o)
         \/ \E v \in Vouchers, n \in Limits, on \in BOOLEAN : EditVoucher(v, n, on)
         \/ UNCHANGED <<order, voucher, checkout>>
BY DEF Next, vars, browser, database, Submit, Reload, Receive, Discard, Disconnect, Serve,
   LockCustomer, Replay, Create, Redeem, Fail, BeginCancel, LockVoucher, FailCancel, EditGoods

----------------------------------------------------------------------------
(* Types                                                                   *)

Request == [pc : Progress, key : Keys \cup {NoKey}, tab : Tabs \cup {NoTab}, held : SUBSET Vouchers]

\* What TypeOK and Attempted say of one request.
Proper(q) ==
  /\ q \in Request
  /\ q.held = (IF q.pc = "priced" THEN {attempt[q.key].code} \ {NoCode} ELSE {})
  /\ q.pc # "idle" => Drawn(q.key)
  /\ q.pc = "creating" => attempt[q.key].code \in Vouchers

AllProper == req \in [Requests -> Request] /\ \A r \in Requests : Proper(req[r])

\* The rest of TypeOK and Attempted.
RowsTyped ==
  /\ attempt \in [Keys -> [customer : Customers \cup {NoCustomer}, code : Vouchers \cup {NoCode}]]
  /\ stored \in [Customers -> Keys \cup {NoKey}]
  /\ page \in [Tabs -> {"ready", "waiting", "stuck", "done"}]
  /\ checkout \in [Keys -> Orders \cup {NoOrder}]
  /\ order \in [Orders -> [status : {"none", "live", "cancelled"}, key : Keys \cup {NoKey}]]
  /\ voucher \in [Vouchers -> [used : Nat, limit : Nat, active : BOOLEAN]]
  /\ cancel \in [Orders -> [on : BOOLEAN, held : SUBSET Vouchers]]
  /\ known \in SUBSET Keys /\ refused \in SUBSET Keys /\ faults \in Nat
  /\ \A u \in Customers : stored[u] # NoKey => Drawn(stored[u])
  /\ \A o \in Orders : order[o].status # "none" => Drawn(order[o].key)

LEMMA TypesSplit ==
  TypeOK /\ Attempted <=> AllProper /\ RowsTyped /\ onSale \in SUBSET Goods
BY DEF TypeOK, Attempted, AllProper, RowsTyped, Proper, Request, Code

LEMMA TypesSplitPrimed ==
  TypeOK' /\ Attempted' <=> AllProper' /\ RowsTyped' /\ onSale' \in SUBSET Goods
BY DEF TypeOK, Attempted, AllProper, RowsTyped, Proper, Request, Code

LEMMA DrawnStays ==
  ASSUME TypeOK, [Next]_vars, NEW k, Drawn(k)
  PROVE  Drawn(k)' /\ attempt'[k] = attempt[k]
BY AttemptsStay DEF Drawn, NullAttempt

\* A step that changes one request keeps the others proper.
LEMMA OneRequest ==
  ASSUME TypeOK, AllProper, [Next]_vars, NEW r \in Requests, NEW q, Proper(q)',
         req' = [req EXCEPT ![r] = q]
  PROVE  AllProper'
<1>1. ASSUME NEW s \in Requests PROVE Proper(req[s])'
  <2>1. CASE s = r
    BY <2>1 DEF AllProper
  <2>2. CASE s # r
    <3>1. req'[s] = req[s] /\ Proper(req[s])
      BY <2>2 DEF AllProper
    <3> QED
      BY <3>1, DrawnStays DEF Proper
  <2> QED
    BY <2>1, <2>2
<1>2. req' \in [Requests -> Request]
  BY DEF AllProper, Proper, Request
<1> QED
  BY <1>1, <1>2 DEF AllProper

LEMMA NoRequest ==
  ASSUME TypeOK, AllProper, [Next]_vars, req' = req
  PROVE  AllProper'
BY DrawnStays DEF AllProper, Proper

\* A transaction that goes on stays proper.
LEMMA GoesOn ==
  ASSUME TypeOK, AllProper, [Next]_vars, NEW r \in Requests, req[r].pc # "idle",
         NEW pc \in Progress, NEW held \in SUBSET Vouchers, Goes(r, pc, held),
         held = (IF pc = "priced" THEN {Code(r)} \ {NoCode} ELSE {}),
         pc = "creating" => Code(r) \in Vouchers
  PROVE  AllProper'
<1>1. Proper(req[r])
  BY DEF AllProper
<1>2. PICK q : q = [pc |-> pc, key |-> req[r].key, tab |-> req[r].tab, held |-> held]
  OBVIOUS
<1>3. Proper(q)'
  BY <1>1, <1>2, DrawnStays DEF Proper, Request, Code
<1> QED
  BY <1>2, <1>3, OneRequest DEF Goes

LEMMA Answered ==
  ASSUME TypeOK, AllProper, [Next]_vars, NEW r \in Requests, req[r].pc # "idle",
         NEW a \in {"ok", "invalid", "missing", "error"}, Answer(r, a)
  PROVE  AllProper'
BY GoesOn DEF Answer, Progress

LEMMA SubmitProper ==
  ASSUME TypeOK, Attempted, [Next]_vars,
         NEW t \in Tabs, NEW r \in Requests, NEW k \in Keys, Submit(t, r, k)
  PROVE  AllProper' /\ Drawn(k)'
<1>1. AllProper /\ RowsTyped
  BY TypesSplit
<1>2. Drawn(k)'
  <2>1. CASE k = stored[Owner[t]]
    BY <2>1, DrawnStays, TabsOwned, Absent DEF Attempted
  <2>2. CASE k # stored[Owner[t]]
    <3>1. PICK v \in Vouchers \cup {NoCode} :
            attempt' = [attempt EXCEPT ![k] = [customer |-> Owner[t], code |-> v]]
      BY <2>2 DEF Submit, Attempt
    <3>2. attempt'[k] = [customer |-> Owner[t], code |-> v] /\ Owner[t] # NoCustomer
      BY <3>1, <1>1, TabsOwned, Absent DEF RowsTyped
    <3> QED
      BY <3>2 DEF Drawn, NullAttempt
  <2> QED
    BY <2>1, <2>2
<1>3. PICK q : q = [pc |-> "sent", key |-> k, tab |-> t, held |-> {}]
  OBVIOUS
<1>4. Proper(q)'
  BY <1>2, <1>3 DEF Proper, Request, Progress
<1>5. req' = [req EXCEPT ![r] = q]
  BY <1>3 DEF Submit
<1> QED
  BY <1>1, <1>2, <1>4, <1>5, OneRequest

LEMMA NextProper ==
  ASSUME TypeOK, Attempted, Next
  PROVE  AllProper'
<1>0. [Next]_vars /\ AllProper
  BY TypesSplit
<1>1. CASE \E t \in Tabs, r \in Requests, k \in Keys : Submit(t, r, k)
  BY <1>0, <1>1, SubmitProper
<1>2. ASSUME NEW r \in Requests, Receive(r) \/ Discard(r)
      PROVE  AllProper'
  <2>1. PICK q : q = NullRequest
    OBVIOUS
  <2>2. Proper(q)'
    BY <2>1 DEF NullRequest, Proper, Request, Progress
  <2>3. req' = [req EXCEPT ![r] = q]
    BY <2>1, <1>2 DEF Receive, Discard
  <2> QED
    BY <1>0, <2>2, <2>3, OneRequest
<1>3. ASSUME NEW r \in Requests, Disconnect(r)
      PROVE  AllProper'
  <2>1. Proper(req[r])
    BY <1>0 DEF AllProper
  <2>2. PICK q : q = [req[r] EXCEPT !.tab = NoTab]
    OBVIOUS
  <2>3. Proper(q)'
    BY <1>0, <2>1, <2>2, DrawnStays DEF Proper, Request
  <2>4. req' = [req EXCEPT ![r] = q]
    BY <1>3, <2>2 DEF Disconnect
  <2> QED
    BY <1>0, <2>3, <2>4, OneRequest
<1>4. ASSUME NEW r \in Requests, Serve(r) \/ Fail(r)
      PROVE  AllProper'
  <2>1. CASE LockCustomer(r)
    BY <1>0, <2>1, GoesOn DEF LockCustomer, Progress
  <2>2. CASE Replay(r)
    BY <1>0, <2>2, Answered DEF Replay
  <2>3. CASE Create(r)
    <3>1. Code(r) \in Vouchers \cup {NoCode}
      BY <2>3 DEF Create, Attempted, Drawn, TypeOK, Code
    <3>2. CASE Code(r) = NoCode /\ Goes(r, "priced", {})
      BY <1>0, <2>3, <3>2, GoesOn DEF Create, Progress
    <3>3. CASE Code(r) # NoCode /\ Goes(r, "creating", {})
      BY <1>0, <2>3, <3>1, <3>3, GoesOn DEF Create, Progress
    <3>4. CASE Answer(r, "invalid") \/ Answer(r, "missing")
      BY <1>0, <2>3, <3>4, Answered DEF Create
    <3> QED
      BY <2>3, <3>2, <3>3, <3>4 DEF Create
  <2>4. CASE Redeem(r)
    <3>1. Code(r) \in Vouchers /\ Code(r) # NoCode
      BY <2>4, Absent DEF Redeem, Attempted
    <3>2. CASE Goes(r, "priced", {Code(r)})
      BY <1>0, <2>4, <3>1, <3>2, GoesOn DEF Redeem, Progress
    <3>3. CASE Answer(r, "invalid") \/ Answer(r, "missing")
      BY <1>0, <2>4, <3>3, Answered DEF Redeem
    <3> QED
      BY <2>4, <3>2, <3>3 DEF Redeem
  <2>5. CASE Commit(r)
    BY <1>0, <2>5, Answered DEF Commit
  <2>6. CASE Fail(r)
    BY <1>0, <2>6, Answered DEF Fail, InTransaction
  <2> QED
    BY <1>4, <2>1, <2>2, <2>3, <2>4, <2>5, <2>6 DEF Serve
<1>5. CASE req' = req
  BY <1>0, <1>5, NoRequest
<1> QED
  BY <1>1, <1>2, <1>3, <1>4, <1>5
     DEF Next, Reload, BeginCancel, LockVoucher, CommitCancel, FailCancel, EditVoucher, EditGoods

\* Managers choose among the goods.
LEMMA NextOnSale ==
  ASSUME TypeOK, Next
  PROVE  onSale' \in SUBSET Goods
<1>1. ASSUME NEW g \in Goods, EditGoods(g) PROVE onSale' \in SUBSET Goods
  BY <1>1 DEF EditGoods, TypeOK
<1>2. CASE onSale' = onSale
  BY <1>2 DEF TypeOK
<1> QED
  BY <1>1, <1>2 DEF Next, database, Submit, Reload, Receive, Discard, Disconnect, Serve,
     LockCustomer, Replay, Create, Redeem, Commit, Fail, BeginCancel, LockVoucher, CommitCancel,
     FailCancel, EditVoucher

\* The counters of vouchers stay numbers when some uses are added or returned.
LEMMA UsesTyped ==
  ASSUME voucher \in [Vouchers -> [used : Nat, limit : Nat, active : BOOLEAN]], NEW S,
         \/ voucher' = [v \in Vouchers |-> [voucher[v] EXCEPT !.used = IF v \in S THEN @ + 1 ELSE @]]
         \/ voucher' = [v \in Vouchers |-> [voucher[v] EXCEPT !.used =
                          IF v \in S THEN UseReturned(@) ELSE @]]
  PROVE  voucher' \in [Vouchers -> [used : Nat, limit : Nat, active : BOOLEAN]]
<1>1. ASSUME NEW v \in Vouchers
      PROVE  voucher'[v] \in [used : Nat, limit : Nat, active : BOOLEAN]
  <2>1. voucher[v] \in [used : Nat, limit : Nat, active : BOOLEAN]
    OBVIOUS
  <2>2. voucher[v].used + 1 \in Nat /\ UseReturned(voucher[v].used) \in Nat
    BY <2>1 DEF UseReturned
  <2>3. \/ voucher'[v] = voucher[v]
        \/ voucher'[v] = [voucher[v] EXCEPT !.used = voucher[v].used + 1]
        \/ voucher'[v] = [voucher[v] EXCEPT !.used = UseReturned(voucher[v].used)]
    <3> HIDE DEF UseReturned
    <3>1. voucher[v] = [voucher[v] EXCEPT !.used = voucher[v].used]
      BY <2>1
    <3> QED
      BY <3>1
  <2> HIDE DEF UseReturned
  <2> QED
    BY <2>1, <2>2, <2>3
<1> QED
  <2>1. DOMAIN voucher' = Vouchers /\ voucher' = [v \in Vouchers |-> voucher'[v]]
    OBVIOUS
  <2> QED
    BY <1>1, <2>1

LEMMA NextRows ==
  ASSUME TypeOK, Attempted, CancelsLive, Next
  PROVE  RowsTyped'
<1>0. [Next]_vars /\ AllProper /\ RowsTyped
  BY TypesSplit
<1>1. ASSUME NEW k, Drawn(k) PROVE Drawn(k)'
  BY <1>0, <1>1, DrawnStays
<1>2. ASSUME NEW t \in Tabs, NEW r \in Requests, NEW k \in Keys, Submit(t, r, k)
      PROVE  RowsTyped'
  <2>1. Drawn(k)'
    BY <1>0, <1>2, SubmitProper
  <2>2. attempt' \in [Keys -> [customer : Customers \cup {NoCustomer},
                              code : Vouchers \cup {NoCode}]]
    <3>1. CASE attempt' = attempt
      BY <1>0, <3>1 DEF RowsTyped
    <3>2. CASE attempt' # attempt
      <4>1. PICK v \in Vouchers \cup {NoCode} :
              attempt' = [attempt EXCEPT ![k] = [customer |-> Owner[t], code |-> v]]
        BY <1>2, <3>2 DEF Submit, Attempt
      <4> QED
        BY <1>0, <4>1, TabsOwned DEF RowsTyped
    <3> QED
      BY <3>1, <3>2
  <2>3. stored' = stored \/ stored' = [stored EXCEPT ![Owner[t]] = k]
    BY <1>2 DEF Submit, Attempt
  <2>4. /\ stored' \in [Customers -> Keys \cup {NoKey}]
        /\ (\A u \in Customers : stored[u] # NoKey => Drawn(stored[u]))'
    <3>1. CASE stored' = stored
      BY <1>0, <1>1, <3>1 DEF RowsTyped
    <3>2. CASE stored' = [stored EXCEPT ![Owner[t]] = k]
      <4>1. Owner[t] \in Customers /\ stored \in [Customers -> Keys \cup {NoKey}]
        BY <1>0, TabsOwned DEF RowsTyped
      <4>2. \A u \in Customers : stored'[u] = IF u = Owner[t] THEN k ELSE stored[u]
        BY <3>2, <4>1
      <4>3. \A u \in Customers : stored[u] # NoKey => Drawn(stored[u])
        BY <1>0 DEF RowsTyped
      <4>4. \A u \in Customers : stored'[u] # NoKey => Drawn(stored[u])'
        <5> SUFFICES ASSUME NEW u \in Customers, stored'[u] # NoKey PROVE Drawn(stored[u])'
          OBVIOUS
        <5>1. CASE u = Owner[t]
          BY <2>1, <4>2, <5>1 DEF Drawn
        <5>2. CASE u # Owner[t]
          BY <1>1, <4>2, <4>3, <5>2 DEF Drawn
        <5> QED
          BY <5>1, <5>2
      <4> QED
        BY <3>2, <4>1, <4>4
    <3> QED
      BY <2>3, <3>1, <3>2
  <2>5. /\ page' \in [Tabs -> {"ready", "waiting", "stuck", "done"}]
        /\ UNCHANGED <<checkout, order, voucher, cancel, known, refused, faults>>
    BY <1>0, <1>2 DEF Submit, RowsTyped, database
  <2> QED
    BY <1>0, <1>1, <2>2, <2>4, <2>5 DEF RowsTyped
<1>3. ASSUME NEW r \in Requests, Receive(r)
      PROVE  RowsTyped'
  <2>1. Drawn(req[r].key) /\ req[r].tab \in Tabs /\ Owner[req[r].tab] \in Customers
    BY <1>0, <1>3, TabsOwned DEF Receive, AllProper, Proper, Request
  <2>2. /\ stored' \in [Customers -> Keys \cup {NoKey}]
        /\ \A u \in Customers : stored'[u] # NoKey => stored'[u] = stored[u]
    BY <1>0, <1>3, <2>1 DEF Receive, RowsTyped
  <2>3. page' \in [Tabs -> {"ready", "waiting", "stuck", "done"}]
        /\ known' \in SUBSET Keys /\ refused' \in SUBSET Keys
    BY <1>0, <1>3, <2>1 DEF Receive, RowsTyped, Drawn
  <2> QED
    BY <1>0, <1>1, <1>3, <2>2, <2>3 DEF Receive, RowsTyped, database
<1>4. CASE \/ \E t \in Tabs : Reload(t)
           \/ \E r \in Requests : \/ Discard(r) \/ Disconnect(r) \/ Fail(r) \/ LockCustomer(r)
                                  \/ Replay(r) \/ Create(r) \/ Redeem(r)
           \/ \E o \in Orders : BeginCancel(o) \/ LockVoucher(o) \/ FailCancel(o)
           \/ \E g \in Goods : EditGoods(g)
  <2>1. UNCHANGED <<attempt, stored, checkout, order, voucher, known, refused>>
    BY <1>4 DEF Reload, Discard, Disconnect, Fail, LockCustomer, Replay, Create, Redeem,
       BeginCancel, LockVoucher, FailCancel, EditGoods, browser, database
  <2>2. page' \in [Tabs -> {"ready", "waiting", "stuck", "done"}]
    BY <1>0, <1>4 DEF RowsTyped, Reload, Discard, Disconnect, Fail, LockCustomer, Replay,
       Create, Redeem, BeginCancel, LockVoucher, FailCancel, EditGoods, browser
  <2>3. cancel' \in [Orders -> [on : BOOLEAN, held : SUBSET Vouchers]]
    <3>1. CASE cancel' = cancel
      BY <1>0, <3>1 DEF RowsTyped
    <3>2. ASSUME NEW o \in Orders, BeginCancel(o) \/ LockVoucher(o) \/ FailCancel(o)
          PROVE  cancel' \in [Orders -> [on : BOOLEAN, held : SUBSET Vouchers]]
      <4>1. CASE BeginCancel(o)
        BY <1>0, <4>1 DEF RowsTyped, BeginCancel
      <4>2. CASE LockVoucher(o)
        <5>1. PICK v \in Used(o) \ cancel[o].held :
                cancel' = [cancel EXCEPT ![o].held = @ \cup {v}]
          BY <4>2 DEF LockVoucher
        <5>2. v \in Vouchers
          BY <1>0, <4>2 DEF LockVoucher, CancelsLive, RowsTyped, Used, Drawn
        <5> QED
          BY <1>0, <5>1, <5>2 DEF RowsTyped
      <4>3. CASE FailCancel(o)
        BY <1>0, <4>3 DEF RowsTyped, FailCancel, NullCancel
      <4> QED
        BY <3>2, <4>1, <4>2, <4>3
    <3> QED
      BY <1>4, <3>1, <3>2 DEF Reload, Discard, Disconnect, Fail, LockCustomer, Replay, Create,
         Redeem, EditGoods, database
  <2>4. faults' = faults \/ faults' = faults + 1
    BY <1>4 DEF Reload, Discard, Disconnect, Fail, LockCustomer, Replay,
       Create, Redeem, BeginCancel, LockVoucher, FailCancel, EditGoods, Fault
  <2> QED
    BY <1>0, <1>1, <2>1, <2>2, <2>3, <2>4 DEF RowsTyped
<1>5. ASSUME NEW r \in Requests, Commit(r)
      PROVE  RowsTyped'
  <2>1. Drawn(req[r].key)
    BY <1>0, <1>5 DEF Commit, AllProper, Proper
  <2>2. UNCHANGED <<attempt, stored, page, known, refused, cancel, faults>>
    BY <1>5 DEF Commit, browser
  <2>3. CASE UNCHANGED <<checkout, order, voucher>>
    BY <1>0, <1>1, <2>2, <2>3 DEF RowsTyped
  <2>4. CASE ~UNCHANGED <<checkout, order, voucher>>
    <3>1. PICK o \in Orders :
            /\ order' = [order EXCEPT ![o] = [status |-> "live", key |-> req[r].key]]
            /\ checkout' = [checkout EXCEPT ![req[r].key] = o]
      BY <1>5, <2>4 DEF Commit
    <3>2. /\ order' \in [Orders -> [status : {"none", "live", "cancelled"},
                                    key : Keys \cup {NoKey}]]
          /\ \A p \in Orders : order'[p].status # "none" => Drawn(order'[p].key)
      BY <1>0, <2>1, <3>1 DEF RowsTyped, Drawn
    <3>3. checkout' \in [Keys -> Orders \cup {NoOrder}]
      BY <1>0, <2>1, <3>1 DEF RowsTyped, Drawn
    <3>4. voucher' = [v \in Vouchers |-> [voucher[v] EXCEPT !.used =
                        IF v \in req[r].held THEN @ + 1 ELSE @]]
      BY <1>5, <2>4 DEF Commit
    <3>5. voucher' \in [Vouchers -> [used : Nat, limit : Nat, active : BOOLEAN]]
      <4>1. voucher \in [Vouchers -> [used : Nat, limit : Nat, active : BOOLEAN]]
        BY <1>0 DEF RowsTyped
      <4> QED
        BY <3>4, <4>1, UsesTyped
    <3> QED
      BY <1>0, <1>1, <2>2, <3>2, <3>3, <3>5 DEF RowsTyped
  <2> QED
    BY <2>3, <2>4
<1>6. ASSUME NEW o \in Orders, CommitCancel(o)
      PROVE  RowsTyped'
  <2>1. /\ order' \in [Orders -> [status : {"none", "live", "cancelled"}, key : Keys \cup {NoKey}]]
        /\ \A p \in Orders : order'[p].status # "none" => Drawn(order'[p].key)
    BY <1>0, <1>6 DEF CommitCancel, CancelsLive, RowsTyped
  <2>2. voucher' \in [Vouchers -> [used : Nat, limit : Nat, active : BOOLEAN]]
    <3>1. voucher \in [Vouchers -> [used : Nat, limit : Nat, active : BOOLEAN]]
      BY <1>0 DEF RowsTyped
    <3>2. voucher' = [v \in Vouchers |-> [voucher[v] EXCEPT !.used =
                        IF v \in Used(o) THEN UseReturned(@) ELSE @]]
      BY <1>6 DEF CommitCancel
    <3> QED
      BY <3>1, <3>2, UsesTyped
  <2>3. cancel' \in [Orders -> [on : BOOLEAN, held : SUBSET Vouchers]]
    BY <1>0, <1>6 DEF CommitCancel, RowsTyped, NullCancel
  <2> QED
    BY <1>0, <1>1, <1>6, <2>1, <2>2, <2>3 DEF CommitCancel, RowsTyped, browser
<1>7. ASSUME NEW v \in Vouchers, NEW n \in Limits, NEW on \in BOOLEAN, EditVoucher(v, n, on)
      PROVE  RowsTyped'
  <2>1. voucher' \in [Vouchers -> [used : Nat, limit : Nat, active : BOOLEAN]]
    BY <1>0, <1>7, VoucherLimits, ZenonT(40) DEF EditVoucher, RowsTyped
  <2> QED
    BY <1>0, <1>1, <1>7, <2>1 DEF EditVoucher, RowsTyped, browser
<1> QED
  BY <1>2, <1>3, <1>4, <1>5, <1>6, <1>7 DEF Next, Serve

----------------------------------------------------------------------------
(* Who uses what                                                           *)

\* A checkout writes nothing, or a new order of its key with the vouchers it has locked.
Places(r, o) ==
  /\ order[o].status = "none"
  /\ order' = [order EXCEPT ![o] = [status |-> "live", key |-> req[r].key]]
  /\ checkout[req[r].key] = NoOrder
  /\ checkout' = [checkout EXCEPT ![req[r].key] = o]
  /\ voucher' = [v \in Vouchers |-> [voucher[v] EXCEPT !.used =
                   IF v \in req[r].held THEN @ + 1 ELSE @]]

LEMMA Committed ==
  ASSUME TypeOK, Attempted, NEW r \in Requests, Commit(r)
  PROVE  /\ Drawn(req[r].key) /\ req[r].pc = "priced" /\ req'[r].held = {}
         /\ attempt' = attempt /\ cancel' = cancel
         /\ UNCHANGED <<order, voucher, checkout>> \/ \E o \in Orders : Places(r, o)
<1>1. Drawn(req[r].key) /\ req[r].pc = "priced"
  BY DEF Commit, Attempted
<1>2. PICK a \in {"ok", "error"} : Goes(r, a, {})
  BY DEF Commit, Answer
<1>3. req'[r].held = {}
  BY <1>2 DEF Goes, TypeOK
<1>4. UNCHANGED <<order, voucher, checkout>> \/ \E o \in Orders : Places(r, o)
  BY Numbered DEF Commit, Places
<1> QED
  BY <1>1, <1>2, <1>3, <1>4 DEF Commit, browser

\* Orders and attempts decide who has redeemed a voucher and who uses it.
LEMMA SameUses ==
  ASSUME TypeOK, Attempted, [Next]_vars, order' = order, NEW v, NEW u
  PROVE  Uses(v)' = Uses(v) /\ Redeemed(v, u)' = Redeemed(v, u)
<1>1. \A o \in Orders : order[o].status # "none" => attempt'[order[o].key] = attempt[order[o].key]
  BY AttemptsStay DEF Attempted, Drawn
<1> QED
  BY <1>1 DEF Uses, Redeemed, Used

LEMMA OneMoreUse ==
  ASSUME TypeOK, Attempted, NEW r \in Requests, Commit(r), NEW o \in Orders, Places(r, o),
         NEW v, NEW u
  PROVE  /\ Uses(v)' = IF v \in req[r].held THEN Uses(v) \cup {o} ELSE Uses(v)
         /\ Redeemed(v, u)' = IF v \in req[r].held /\ Customer(r) = u
                                THEN Redeemed(v, u) \cup {o} ELSE Redeemed(v, u)
         /\ o \notin Uses(v) /\ o \notin Redeemed(v, u)
<1>1. /\ attempt' = attempt
      /\ req[r].held = {attempt[req[r].key].code} \ {NoCode}
  BY Committed DEF TypeOK, Code
<1>2. order'[o] = [status |-> "live", key |-> req[r].key] /\ order[o].status = "none"
  BY DEF Places, TypeOK
<1>3. \A p \in Orders \ {o} : order'[p] = order[p]
  BY DEF Places, TypeOK
<1>4. v \in Used(o)' <=> v \in req[r].held
  BY <1>1, <1>2 DEF Used
<1>5. \A p \in Orders \ {o} : Used(p)' = Used(p)
  BY <1>1, <1>3 DEF Used
<1>6. Uses(v)' = IF v \in req[r].held THEN Uses(v) \cup {o} ELSE Uses(v)
  BY <1>2, <1>3, <1>4, <1>5 DEF Uses
<1>7. Redeemed(v, u)' = IF v \in req[r].held /\ Customer(r) = u
                          THEN Redeemed(v, u) \cup {o} ELSE Redeemed(v, u)
  BY <1>1, <1>2, <1>3, <1>4, <1>5 DEF Redeemed, Customer
<1> QED
  BY <1>2, <1>6, <1>7 DEF Uses, Redeemed

LEMMA OneUseLess ==
  ASSUME TypeOK, Attempted, CancelsLive, NEW o \in Orders, CommitCancel(o), NEW v, NEW u
  PROVE  /\ Uses(v)' = Uses(v) \ {o}
         /\ v \in Used(o) <=> o \in Uses(v)
         /\ Redeemed(v, u)' = Redeemed(v, u)
<1>1. attempt' = attempt /\ order[o].status = "live"
  BY DEF CommitCancel, browser, CancelsLive
<1>2. /\ order'[o].status = "cancelled" /\ order'[o].key = order[o].key
      /\ \A p \in Orders \ {o} : order'[p] = order[p]
  BY DEF CommitCancel, TypeOK
<1>3. \A p \in Orders : Used(p)' = Used(p) /\ order'[p].key = order[p].key
  BY <1>1, <1>2 DEF Used
<1> QED
  BY <1>1, <1>2, <1>3 DEF Uses, Redeemed

LEMMA Finite ==
  ASSUME NEW v, NEW u
  PROVE  /\ IsFiniteSet(Uses(v)) /\ Cardinality(Uses(v)) \in Nat
         /\ IsFiniteSet(Redeemed(v, u)) /\ Cardinality(Redeemed(v, u)) \in Nat
<1>1. Uses(v) \in SUBSET Orders /\ Redeemed(v, u) \in SUBSET Orders
  BY DEF Uses, Redeemed
<1> QED
  BY <1>1, OrdersFinite, FS_Subset, FS_CardinalityType

----------------------------------------------------------------------------
(* The invariants, one by one                                              *)

LEMMA NextOneOrder ==
  ASSUME TypeOK, Attempted, CancelsLive, OnePerKey, Next
  PROVE  OnePerKey' /\ CancelsLive'
<1>1. ASSUME NEW r \in Requests, Commit(r)
      PROVE  OnePerKey' /\ CancelsLive'
  <2>1. CASE UNCHANGED <<order, voucher, checkout>>
    BY <1>1, <2>1, Committed DEF OnePerKey, CancelsLive
  <2>2. ASSUME NEW o \in Orders, Places(r, o)
        PROVE  OnePerKey' /\ CancelsLive'
    <3>1. cancel' = cancel /\ req[r].key \in Keys
      BY <1>1, Committed DEF Drawn
    <3>2. /\ order'[o] = [status |-> "live", key |-> req[r].key]
          /\ checkout'[req[r].key] = o /\ checkout[req[r].key] = NoOrder
          /\ \A p \in Orders \ {o} : order'[p] = order[p]
          /\ \A k \in Keys \ {req[r].key} : checkout'[k] = checkout[k]
      BY <2>2, <3>1 DEF Places, TypeOK
    <3>3. ASSUME NEW p \in Orders, order'[p].status # "none"
          PROVE  checkout'[order'[p].key] = p
      <4>1. CASE p = o
        BY <3>2, <4>1
      <4>2. CASE p # o
        <5>1. order'[p] = order[p] /\ order[p].status # "none"
          BY <3>2, <3>3, <4>2
        <5>2. checkout[order[p].key] = p /\ order[p].key \in Keys
          BY <5>1 DEF OnePerKey, Attempted, Drawn
        <5> QED
          BY <3>2, <5>1, <5>2, Absent
      <4> QED
        BY <4>1, <4>2
    <3> QED
      BY <3>1, <3>2, <3>3 DEF OnePerKey, CancelsLive
  <2> QED
    BY <1>1, <2>1, <2>2, Committed
<1>2. ASSUME NEW o \in Orders, BeginCancel(o) \/ LockVoucher(o) \/ CommitCancel(o) \/ FailCancel(o)
      PROVE  OnePerKey' /\ CancelsLive'
  <2>1. checkout' = checkout
    BY <1>2 DEF BeginCancel, LockVoucher, CommitCancel, FailCancel
  <2>2. OnePerKey'
    <3>1. CASE order' = order
      BY <2>1, <3>1 DEF OnePerKey
    <3>2. CASE CommitCancel(o)
      <4>1. order[o].status = "live"
        BY <3>2 DEF CommitCancel, CancelsLive
      <4>2. \A p \in Orders : /\ order'[p].key = order[p].key
                              /\ order'[p].status # "none" => order[p].status # "none"
        BY <3>2, <4>1 DEF CommitCancel, TypeOK
      <4> QED
        BY <2>1, <4>2 DEF OnePerKey
    <3> QED
      BY <1>2, <3>1, <3>2 DEF BeginCancel, LockVoucher, FailCancel
  <2>3. CASE BeginCancel(o)
    BY <2>2, <2>3 DEF CancelsLive, BeginCancel, TypeOK
  <2>4. CASE LockVoucher(o)
    BY <2>2, <2>4 DEF CancelsLive, LockVoucher, TypeOK
  <2>5. CASE CommitCancel(o)
    BY <2>2, <2>5 DEF CancelsLive, CommitCancel, TypeOK, NullCancel
  <2>6. CASE FailCancel(o)
    BY <2>2, <2>6 DEF CancelsLive, FailCancel, TypeOK, NullCancel
  <2> QED
    BY <1>2, <2>3, <2>4, <2>5, <2>6
<1>3. CASE UNCHANGED <<order, checkout, cancel>>
  BY <1>3 DEF OnePerKey, CancelsLive
<1> QED
  BY <1>1, <1>2, <1>3 DEF Next, Submit, Reload, Receive, Discard, Disconnect, Serve, LockCustomer,
     Replay, Create, Redeem, Fail, EditVoucher, EditGoods, database

LEMMA NextUsesCounted ==
  ASSUME TypeOK, Attempted, CancelsLive, UsesCounted, Next
  PROVE  UsesCounted'
<1>1. SUFFICES ASSUME NEW v \in Vouchers
               PROVE  voucher'[v].used = Cardinality(Uses(v)')
  BY DEF UsesCounted
<1>2. /\ voucher[v].used = Cardinality(Uses(v)) /\ voucher[v].used \in Nat
      /\ voucher[v] \in [used : Nat, limit : Nat, active : BOOLEAN]
  BY DEF UsesCounted, TypeOK
<1>3. IsFiniteSet(Uses(v)) /\ Cardinality(Uses(v)) \in Nat
  BY Finite
<1>4. CASE UNCHANGED <<order, voucher, checkout>>
  BY <1>2, <1>4, SameUses
<1>5. ASSUME NEW r \in Requests, NEW o \in Orders, Commit(r), Places(r, o)
      PROVE  voucher'[v].used = Cardinality(Uses(v)')
  <2>1. voucher'[v].used = IF v \in req[r].held THEN voucher[v].used + 1 ELSE voucher[v].used
    BY <1>2, <1>5 DEF Places
  <2>2. /\ Uses(v)' = IF v \in req[r].held THEN Uses(v) \cup {o} ELSE Uses(v)
        /\ o \notin Uses(v)
    BY <1>5, OneMoreUse
  <2>3. Cardinality(Uses(v) \cup {o}) = Cardinality(Uses(v)) + 1
    BY <1>3, <2>2, FS_AddElement
  <2> QED
    BY <1>2, <2>1, <2>2, <2>3
<1>6. ASSUME NEW o \in Orders, CommitCancel(o)
      PROVE  voucher'[v].used = Cardinality(Uses(v)')
  <2>1. voucher'[v].used = IF v \in Used(o) THEN UseReturned(voucher[v].used) ELSE voucher[v].used
    BY <1>2, <1>6 DEF CommitCancel
  <2>2. Uses(v)' = Uses(v) \ {o} /\ (v \in Used(o) <=> o \in Uses(v))
    BY <1>6, OneUseLess
  <2>3. o \in Uses(v) => Cardinality(Uses(v)) > 0
    BY <1>3, FS_EmptySet
  <2>4. Cardinality(Uses(v) \ {o}) =
          IF o \in Uses(v) THEN Cardinality(Uses(v)) - 1 ELSE Cardinality(Uses(v))
    BY <1>3, FS_RemoveElement
  <2> QED
    BY <1>2, <2>1, <2>2, <2>3, <2>4 DEF UseReturned
<1>7. ASSUME NEW w \in Vouchers, NEW n \in Limits, NEW on \in BOOLEAN, EditVoucher(w, n, on)
      PROVE  voucher'[v].used = Cardinality(Uses(v)')
  <2>1. order' = order /\ voucher'[v].used = voucher[v].used
    BY <1>2, <1>7 DEF EditVoucher, TypeOK
  <2> QED
    BY <1>2, <2>1, SameUses
<1> QED
  BY <1>4, <1>5, <1>6, <1>7, OthersReadOnly, Committed

\* Who has the lock of a voucher may count on its limits.
LEMMA NextPersonal ==
  ASSUME TypeOK, Attempted, CancelsLive, Reserved, PersonalLimitsKept, Next
  PROVE  PersonalLimitsKept'
<1>1. SUFFICES ASSUME NEW v \in Vouchers, NEW u \in Customers, Personal[v] > 0
               PROVE  Cardinality(Redeemed(v, u)') <= Personal[v]
  BY DEF PersonalLimitsKept
<1>2. Cardinality(Redeemed(v, u)) <= Personal[v] /\ Personal[v] \in Nat
  BY <1>1, VoucherLimits DEF PersonalLimitsKept
<1>3. IsFiniteSet(Redeemed(v, u)) /\ Cardinality(Redeemed(v, u)) \in Nat
  BY Finite
<1>4. CASE order' = order
  BY <1>2, <1>4, SameUses
<1>5. ASSUME NEW r \in Requests, NEW o \in Orders, Commit(r), Places(r, o)
      PROVE  Cardinality(Redeemed(v, u)') <= Personal[v]
  <2>1. /\ Redeemed(v, u)' = IF v \in req[r].held /\ Customer(r) = u
                                THEN Redeemed(v, u) \cup {o} ELSE Redeemed(v, u)
        /\ o \notin Redeemed(v, u)
    BY <1>5, OneMoreUse
  <2>2. Cardinality(Redeemed(v, u) \cup {o}) = Cardinality(Redeemed(v, u)) + 1
    BY <1>3, <2>1, FS_AddElement
  <2>3. v \in req[r].held /\ Customer(r) = u => Cardinality(Redeemed(v, u)) < Personal[v]
    BY <1>1 DEF Reserved, MayUse
  <2> QED
    BY <1>2, <1>3, <2>1, <2>2, <2>3
<1>6. ASSUME NEW o \in Orders, CommitCancel(o)
      PROVE  Cardinality(Redeemed(v, u)') <= Personal[v]
  BY <1>2, <1>6, OneUseLess
<1> QED
  BY <1>4, <1>5, <1>6, OthersReadOnly, Committed DEF EditVoucher

\* Unless a cancellation returns uses, only the holder of the lock or a manager changes
\* what decides whether a voucher may be used.
LEMMA StillMay ==
  ASSUME TypeOK, Attempted, CancelsLive, Next, NEW s \in Requests, NEW v \in req[s].held,
         Reserved, req'[s].held = req[s].held, req'[s].key = req[s].key
  PROVE  HasUses(v)' /\ MayUse(v, Customer(s))'
<1>u. PICK u : u = Customer(s)
  OBVIOUS
<1>0. /\ v \in Vouchers /\ HasUses(v) /\ MayUse(v, u)
      /\ req[s].pc = "priced" /\ Drawn(req[s].key)
      /\ voucher[v] \in [used : Nat, limit : Nat, active : BOOLEAN]
  BY <1>u DEF TypeOK, Reserved, Attempted
<1>1. Customer(s)' = u
  BY <1>u, <1>0, DrawnStays DEF Customer
<1>2. CASE UNCHANGED <<order, voucher, checkout>>
  BY <1>0, <1>1, <1>2, SameUses DEF HasUses, MayUse
<1>3. ASSUME NEW r \in Requests, NEW o \in Orders, Commit(r), Places(r, o)
      PROVE  HasUses(v)' /\ MayUse(v, Customer(s))'
  <2>1. v \notin req[r].held
    <3>1. r # s
      BY <1>3, Committed
    <3> QED
      BY <3>1 DEF Reserved, HeldByOthers
  <2>2. voucher'[v] = voucher[v]
    BY <1>0, <1>3, <2>1 DEF Places
  <2>3. Redeemed(v, u)' = Redeemed(v, u)
    BY <1>3, <2>1, OneMoreUse
  <2> QED
    BY <1>0, <1>1, <2>2, <2>3 DEF HasUses, MayUse
<1>4. ASSUME NEW o \in Orders, CommitCancel(o)
      PROVE  HasUses(v)' /\ MayUse(v, Customer(s))'
  <2>1. /\ voucher'[v].limit = voucher[v].limit
        /\ voucher'[v].used \in Nat /\ voucher'[v].used <= voucher[v].used
    BY <1>0, <1>4 DEF CommitCancel, UseReturned
  <2>2. Redeemed(v, u)' = Redeemed(v, u)
    BY <1>4, OneUseLess
  <2> QED
    BY <1>0, <1>1, <2>1, <2>2 DEF HasUses, MayUse
<1>5. ASSUME NEW w \in Vouchers, NEW n \in Limits, NEW on \in BOOLEAN, EditVoucher(w, n, on)
      PROVE  HasUses(v)' /\ MayUse(v, Customer(s))'
  <2>1. voucher'[v] = voucher[v] /\ order' = order
    BY <1>0, <1>5 DEF EditVoucher, TypeOK
  <2>2. Redeemed(v, u)' = Redeemed(v, u)
    BY <2>1, SameUses
  <2> QED
    BY <1>0, <1>1, <2>1, <2>2 DEF HasUses, MayUse
<1> QED
  BY <1>2, <1>3, <1>4, <1>5, OthersReadOnly, Committed

\* A lock is granted by the check of a voucher, and otherwise kept or given up.
Keeps(s) ==
  req'[s].held = {} \/ (req'[s].held = req[s].held /\ req'[s].key = req[s].key)

LEMMA Locks ==
  ASSUME TypeOK, Next
  PROVE  \/ \A s \in Requests : Keeps(s)
         \/ \E r \in Requests : Redeem(r) /\ Goes(r, "priced", {Code(r)})
<1>1. ASSUME NEW r \in Requests, NEW pc, Goes(r, pc, {})
      PROVE  \A s \in Requests : Keeps(s)
  BY <1>1 DEF Goes, Keeps, TypeOK
<1>2. ASSUME NEW r \in Requests, Redeem(r), ~Goes(r, "priced", {Code(r)})
      PROVE  \A s \in Requests : Keeps(s)
  BY <1>1, <1>2 DEF Redeem, Answer
<1>3. ASSUME NEW r \in Requests,
             Fail(r) \/ LockCustomer(r) \/ Replay(r) \/ Create(r) \/ Commit(r)
      PROVE  \A s \in Requests : Keeps(s)
  BY <1>1, <1>3 DEF Fail, LockCustomer, Replay, Create, Commit, Answer
<1>4. ASSUME NEW r \in Requests, Receive(r) \/ Discard(r)
      PROVE  \A s \in Requests : Keeps(s)
  BY <1>4, SMTT(30) DEF Receive, Discard, NullRequest, Keeps, TypeOK
<1>5. ASSUME NEW t \in Tabs, NEW r \in Requests, NEW k \in Keys, Submit(t, r, k)
      PROVE  \A s \in Requests : Keeps(s)
  BY <1>5 DEF Submit, Keeps, TypeOK
<1>6. ASSUME NEW r \in Requests, Disconnect(r)
      PROVE  \A s \in Requests : Keeps(s)
  BY <1>6 DEF Disconnect, Keeps, TypeOK
<1>7. CASE req' = req
  BY <1>7 DEF Keeps
<1> QED
  BY <1>2, <1>3, <1>4, <1>5, <1>6, <1>7
     DEF Next, Serve, Reload, BeginCancel, LockVoucher, CommitCancel, FailCancel, EditVoucher,
         EditGoods

LEMMA NextReserved ==
  ASSUME TypeOK, Attempted, CancelsLive, Reserved, Next
  PROVE  Reserved'
<1>1. CASE \A s \in Requests : Keeps(s)
  <2>1. ASSUME NEW s \in Requests, NEW v \in req'[s].held
        PROVE  HasUses(v)' /\ MayUse(v, Customer(s))' /\ ~HeldByOthers(v, s)'
    <3>1. req'[s].held = req[s].held /\ req'[s].key = req[s].key /\ v \in req[s].held
      BY <1>1, <2>1 DEF Keeps
    <3>2. HasUses(v)' /\ MayUse(v, Customer(s))'
      BY <3>1, StillMay
    <3>3. ~HeldByOthers(v, s)'
      BY <1>1, <3>1 DEF Keeps, HeldByOthers, Reserved
    <3> QED
      BY <3>2, <3>3
  <2> QED
    BY <2>1 DEF Reserved
<1>2. ASSUME NEW r \in Requests, Redeem(r), Goes(r, "priced", {Code(r)})
      PROVE  Reserved'
  <2>1. PICK c, u : c = Code(r) /\ u = Customer(r)
    OBVIOUS
  <2>2. /\ req[r].pc = "creating" /\ req[r].held = {} /\ Drawn(req[r].key)
        /\ UNCHANGED <<attempt, order, voucher>>
    BY <1>2 DEF Redeem, TypeOK, Attempted, browser, database
  <2>3. /\ req'[r].held = {c} /\ req'[r].key = req[r].key /\ req'[r].pc = "priced"
        /\ \A s \in Requests \ {r} : req'[s] = req[s]
    BY <1>2, <2>1 DEF Goes, TypeOK
  <2>4. HasUses(c) /\ MayUse(c, u) /\ ~HeldByOthers(c, r)
    <3>1. ~Answer(r, "missing") /\ ~Answer(r, "invalid")
      BY <2>3 DEF Answer, Goes, TypeOK
    <3> QED
      BY <1>2, <2>1, <3>1 DEF Redeem, Free
  <2>5. HasUses(c)' /\ MayUse(c, Customer(r))' /\ ~HeldByOthers(c, r)'
    <3>1. Redeemed(c, u)' = Redeemed(c, u) /\ Customer(r)' = u
      BY <2>1, <2>2, <2>3, SameUses DEF Customer
    <3> QED
      BY <2>2, <2>3, <2>4, <3>1 DEF HasUses, MayUse, HeldByOthers
  <2>6. ASSUME NEW s \in Requests \ {r}, NEW v \in req[s].held
        PROVE  HasUses(v)' /\ MayUse(v, Customer(s))' /\ ~HeldByOthers(v, s)'
    <3>1. HasUses(v)' /\ MayUse(v, Customer(s))'
      BY <2>3, StillMay
    <3>2. v # c
      BY <2>4 DEF HeldByOthers
    <3> QED
      BY <2>3, <3>1, <3>2 DEF HeldByOthers, Reserved
  <2> QED
    BY <2>3, <2>5, <2>6 DEF Reserved
<1> QED
  BY <1>1, <1>2, Locks

----------------------------------------------------------------------------
(* The theorems                                                            *)

LEMMA InitIInv == Init => IInv
<1> SUFFICES ASSUME Init PROVE IInv
  OBVIOUS
<1>0. PICK n \in [Vouchers -> Limits] :
        voucher = [v \in Vouchers |-> [used |-> 0, limit |-> n[v], active |-> TRUE]]
  BY DEF Init
<1>1. TypeOK
  <2>1. voucher \in [Vouchers -> [used : Nat, limit : Nat, active : BOOLEAN]]
    BY <1>0, VoucherLimits
  <2>2. /\ req \in [Requests -> [pc : Progress, key : Keys \cup {NoKey},
                                 tab : Tabs \cup {NoTab}, held : SUBSET Vouchers]]
        /\ \A r \in Requests : req[r].held = {} /\ req[r].pc = "idle"
    BY DEF Init, NullRequest, Progress
  <2>3. /\ attempt \in [Keys -> [customer : Customers \cup {NoCustomer},
                                 code : Vouchers \cup {NoCode}]]
        /\ cancel \in [Orders -> [on : BOOLEAN, held : SUBSET Vouchers]]
    BY DEF Init, NullAttempt, NullCancel
  <2> QED
    BY <2>1, <2>2, <2>3 DEF Init, TypeOK
<1>2. Attempted /\ OnePerKey /\ Reserved /\ CancelsLive
  BY DEF Init, Attempted, OnePerKey, Reserved, CancelsLive, NullRequest, NullCancel
<1>3. \A v, u : Uses(v) = {} /\ Redeemed(v, u) = {}
  BY DEF Init, Uses, Redeemed
<1>4. UsesCounted
  BY <1>0, <1>3, FS_EmptySet DEF UsesCounted
<1>5. PersonalLimitsKept
  BY <1>3, FS_EmptySet, VoucherLimits DEF PersonalLimitsKept
<1> QED
  BY <1>1, <1>2, <1>4, <1>5 DEF IInv

LEMMA NextIInv == IInv /\ [Next]_vars => IInv'
<1>1. ASSUME IInv, Next PROVE IInv'
  <2>1. TypeOK' /\ Attempted'
    BY <1>1, NextProper, NextRows, NextOnSale, TypesSplitPrimed DEF IInv
  <2> QED
    BY <1>1, <2>1, NextOneOrder, NextReserved, NextUsesCounted, NextPersonal DEF IInv
<1>2. ASSUME IInv, UNCHANGED vars PROVE IInv'
  <2>1. TypeOK' /\ Attempted' /\ OnePerKey' /\ CancelsLive'
    BY <1>2 DEF IInv, vars, TypeOK, Attempted, Drawn, OnePerKey, CancelsLive, Code
  <2>2. \A v, u : Uses(v)' = Uses(v) /\ Redeemed(v, u)' = Redeemed(v, u)
    BY <1>2, SameUses DEF IInv, vars
  <2>3. UsesCounted' /\ PersonalLimitsKept'
    BY <1>2, <2>2 DEF IInv, vars, UsesCounted, PersonalLimitsKept
  <2>4. Reserved'
    BY <1>2 DEF IInv, vars, Reserved, HasUses, MayUse, HeldByOthers, Customer, Redeemed, Used
  <2> QED
    BY <2>1, <2>3, <2>4 DEF IInv
<1> QED
  BY <1>1, <1>2

LEMMA Invariance == Spec => []IInv
BY InitIInv, NextIInv, PTL DEF Spec

\* Rows, pages and requests keep their types, and a request holds the lock of its
\* voucher exactly from the check to the end of its transaction.
THEOREM TypeCorrect == Spec => []TypeOK
BY Invariance, PTL DEF IInv

\* A key makes at most one order, the one every repeat of the checkout is answered with.
THEOREM KeysAreIdempotent == Spec => []OneOrderPerKey
<1>1. IInv => OneOrderPerKey
  BY DEF IInv, OneOrderPerKey
<1> QED
  BY <1>1, Invariance, PTL

\* so_lan_da_dung is the number of live orders with the voucher.
THEOREM CounterIsExact == Spec => []UsesCounted
BY Invariance, PTL DEF IInv

\* No customer redeems a voucher more often than gioi_han_nguoi_dung allows.
THEOREM PersonalLimitsHold == Spec => []PersonalLimitsKept
BY Invariance, PTL DEF IInv

\* No checkout takes a voucher beyond the limit it has at that moment.
THEOREM LimitsHold == Spec => LimitsKept
<1> DEFINE Within ==
      \A v \in Vouchers : voucher'[v].used > voucher[v].used /\ voucher[v].limit > 0 =>
        voucher'[v].used <= voucher[v].limit
<1>1. IInv /\ [Next]_vars => [Within]_vars
  <2> SUFFICES ASSUME IInv, Next, NEW v \in Vouchers,
                      voucher'[v].used > voucher[v].used, voucher[v].limit > 0
               PROVE  voucher'[v].used <= voucher[v].limit
    OBVIOUS
  <2>1. voucher[v] \in [used : Nat, limit : Nat, active : BOOLEAN]
    BY DEF IInv, TypeOK
  <2>2. ASSUME NEW r \in Requests, NEW o \in Orders, Commit(r), Places(r, o)
        PROVE  voucher'[v].used <= voucher[v].limit
    <3>1. v \in req[r].held /\ voucher'[v].used = voucher[v].used + 1
      BY <2>1, <2>2 DEF Places
    <3>2. HasUses(v)
      BY <3>1 DEF IInv, Reserved
    <3> QED
      BY <2>1, <3>1, <3>2 DEF HasUses
  <2>3. ASSUME NEW o \in Orders, CommitCancel(o)
        PROVE  FALSE
    BY <2>1, <2>3 DEF CommitCancel, UseReturned
  <2>4. ASSUME NEW w \in Vouchers, NEW n \in Limits, NEW on \in BOOLEAN, EditVoucher(w, n, on)
        PROVE  FALSE
    <3>1. voucher'[v].used = voucher[v].used
      BY <2>4 DEF EditVoucher, IInv, TypeOK
    <3> QED
      BY <2>1, <3>1
  <2>5. CASE UNCHANGED <<order, voucher, checkout>>
    BY <2>1, <2>5
  <2> QED
    BY <2>2, <2>3, <2>4, <2>5, OthersReadOnly, Committed DEF IInv
<1> QED
  BY <1>1, Invariance, PTL DEF Spec, LimitsKept

\* All limits of vouchers are kept, by an exact count.
THEOREM VouchersAreKept == Spec => VoucherUsesKept
BY CounterIsExact, PersonalLimitsHold, LimitsHold, PTL DEF VoucherUsesKept

----------------------------------------------------------------------------
(* What the browser knows                                                  *)

\* An attempt that was drawn is stored, or its outcome was told to a tab.
AttemptsTold ==
  \A k \in Keys : attempt[k] # NullAttempt =>
    /\ attempt[k].customer \in Customers
    /\ k \in known \cup refused \/ stored[attempt[k].customer] = k

LEMMA NextAttemptsTold == IInv /\ AttemptsTold /\ [Next]_vars => AttemptsTold'
<1> SUFFICES ASSUME IInv, AttemptsTold, [Next]_vars PROVE AttemptsTold'
  OBVIOUS
<1>0. /\ TypeOK /\ \A k \in Keys : k # NoKey
      /\ stored \in [Customers -> Keys \cup {NoKey}]
  BY Absent DEF IInv, TypeOK
<1>1. ASSUME UNCHANGED <<attempt, stored, known, refused>> PROVE AttemptsTold'
  BY <1>1 DEF AttemptsTold
<1>2. ASSUME NEW t \in Tabs, NEW r \in Requests, NEW k \in Keys, Submit(t, r, k)
      PROVE  AttemptsTold'
  <2>1. known' = known /\ refused' = refused /\ Owner[t] \in Customers
    BY <1>2, TabsOwned DEF Submit
  <2>2. CASE UNCHANGED <<attempt, stored>>
    BY <1>1, <2>1, <2>2
  <2>3. ASSUME NEW v \in Vouchers \cup {NoCode}, stored[Owner[t]] = NoKey,
               attempt' = [attempt EXCEPT ![k] = [customer |-> Owner[t], code |-> v]],
               stored' = [stored EXCEPT ![Owner[t]] = k]
        PROVE  AttemptsTold'
    <3>1. attempt'[k].customer = Owner[t] /\ stored'[Owner[t]] = k
      BY <1>0, <2>1, <2>3 DEF TypeOK
    <3>2. ASSUME NEW j \in Keys, j # k, attempt'[j] # NullAttempt
          PROVE  /\ attempt'[j].customer \in Customers
                 /\ j \in known \cup refused \/ stored'[attempt'[j].customer] = j
      <4>1. attempt'[j] = attempt[j]
        BY <1>0, <2>3, <3>2 DEF TypeOK
      <4>2. /\ attempt[j].customer \in Customers
            /\ j \in known \cup refused \/ stored[attempt[j].customer] = j
        BY <3>2, <4>1 DEF AttemptsTold
      <4>3. stored[attempt[j].customer] = j => attempt[j].customer # Owner[t]
        BY <1>0, <2>3
      <4> QED
        BY <1>0, <2>1, <2>3, <4>1, <4>2, <4>3
    <3> QED
      BY <2>1, <3>1, <3>2 DEF AttemptsTold
  <2> QED
    BY <1>2, <2>2, <2>3 DEF Submit, Attempt
<1>3. ASSUME NEW r \in Requests, Receive(r) PROVE AttemptsTold'
  <2>1. PICK k, u : k = req[r].key /\ u = Owner[req[r].tab]
    OBVIOUS
  <2>2. /\ attempt' = attempt /\ known \subseteq known' /\ refused \subseteq refused'
        /\ \/ stored' = stored
           \/ stored' = [stored EXCEPT ![u] = NoKey] /\ stored[u] = k /\ k \in known' \cup refused'
    BY <1>3, <2>1 DEF Receive, Definitive, database
  <2>3. ASSUME NEW j \in Keys, attempt[j] # NullAttempt
        PROVE  /\ attempt[j].customer \in Customers
               /\ j \in known' \cup refused' \/ stored'[attempt[j].customer] = j
    <3>1. /\ attempt[j].customer \in Customers
          /\ j \in known \cup refused \/ stored[attempt[j].customer] = j
      BY <2>3 DEF AttemptsTold
    <3>2. CASE j = k
      BY <2>2, <3>1, <3>2
    <3>3. CASE j # k
      <4>1. PICK c \in Customers : c = attempt[j].customer
        BY <2>3 DEF AttemptsTold
      <4>2. stored[c] = j => stored'[c] = j
        BY <1>0, <2>2, <3>3
      <4> QED
        BY <2>2, <3>1, <4>1, <4>2
    <3> QED
      BY <3>2, <3>3
  <2> QED
    BY <2>2, <2>3 DEF AttemptsTold
<1>4. CASE \/ \E t \in Tabs : Reload(t)
           \/ \E r \in Requests : Discard(r) \/ Disconnect(r) \/ Serve(r) \/ Fail(r)
           \/ \E o \in Orders : BeginCancel(o) \/ LockVoucher(o) \/ CommitCancel(o) \/ FailCancel(o)
           \/ \E v \in Vouchers, n \in Limits, on \in BOOLEAN : EditVoucher(v, n, on)
           \/ \E g \in Goods : EditGoods(g)
           \/ UNCHANGED vars
  BY <1>1, <1>4 DEF vars, browser, Reload, Discard, Disconnect, Serve, LockCustomer, Replay,
     Create, Redeem, Commit, Fail, BeginCancel, LockVoucher, CommitCancel, FailCancel, EditVoucher,
     EditGoods
<1> QED
  BY <1>2, <1>3, <1>4 DEF Next

\* No order behind the customer's back, wherever an answer gets lost and however many tabs
\* send the attempt: whoever has an order was told, or still has the attempt stored and
\* sends it again, unless the server had refused it.
THEOREM OrdersAreKnown == Spec => []KnownOrRetryable
<1>1. Init => AttemptsTold
  BY DEF Init, AttemptsTold
<1>2. IInv /\ AttemptsTold => KnownOrRetryable
  BY DEF IInv, Attempted, Drawn, AttemptsTold, KnownOrRetryable
<1> QED
  BY <1>1, <1>2, NextAttemptsTold, Invariance, PTL DEF Spec
=============================================================================
