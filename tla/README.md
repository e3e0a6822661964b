# LeafCreme in TLA+

LeafCreme is a bakery shop: a FastAPI application over PostgreSQL (`src/app`), a React
storefront and back office (`src/frontend`), the SePay bank gateway, a sales chat
("Leafie") and an assistant ("Operations Agent") that proposes and runs back-office
actions. This directory models the parts in which several actors change the same rows or
the same browser storage, checks them with TLC on small instances, and proves the most
important invariants with TLAPS for every instance.

## 1. Inventory

How the parts meet: every HTTP request passes the admission middleware, gets one
database session (READ COMMITTED, `autoflush=False`, `app/db.py:37`) and runs one
service method in a worker thread. Two scheduler jobs run the same services
unattended, SePay calls a webhook, and the agent calls the services as tools. All of
them meet in the database: row locks (`SELECT ... FOR UPDATE`), three kinds of
advisory lock and unique constraints are the only synchronisation. In the browser, tabs
meet in `localStorage`, and callbacks in the refs of a page.

| Component | State | Operations | What is hard | What makes it correct |
|---|---|---|---|---|
| Orders and payments (`services/orders`, `services/payments`) | `donhang`, `thanhtoan`, `sepay_transactions` | create, status change, cancel, manual payment, status edit, verification, QR creation, webhook, refund | five actors race for one order; transfers arrive late, twice, for dead orders; un-flushed changes are overwritten | money captured never exceeds the price, a cancelled order holds none, QR money is backed by one receipt, pre-orders are paid before work |
| Maintenance sweep (`services/maintenance`) | the list it read | sweep stale pending payments, row by row | works from a stale list, rows fail, process restarts | abandoned orders are eventually reclaimed |
| Inventory (`orders/inventory_service.py`, `batches`, `inventory_ledger_service.py`, `inventory_trace`) | lots, their codes, stock per lot, movement ledger, allocations per order | FEFO allocation, restoration, receipt with a new code, disposal, edit of a lot, trace | row locks taken one by one in different orders: waiting, deadlock, abort half way; rows re-checked after a wait; codes looked for before they are taken | stock is conserved, the ledger is a chain and its trace adds up, codes are unique, an order is allocated wholly and restored exactly once |
| Checkout (`orders/checkout_service.py`) | `checkout_requests` | idempotent checkout | double clicks, retries after a lost answer, crash before commit | one order per customer and key |
| Storefront checkout (`frontend/src/services/checkoutAttempt.ts`, `pages/CheckoutPage.tsx`) | an attempt per account in `localStorage`, what each tab shows | send, receive an answer, give up, load again | answers get lost or are misread, two tabs, a form edited meanwhile, goods or a voucher withdrawn under an attempt | no order the customer does not know of, no attempt for ever |
| Vouchers (`orders/voucher_service.py`, `services/vouchers`) | use counter, links to orders | redeem, release on cancellation, create, edit, delete | two orders take the last use | the counter is the number of live uses and stays within the limit |
| Storefront session and cart (`frontend/src/services/api.ts`, `contexts/AuthContext.tsx`, `services/cartService.ts`, `services/auth`) | tokens and carts in `localStorage`, the account each tab shows, refreshes under way | sign in, register, sign out, refresh, any call, add to the cart | calls of several tabs find their token expired at once; a tab shows one account while another tab has signed in as another | an expiry signs nobody out, no call waits for ever, no cart mixes accounts |
| Accounts (`services/users`, `services/auth`) | `nguoidung`: role, whether enabled, e-mail, external identity | register, user management, profile, link or provision an identity | look first and write later; a request goes on with the row it loaded | no two accounts share a name, a stale row that is saved brings no right back |
| Roles, capabilities, routes (`core/capabilities.py`, `routers`, the back office's pages) | three tables kept by hand | ask for a page, use what it offers | the tables drift apart | what a page offers is served, but for what is known to be withheld |
| Agent actions (`services/agent/agent_service.py`) | `agent_actions` | propose, approve, reject, reset | claims by compare-and-set, unlocked reset, crash while running, a slow run that ends after its reset | a rejected action never runs, no two approvals run one proposal |
| Agent chat (`agent_service.py`, `AdminAgentPage.tsx`) | a conversation per request | ask the model, run reads, propose changes, give up | the model asks for anything, for ever, or fails half way | each call is answered, a reply tells its proposals, every question ends |
| Action policy (`services/agent/action_policy.py`, `tools.py`) | a registry | decide automatic, approval or blocked | a ladder of conditions in an order that matters | nothing but low-risk, idempotent, revalidated tools runs unattended |
| Proactive insights (`services/agent/proactive_service.py`, `proactive_actions.py`) | `proactive_insights`, their `agent_actions` | scan, automatic run with retry, reconciliation, status changes; reset, approval and rejection of the automatic rows | scans overlap, die, retry; evidence moves between the look and the run; managers take up rows that were never proposed; wordings vary | the audit log is true; what is current is told in the end, unless it was left to a manager |
| Alerts (`services/alerts`) | `canhbaotonkho` | scan, update, delete, digest | no constraint forbids duplicates; scans of requests overlap the job's | duplicates stay bounded and settle into one digest and an alert per lot |
| Scheduler (`app/scheduler.py`) | next run times, an advisory lock | sweep job, scan job, wake-up, shutdown | wake-ups while a scan runs, several processes | one job scans at a time, a change is scanned eventually |
| Admission (`middleware/admission_middleware.py`) | tokens, waiting counter | admit, refuse, time out, release | cancellation and timeouts between counting and acquiring | bounded work, bounded queue, no token lost |
| Leafie (`routers/leafie.py`, `services/leafie.py`, `hooks/useLeafie.ts`, `hooks/useSpeechInput.ts`) | conversations per account, draft, dictation, limits per address | ask, retry, clear, dictate, limit, call the model | late answers overtaken by new questions or accounts; recogniser events in any order; slots | answers follow their questions, refusals have a cause, dictation ends |
| Catalogue (`services/products`, `services/gift_boxes`, their admin pages) | products, variants, gift boxes and their contents | create, edit, delete, in two requests | operations that end half way, un-flushed changes | SKUs are unique; a product with nothing left to sell is hidden |
| Suppliers, reports, analytics, logging, migrations, scripts | tables of their own | CRUD and queries | little concurrency | see section 8 |

The hazards of the code, each with its line and the properties that would catch it, are
listed in `PROJECT.json` under `hazards`. They fall into five groups:

* **several actors, one row**: customers, staff, the SePay webhook, the sweep and the
  agent confirm, cancel, restore or approve the same thing at the same time;
* **what was read before a lock, an await or a commit and used after it**: the list of the
  sweep, the rows a sale sorted before it locked them, the quantity a manager saw, the
  snapshot of a proposal, the evidence behind a notification, the row a profile is saved
  from, the token a tab believes it has;
* **locks taken one by one**: waits, deadlocks, an abort half way through a cart;
* **answers and events in any order**: transfers, lost and late answers of a checkout, a
  shared refresh, an answer of the chat after its account has left, a recogniser's events;
* **limits and endings**: the waiting counter, tokens, connections, slots and rate limits;
  sweeps, waits, scans, loops and stuck rows that must come to an end.

## 2. Plan

Order of work, the most important behaviour first. Done modules are in bold.

1. **OrderPayments** with its abstract specification **OrderContract**; proofs in
   **OrderPaymentsProofs**.
2. **Inventory** with **StockContract**: lots, ledger, transactions lock by lock; proofs in
   **InventoryProofs**. **Sums** holds the facts about sums that both proofs need.
3. **Admission**, proofs in **AdmissionProofs**.
4. **AgentActions** (the approval lifecycle), proofs in **AgentActionsProofs**.
5. **Checkout** (the attempt in the browser, its key and order, the uses of a voucher),
   proofs in **CheckoutProofs**.
6. **Alerts**: scans, the scheduler's job and its advisory lock; proofs in **AlertsProofs**.
7. **ActionPolicy** and **Notifications**: the unattended half of the agent; its proofs are the
   second half of **AlertsProofs**.
8. **AgentChat**, which extends AgentActions and ActionPolicy: the loop that proposes; its
   proofs are the second half of **AgentActionsProofs**.
9. **Sessions**: tokens and carts in a browser, proofs in **StorefrontProofs**.
10. **Access** and **Accounts**: who may do what, and the rows that say who is who, proofs in
    **AdmissionProofs**, the second half of the run `admission`.
11. **Leafie**: the conversation, dictation and limits of the sales chat; its proofs are the
    second half of **StorefrontProofs**.
12. **Catalogue**: products, variants and gift boxes, and the pages that edit them.

Every property of a passing run that is not about liveness is now a theorem (section 6). What
the plan has left is on the side of the model: several voucher codes in one checkout, and the
row locks of payments inside a cancellation (section 8).

## 3. The modules and the code

### OrderPayments

| State | Code |
|---|---|
| `order` | `donhang` rows: `trang_thai`, `loai_don`, `tien_thanh_toan`, whether there is an address |
| `pay` | `thanhtoan` rows; `sepay` is the provider tag in `thong_tin_giao_dich`, `txn` the gateway id in `ma_giao_dich` |
| `paid` | what `SUM(so_tien)` over the captured payments returns; `PaidIsSum` checks that it is that sum |
| `receipt` | `sepay_transactions`, the reconciliation queue included |
| `sweep` | the ids `sweep_stale_pending_payments` has read and not yet handled |

Every handler locks its order with `SELECT ... FOR UPDATE` and `populate_existing`
before it decides, and commits once, so a handler is one action; the exceptions are kept
apart as the code has them: the sweep reads its list in one transaction
(`SweepScan`) and handles the rows in others (`SweepStep`, `SweepError`, `Restart`). A
handler that answers an error rolls back and is no step. Because sessions run with
`autoflush=False`, `_cancel_locked` re-reads payment rows and forgets an unflushed
change; `FailedWithOrder` models what is left of it. `OrderContract` is the promise
to the customer: an order collects at most its price, is handed over when it holds all
of it, and is cancelled only when it holds nothing. The refinement mapping takes
`order[o].status` to a phase and `paid` to the money held.

### Inventory

One module for products, gift boxes and component lots: all three follow the same
protocol on their own tables, and `Lots` numbers them in the order in which
`_restore_order_inventory` sorts. A transaction is a record `tx[s]` with the locks it
holds, the locks it still needs, the demands or allocations still to handle, and
its own uncommitted movements, from which `Visible` computes what it sees.
`ForUpdate` and `KeyShare` are the two PostgreSQL row lock modes involved (the second is
what a ledger row's foreign key takes on its lot). `ReadLots` sorts before it locks, as
`ORDER BY ... FOR UPDATE` does; `StillQualifies` is the re-check of READ COMMITTED after
a wait. A receipt looks for the next code (`_next_lot_code`) in `BeginReceive` and writes
its lot in `CommitReceive`, where only the unique index stops a code that was taken
meanwhile. `Fail` stands for whatever makes a transaction roll back, `DeadlockVictim` for
the database's choice of a victim. The trace of a lot, the ledger page and
`sellable_stock` are operators over the committed state, and parts of `StockAccounted` and
`OnlyOfferedIsSold`. `StockContract` is the promise: each transaction, seen through the
committed rows, reserves, returns, receives or discards as a whole.

### Admission

`pc` is where a client's request is in `AdmissionMiddleware.__call__`, `waiting` the
middleware's counter, `borrowers` the tokens of anyio's limiter, `conns` the
connections that requests and jobs hold. What runs between two awaits is one action. The
limiter is modelled by its contract, its waiters as a set, so the model allows any
order of service. The counter is decremented in a `finally` around the whole of the wait,
sending the 503 included: that is why `late` requests count.

### Access and Accounts

`Access` has no state. `Routes` is a set of pairs of a handler and a role, read off the
routers' dependencies: `Demand(capability, handlers)` is `require_capability`, `For` a
dependency on roles. `ServedFor` adds what the order service decides by the tie of the
account to an order. `Offered` and `OfferedFor` are what the back office's pages call
with the capabilities the browser was told; the page of one order (`OrderPage`) offers its
status menu and its cancel button to whoever looks. `Refusals` are the offers, with the tie
to the order they are about, that the server refuses.

`Accounts` extends it. A request is authenticated (`Authenticate`: the row of the caller
is loaded once), checks what it is about (`create_user`, `update_user`, `delete_user`,
`register`, `provision_cognito_user`) and commits later (`Commit`). In between it goes on
believing what it has loaded: SQLAlchemy's identity map. The UPDATE names only the
columns that differ from the loaded values (`Changed`), and the unique columns
(`Allowed`) are the database's. `page` is a browser that goes by the role it was told,
and `old` says that the account has changed since; `Refused` is what its owner would be
refused there, `Withheld` what the services keep to the management although the page of an
order offers it.

### AgentActions and AgentChat

`status`, `want`, `seen`, `started` are columns of `agent_actions`; `at` and `on` say
how far each request has got; `live` is the state of the one target, which others
change at any time (`OtherChange`); `runs`, `resets`, `lost` are history variables. The
claim is one conditional UPDATE (`Approve`, `Reject`), and from there on no lock is held:
`Revalidate`, `Run` or `Refused`, and `Finish` are separate steps, and so are the read
and the write of a reset. A crash leaves the row in flight.

`AgentChat` adds the loop of `chat()`: `phase` and `iteration` are its place, `messages`
the conversation that the model is sent (only who speaks, and which calls), `todo` the
calls not handled yet, `proposed` what the reply will name, `view` what the page shows. The
model may answer, ask for any calls, or fail. A read changes nothing, a change becomes a
proposal in the queue of AgentActions (`ProposeCall`, which the registry of `ActionPolicy`
allows), a bad call gets its error. Any exception throws away what was proposed so far and
falls back to the deterministic reply: the proposals stay in the queue, unnamed.

### ActionPolicy and Notifications

`evaluate_automated_action` is the code's ladder, `TOOL_REGISTRY` the registrations it
is asked about, `Registrable` what `__post_init__` accepts.

| State of Notifications | Code |
|---|---|
| `alert` | status of each alert, and its evidence while it is current; two pieces of evidence may have the same `insight_fingerprint` |
| `insight` | `proactive_insights`: one row per alert and fingerprint, its status and supersession count |
| `action` | `agent_actions` of `create_proactive_notification`, one row per idempotency key (alert, evidence, occurrence) |
| `worker` | a session that scans: what it collected, what it marked as withdrawn, and its place: `look`, `claim`, `insert` or `retry`, `run`, `notify`, the result |
| `manager` | a reset between its read and its write, or an approval between its claim and its outcome, and the row it is about |

A scan settles rows in flight that are old (`Begin`), collects its candidates, and takes
each through `execute_automated_action`. Its commits are the steps: the claim (`Insert`
under the unique key, `Retry` by primary key on what an unlocked read said), the
notification (`Notify`, the tool's own commit) and the outcome (`Finish`). What it marked
as withdrawn reaches the database with its next commit and is lost with a rollback. A
crash is possible anywhere, an unexpected error inside the tool. A database error in the
write of an outcome rolls it back and ends the scan, as a crash does, and is not told apart.

`reset_action`, `approve_action` and `reject_action` do not ask for the execution mode of a
row, so managers may take up those of the unattended half: `BeginReset` and `EndReset` (read
and write apart), `Approve`, `Recheck`, `Execute` and `Record`, `Reject`. From then on
`execute_automated_action` finds a row that is not to be retried, and tells nothing.

A recommendation is one of `Texts`. The parameters of a key must be those of its first time,
wording included; any other is answered with a 409, which ends the scan (`Claim`).

### Alerts

`lot` is what a scan can see of stock, age and listing; days are the five phases of a
lot's life that the code tells apart. `alerts` are the rows in the order of their ids.
A scan reads (`Conclude`: what it will add, close and raise) and writes it in one
`Commit`; an UPDATE of a row that was deleted meanwhile fails it. Jobs (`Tick`, `Start`,
`Skip`) share the advisory lock and take turns, whatever instance they run in; scans that
requests run (`Ask`) take no lock. Of several open digests a scan keeps any, because its
query states no order.

### Checkout

| State | Code |
|---|---|
| `attempt`, `stored` | what a key was drawn for (customer, voucher code), and the attempt in each customer's `localStorage` |
| `page` | a tab: ready, waiting for an answer, stuck after a failure, done |
| `req` | a request on its way (`sent`), in its transaction (`locked`, `creating`, `priced`) or answered, the voucher it has locked, and the tab that waits for it, if one still does |
| `checkout`, `order`, `voucher` | `checkout_requests`, `donhang` (with its link to a voucher), `phieugiamgia` |
| `onSale` | variants and gift boxes with `dang_hoat_dong`; `Basket` is what each key was drawn to buy |
| `cancel` | cancellations between their first lock and their commit |

The transaction of `CheckoutService.checkout` is taken apart at its locks: the customer
(`LockCustomer`), the order of a repeated key (`Replay`), the items (`Create`, which finds
no goods that are not on sale), the voucher (`Redeem`); what it
writes appears with `Commit`. A 400 is `invalid`, a 404 `missing`, anything else `error`.
`Disconnect` takes the tab away from a request that goes on; `Fail` rolls one back. The
page is `stuck` after every failure because `submittingRef` (`CheckoutPage.tsx:175`) is
never reset: the button is enabled again but does nothing until the page is loaded again.
`known` and `refused` are history: the keys whose order a tab was told, and the keys a
tab was told to give up.

### Sessions

Tokens are signed and the server keeps none, so a pair is its number in the order of
issue (`token` says whose it is), `dead` the last one that has expired, `store` the two
entries of `localStorage`. `tab` is what a tab shows, which refresh it has under way
(`refreshPromise`) and its guest's cart (`sessionStorage`); `call` is a call's place:
`signing` (login or register), `pause` (the moment before `/auth/me`), `sent`, `waiting`
for the refresh of its tab, `replayed`, `failed`. `cart` is the cart per account, as the
accounts whose session put something into it. `getCartStorageKey` goes by the stored
token, not by the account the page shows, and so does `Holder`. `trouble` is history: a
lost refresh, and whatever ends a session for good (signing out, a failed sign-in, an
expired refresh token, a disabled account).

### Leafie

`user` is the account `AuthContext` shows and `active` the one whose conversation is on
the screen; the effect that follows is `Adopt`. `messages`, `stored`, `sending`, `current`
(`requestVersion`) and `failed` are the refs and state of `useLeafie`. `panel`, `input`,
`voice`, `mic` are the panel, its draft, `useSpeechInput` and the browser's recogniser
behind it, whose events come in any order. On the server `bucket` is the router's
`OrderedDict` of recent requests per address, as a sequence with the address used last at its
end (`Places` is where an address stands, `Remember` moves it to the end and forgets the
first), and `req` the life of a call: `AskLeafie` runs up to the first await (rate limit,
replies without a model, slots), `BuildCatalog` and `GenerateReply` end it. `Restart`
forgets it all. `granted` is history: the requests let
through since the address is remembered.

### Catalogue

The tables `product`, `variant`, `box` and `bom`, with the services' operations as
actions, and pages that need several requests for one operation: `CreateProduct` and
`CreateVariant`, `EditVariant` and `EditProduct`, with other requests, refusals and broken
connections (`Fails`) in between. `delete_variant` asks for the remaining active variants
before its own change is flushed, `delete_bom_item` counts before it deletes.

Definitions marked `mutant` are variants of the definition after them with a
plausible bug; the specification does not use them. They show that each property can
fail: with the variant in place TLC finds it violated.

## 4. The runs

| Run | Question | Instance and why it is enough |
|---|---|---|
| `scheduler` | do the money invariants hold, and is every handler a step of `OrderContract`? do overlapping scans keep duplicate alerts bounded, and settle? | scene *payments*: one order of each kind in turn (also free and address-less ones), three payments, one transfer, amounts 1 and 2 against a price of 2: part payments, over-payment, three competing payments, refund and repayment, wrong amounts. Scene *alerts*: a cake and a component lot, a full store or an empty one with an alert of a kind that is not raised any more, the jobs of two instances and a request, three changes (of stock, age, listing, alerts by hand, aborted scans): two scans of one reading and a change between them |
| `order_transfers` | are QR captures backed by receipts whatever managers edit, and are abandoned orders reclaimed? | two orders (one an old pre-order in `cho_coc`), two payments, two transfers, all edits; the smallest in which transfers, payments and orders can be mixed up and one row of a sweep can fail while another goes on |
| `inventory_cakes` | is stock accounted for in lots, ledger and trace, are codes unique, is FEFO kept, is each transaction a step of `StockContract`? | two sessions, two lots of one item, two orders of two pieces, lots of one or two pieces, two days: splits across lots, the last piece wanted twice, a code wanted twice, a lot that is blocked, expires or is disposed of during a wait |
| `inventory_boxes` | what happens when transactions lock in different orders, while managers move dates? does everybody get done? | two items bought in either order by two sessions: deadlocks occur, one victim is rolled back whole |
| `admission` | are counter, tokens and connections exact, does every wait end? are accounts whole, rights held and pages served? | scene *places*: five clients for two tokens and two places, a health probe, one job, a pool with no connection to spare. Scene *accounts*: an administrator, a manager and an account to be made, two requests under way at a time, an identity from outside with the address that others register |
| `checkout` | is there one order per key, does its customer learn of it, are the limits of a voucher kept, does everybody get an answer? | two customers with one tab each, two keys (for the two, or twice for one), one fault: a lost answer and its repeat. Scene *vouchers*: one voucher with a limit of one or none and one use per customer, edited and withdrawn at will: the last use wanted twice, a cancelled use wanted again. Scene *goods*: what is in the baskets is withdrawn and put on sale at will |
| `checkout_retry` | does the button of the page go on with an order after a failure? **No** (finding 2) | one customer, one tab, one key, one fault |
| `agent_approvals` | can racing, slow, dying approvals run a proposal twice, run a rejected one, or log what did not happen? does a chat tell what it proposed, answer every call, and end? | scene *approvals*: one proposal, three requests, three resets; proposals share only the target, which others change at will. Scene *chat*: one turn of two rounds of up to two calls of any kind, two proposals, decided by others while the loop goes on |
| `notifications` | is the audit log true, and is what is current told in the end? | one alert whose evidence changes with or without its fingerprint, one crash or failure: a claim lost, a retry, a stale row, a supersession and a reopening. Scene *moves*: two scans, two changes of the world. Scene *managers*: one scan and a manager, who resets, approves and rejects, three changes between them (a stale row is reset and approved while its alert moves on). Scene *wordings*: two scans and two wordings, one change |
| `sessions` | does an expiry sign anybody out, can carts mix, does a call wait for ever? | two tabs (one shops), two accounts (one to be registered, one that is disabled and enabled), one call of a page and one about the account at a time, three pairs of tokens: two tabs refresh at once, a session is replaced under a page |
| `leafie` | are conversations whole, refusals just, dictation followed, and do all waits end? | three scenes: a guest who types and dictates; accounts that come and go; another address competing for one slot and two requests per window while the process remembers one address. Two questions, two calls, two messages kept, so that cutting off, retrying and overtaking happen |
| `catalogue` | is a product hidden with its last variant? **No** (finding 1) | a seeded product, one of the page's with two variants, one page |

All bounds are constants of the configurations: the sets of ids (an id is used once, so
`Payments`, `Transfers` and `Lots` bound the length of a history), `Days`, and the
`Max...` constants. Guards mention a bound only in `Midnight` (`today + 1 \in Days`),
`BeginReset` (`MaxResets`), `Disconnect` and `Fail` of Checkout (`MaxFaults`), what the world
does in Alerts (`MaxEvents`) and in Notifications (`MaxChanges`, `MaxFaults`), the issue of tokens in
Sessions (`MaxTokens`) and the size of a model's answer in AgentChat (`MaxCalls`;
`MaxIterations` is the code's own limit). `Granted`, `Named` and `Bodies` of Accounts are
the values that requests ask for. Scenes are instances with parameters of their own that
share a run: the MC modules restrict each to what it is about. Symmetry is used only in
`inventory_cakes`, which has no liveness property. `CHECK_DEADLOCK FALSE` is set where the
system may come to rest: the ids or the questions run out, everything is decided, or, in
`admission`, all accounts end up disabled.

## 5. Fairness

* *Sweep*: strong fairness of `SweepScan(last)` and `SweepStep(p)`: the scheduler starts
  the job every 15 minutes (`scheduler.py`), a payment that stays pending falls behind
  the cutoff of all later runs, and neither errors nor restarts hit the same row in every
  run. It is strong because an error or a restart disables the step again and again.
  Nothing is assumed of customers, staff, the bank or SePay.
* *Inventory*: strong fairness of each session's steps, because PostgreSQL's lock queue
  is fair and a wait may be disabled and enabled again before it is served; weak
  fairness of `DeadlockVictim`, because the deadlock detector runs whenever a wait lasts.
* *Admission*: weak fairness of `Enter` and `TimeOut`: the event loop resumes what can go
  on and fires its timers. Nothing is assumed of the endpoints.
* *Checkout*: weak fairness of `Receive` and `Discard` (an answer arrives) and of the steps
  of a cancellation; strong fairness of the server's steps for each request, because the
  locks it waits for come and go and PostgreSQL's queue is fair (together `UnderWay`). Only a
  bounded number of messages and transactions gets lost. Nothing is assumed of managers, nor
  that anybody cancels. What the customer does is no scheduling of the code, so the two runs
  state it: `checkout_retry` assumes that the customer presses the button again for the stored
  attempt (`Press`), as the page asks for; `checkout` that the customer also loads a page again
  whose button does nothing (`GoOn`), without which `ResolvedUnlessWithdrawn` is false.
* *Alerts*: weak fairness of `Tick` (the interval comes round), of `Start \/ Skip` (a due
  job is started, or skipped if the lock is taken) and of `Commit` (a scan ends).
* *Notifications*: weak fairness of `Work(w)` (scans recur and go on) and strong fairness
  of `Begin(w, InFlight)`: a row that stays in flight is old in the end, and one of the
  scans that recur finds it so. A manager's request that has begun goes on (`Handles`), but
  nobody has to decide anything: a row that was reset may wait for ever.
* *AgentChat*: weak fairness of the loop (calls to the model have a timeout) and of
  `Receive` (an answer or a broken connection reaches the page). Nothing is assumed of what
  the model answers, nor of approvers.
* *Leafie*: weak fairness of the recogniser's timers, of hearing an answer or the abort
  timer, and of the steps of a request that was admitted: the model's call has a time
  limit (30 s for each read of the connection; a server that sends a little now and then could
  draw it out). No request has to be admitted, nobody has to ask.
* *Sessions*, *Accounts*, *Catalogue*: none; their properties are safety.

## 6. Proofs

TLAPS proves the following for every value of the constants that satisfies the named
assumptions of the modules (ids are not `NoX`, amounts are positive, payment ids are
numbers; lots, orders, alerts, clients, jobs, sessions and the requests that scan are finitely
many; no cart is empty; the slots of calls and of flows are apart;
`MaxInflight + Cardinality(Jobs) <= PoolSize`). Two theorems state a hypothesis of their own:
`AuditStaysTrue` and `EarliestGoesFirst`.

* **Sums**: no theorem of its own, the facts about `SumFunctionOnSet` that money and stock
  need: what a sum is when an element is added, removed or changed, that sums of disjoint sets
  add up, that order does not matter. The library folds over a set in an order it does not
  tell. The lemmas compare the fold with a function that gives every subset its sum
  (`Additive`); that there is one, and only one, follows by looking at a smallest subset
  for which it fails (`SmallestSet`), since the library's induction over finite sets takes a
  predicate and cannot be cited.
* **OrderPaymentsProofs**: every property of both runs but liveness. `TypeCorrect`,
  `NeverOverCaptured`, `CancelledStaysEmpty`, `ReceiptsAreTrue`, `QRMoneyIsBacked`, and from the
  last two `TransfersAreTraced`. Their inductive invariant `SafetyInv` is `TypeOK`,
  `WellFormed` and the four invariants together. They lean on each other: a receipt
  stays matched because a captured payment only becomes refunded; QR money is backed
  because only `Confirm` captures a QR payment; an order holds no more than its price
  because each capture checks the balance under the lock. `WellFormed` says that an order
  not yet placed holds nothing, that only pre-orders wait in `cho`, that an unused payment
  id belongs to no order, and that only QR payments carry SePay's tag. There is one lemma
  for the types (`NextTypeOK`), one for how rows move (`NextMoves`) and one for the money
  (`NextMoney`), each with one step per action. `TotalsInv` adds that there are finitely many
  rows and each is about some money, and gives `PaidIsTheSum`; `CoherentInv` adds that an
  unedited QR payment still to be paid is the newest of its order, and gives
  `PaymentsAreCoherent`. `RowsOnlyMoveForward` and `ContractKept`, the refinement of
  OrderContract step by step, need all of it. Together they are `OnlyAllowedSteps`.
* **InventoryProofs**: every property of both runs but liveness, along
  three invariants, each on top of the one before. `Typed` says for each kind of transaction
  what its record may look like at its place (`SaleRole`, `CancelRole`, `LotRole`). `Protected`
  says that no two transactions hold conflicting locks (`LockExclusion`), and that what a
  transaction goes by is locked (`SaleRows`, `SaleMoves`, `CancelLocks`, `DisposeLocks`):
  the lots a sale has taken from are still on sale, a cancellation holds its order and
  no stock behind what it wants. A step of another transaction cannot touch any
  of that (`LocksFrame`). From it follow `NothingBlocked`, `DisposalIsAsSeen` and
  `CancellationsDoNotDeadlock`: a cancellation in a circle waits for one that wants a greater
  lot, and there is a greatest one. `Books` says that what a transaction has written goes on
  from the committed stock and adds up with what it has still to do (`Own`), and that
  stock, counter, ledger, trace and allocations of each lot and order agree (`LotBooks`,
  `OrderBooks`). While a transaction runs only `Own` changes; when it commits, `SaleCommits` and
  `CancelCommits` carry its sums over to the books. `StockIsAccounted` and `OrdersAreWhole`
  read them off, together with `CodesAreUnique`, where the unique index does the work.
  `StockContractKept` is the refinement: a commit of a sale reserves, that of a
  cancellation returns, and nothing in between changes what a reader of the committed rows
  can see. `NothingIsPassedOver` is about the order of a sale: `Looks` says that every lot of
  the item that the statement has locked is one of its rows, is still waited for or cannot be
  sold, and whoever takes from a row has emptied those before it. What is passed over
  therefore came later in the rows that the query returned. `EarliestGoesFirst` adds `Sorted`,
  that these rows are in the order of the expiry dates. `Sorted` is an invariant only while no
  date is moved, so the theorem has `Expiries = {}`, as the instance of the run; with dates
  that move the property is false (section 7, *FEFO and edits*), and `NothingIsPassedOver`,
  which has no such hypothesis, is what remains true.
* **AdmissionProofs**: `TypeCorrect`, `WaitingIsCounted`, `TokensStay`, together
  `PlacesAreCounted`; and `PoolIsEnough`. The inductive invariant adds to the type that
  borrowers are exactly the requests at work or about to start, that a line forms only when
  all tokens are out, that the counter is the number of waiting and late requests, and that
  only requests at work and jobs hold connections; the pool then suffices by counting, with
  `Reserve`.
  The module goes on with the other half of the run: `AccountsStayWhole` and `RightsAreHeld`.
  The inductive invariant `AccountsInv` says what a request on its way to the commit may be
  about to write (`Legal`): a role only for an administrator, `active` only about somebody else
  and only for who manages, a new account with the role of a customer unless an administrator
  makes it. `OnlyAdminsCreate` reads that off the routes. `CommitWrites` then says that a
  commit changes one row at most, by the columns its request mentions, and that what is left is
  unique, because the unique columns refuse the rest; both theorems follow without a word
  about what other requests have loaded, which is the point. `PagesAgree` is about the three
  tables of Access: page by page, what is offered for a capability is served to each role that
  has it (`BackOfficeCalls`, `ManagementCalls`, `Fits`), also by the tie to an order;
  `PagesInv` adds that the role a browser goes by is true or known to be old. The two buttons of
  `Withheld` are part of the statement: what is refused is among them, and nothing else is.
  `RightsAreHeld` goes by the caller as loaded: an administrator who is demoted while a role
  change of theirs is under way, even of their own role, is not stopped.
* **AgentActionsProofs**: `TypeCorrect`, `RunsAreQueued`, `RejectionsHold`,
  `CompletedIsDone`, `OrphansAreDead`, and from them `DecisionsAlwaysHold` and
  `LogIsAlwaysTrue`, the properties of the run. The strengthening of `OneRunPerQueueing`
  counts tickets: each time in the queue gives one, a claim takes it, a run uses it up.
  Until its first reset a proposal nobody approved has nobody at work on it (`Untouched`),
  and a session about to log `hoan_thanh` has seen the tool take effect (`Done`).
  `ChatsKeepTheLifecycle` says that chats add nothing to this lifecycle but its own `Propose`, so
  that all of these theorems hold with chats. `TurnsAreTold` has the invariant `ChatInv`: the
  messages of a turn with the calls not handled yet are a conversation in which each call is
  followed by its answer (`Answering`), what is proposed in the turn was made by it
  and is in the log, and no two turns have made the same proposal.
* **CheckoutProofs**: `TypeCorrect`, `KeysAreIdempotent`, `CounterIsExact`,
  `PersonalLimitsHold`, `LimitsHold`, and from these `VouchersAreKept`. An order's key is in
  use from its commit on, and the unique constraint refuses a second one. The limits need
  `Reserved`: only one request has a voucher locked, and while it has, the voucher may still
  be used, because nobody else's commit (`OneMoreUse`) and no manager (`EditVoucher` waits
  for the lock) touches it; a cancellation only returns uses (`OneUseLess`). The counter is
  then compared with the set of live orders by adding and removing one order at a time.
  `Attempted` says that what is sent, stored or ordered was drawn as an attempt, which never
  changes. `OrdersAreKnown` adds `AttemptsTold`: an attempt that was drawn is stored, or its
  outcome was told to a tab.
* **AlertsProofs**: `AlertsStayBounded`. A bound on the open alerts of one lot and kind says
  nothing of the scans that have already concluded to write another one, so the property
  counts both. A scan concludes to add an alert only when none is open; what counts then is one
  for each scan that runs, the requests and, because of the advisory lock, one job
  (`WritersFew`, `ConcludeKeeps`). A commit turns a scan that was to write into an alert that
  is open (`CommitKeeps`), provided a scan writes one alert of a lot and kind at most, which
  `AInv` adds (`Sound`).
  The module goes on with Notifications: `AuditStaysTrue`. To the two halves of the property the invariant
  `NInv` adds what a scan goes by at each place (`Remembers`): what it runs is in the log, and
  what it reports as told has been told, or its alert was deleted. That holds across crashes,
  retries, rows settled by others and managers who reset, approve and reject (`ManagerMoves`,
  `ManagersKeep`: an approval at work remembers what a scan does), because an insight is removed
  only with its alert. The theorem has `Tokens = Nat`: the occurrences of an insight are not bounded in the code, and
  only the instance of the run bounds them.
* **StorefrontProofs**: `SessionsLast`, `CartsStayApart` and `RefreshesStayWhole`. The
  invariant says of each call (`Sound`) that one that waits has a refresh to wait for and
  that one that is made again has a token that has not expired, and of the browser
  (`Peace`) that until something ends a session all tokens are of enabled accounts, none
  that refreshes has expired, no call has failed and a pair is stored. A call that ends
  with a 401 then needs a refresh token that is missing or a second 401, and there is
  neither.
  The module goes on with Leafie: `ConversationsStayWhole`, `LimitsStayFair` and
  `DictationStaysFollowed`. Their invariant `LInv` has a part for each: `ChatInv` says that
  the tab waits for an answer exactly while it has a current call, and that this call was asked
  by the account on the screen and is the last message there (`Asked`), so that its answer can
  only follow its question; a change of account, a cleared history and a page loaded again all
  forget the call. `BucketInv` says that an address stands at one place, that its times are in
  order and that the recent ones are those `granted`, so that a refusal for the limit is just;
  `SlotsInv` that the calls of the model are no more than the slots. `VoiceInv` says that the
  draft holds nothing but the one recording began with and what was dictated since: without
  it a late result could undo typing. `Requests` need not be finite.

Only model-checked: liveness (`AbandonedOrdersReclaimed`, `TransactionsEnd`,
`WaitingEnds`, `ResolvedUnlessWithdrawn`, `ScansSettle`, `InsightsSettle`, `TurnsEnd`,
`WaitsEnd`), which is out of the prover's reach, as is `ENABLED`; Catalogue, whose run is
a finding; and `PressingGoesOn`, which is another.

Nothing can be proved here about `SelectSeq` or a CHOOSE of a sorted sequence, so where a theorem
depends on an order it is stated by places: the rows a sale takes from are in any order that is
sorted by expiry (`ByExpiry`), a page of the ledger is the movements at their places (`Filtered`),
and the candidates of a scan are a set, from which `Earliest` takes the first in the order of the
list (`Rank`). The messages kept and the recent times of an address are cut off by
their places (`SubSeq`), and of the order in which a scan's new alerts are appended the proof
uses only that each comes once.

## 7. Findings

1. *Last variant* (run `catalogue`): `delete_variant` marks a variant inactive and then asks
   the database for an active variant of the product (`product_service.py:229`). Sessions do
   not flush before a query (`db.py:37`), so the variant itself is still found and the
   product stays active, with no active variant and out of reach of the admin page. The test
   of exactly this (`tests/test_product_service.py:108`) passes because its session flushes
   (`tests/conftest.py:107`). Deleting the variant a second time does hide the product,
   which the page cannot do.
2. *Submit guard* (run `checkout_retry`): `handleSubmit` sets `submittingRef`
   (`CheckoutPage.tsx:175`), returns at once while it is set (`:154`), and nothing resets it.
   After one failed request the button is enabled again and does nothing, while the page says
   that an order waits to be completed and asks to press on (`:253`, `:230`). Only loading the
   page again helps.

Disagreements met while modelling, which no run states; the models contain what the code does:

* *Pending payments*: the sweep says it fails orders whose payment stays pending
  (`maintenance_service.py:52`), but `fail_unpaid_order` refuses an order that holds some
  money or is being delivered (`order_service.py:713-716`) and reports nothing; its other
  pending payments are scanned and skipped for ever. `AbandonedOrdersReclaimed` leaves those
  orders out.
* *FEFO and edits*: PostgreSQL sorts before it locks (`inventory_service.py:55`). If
  `update_batch` moves an expiry date between the two (`batch_service.py:444`), the sale
  takes from the lot that now expires later (`order_service.py:320` says the earliest).
  `EarliestFirst` is therefore checked without such edits.
* *Withdrawn goods and vouchers*: the browser keeps its attempt unless the answer is a 400 or
  a 422 (`checkoutAttempt.ts:13`), but a withdrawn voucher is answered with a 404
  (`voucher_service.py:47`), and so are a variant and a gift box that are not on sale any more
  (`order_service.py:317`, `:357`). The attempt is then repeated for as long as they stay
  withdrawn, whatever the customer puts into the form (`checkoutAttempt.test.ts:18` says a
  rejection for good allows correction). `ResolvedUnlessWithdrawn` shows that, given faults that
  end and a customer who loads a stuck page again, nothing else is repeated for ever.
* *Revalidation*: the state of a proposal's target is compared before the tool runs and
  without a lock (`agent_service.py:581`), so a target that moves on in between is acted
  upon after all (`tools.py:37`). The domain services still check for themselves; what they
  do not check is the snapshot.
* *Reset*: `reset_action` looks at the row without a lock (`agent_service.py:629`) and
  writes it by primary key, so a slow approval that finishes in between is put back
  into the queue (`docs/specs/10-p2-remediation.md:430`). `OneRunPerQueueing` bounds the
  damage: one more run per reset.
* *Expiry alerts* never escalate: an open early warning keeps the scan from raising the
  later one, and its severity stays (`alert_service.py:278`, `docs/specs/04-inventory.md:35`).
* *Notifications*: a resolved insight may be overwritten by a supersession that was
  collected before; racing retries may exceed two attempts (`Retry` goes by an unlocked
  read); a notification that should have been reopened may be taken for told when its row
  is reconciled (`agent_service.py:343`, `TakenForDone` in the property); after a crash
  between the notification and the outcome the insight it replaces stays open beside it, and
  so does one that an approval replaces, since only scans supersede.
* *Automatic rows and managers*: reset, approval and rejection do not look at
  `execution_mode` (`agent_service.py:604-638`). A row of the unattended half that was stuck and
  is reset counts as pending, so every later scan skips it and tells nothing until a manager
  decides; a rejected one is never told (`LeftToManagers` in the property).
* *Wordings*: a candidate whose recommendation is worded anew is refused by its key with a 409
  that ends the scan (`agent_service.py:391`, `docs/system-reliability-audit.md:240-242`). While
  the model goes on to word it otherwise, the candidates behind it starve and withdrawals are
  lost; `InsightsSettle` states it as the other way out.
* *Agent chat*: a loop that fails after it has proposed names none of its proposals
  (`agent_service.py:902-911`); the approve buttons of the page need
  `agent.action.execute`, so staff cannot approve there the drafts the service would let
  them.
* *Sessions*: a lost or overloaded refresh (a 503) clears both tokens (`api.ts:128`, against
  the comment below it); a refresh answered after a sign-out or another sign-in
  overwrites the stored tokens; a request sent for one account may be replayed with another
  one's token; a failed sign-in in one tab signs every tab out. `SessionKept` leaves these out
  through `trouble`, `CartsApart` holds all the same.
* *Pages and services*: the page of an order offers staff statuses and a cancellation
  (`OrderDetailCard.tsx:158-175`) that the service refuses (`order_service.py:498`, `:745`;
  `docs/specs/09-p0-p1-remediation.md:19`). `PagesServed` names these two (`Withheld`) and shows
  that they are the only ones; a BOM button is shown with `giftbox.read`
  (`AdminGiftBoxPage.tsx:123`) while its page needs `bom.write` (`App.tsx:156`);
  `AdminAgentPage` is not routed; `tests/test_rbac_matrix.py`, which
  `docs/specs/09-p0-p1-remediation.md:396` promises, does not exist.
* *Accounts*: two identities with one verified address may be linked in a race, the later
  over the earlier; the last administrator may disable or demote itself; changing a password
  revokes no token; a taken name met by the unique index is a 500.
* *Catalogue*: two concurrent deletions may empty a gift box
  (`gift_box_service.py:227-232`); the status of one variant's edit becomes the product's;
  a product whose first variant was refused stays without one.

## 8. What is not modelled

* `delete_order`: the movement ledger's foreign key refuses any order that moved stock,
  and no other table here depends on it.
* The fallback of `_restore_order_inventory` for orders older than the allocation table
  (`order_service.py:667-690`). The imported quantity of a lot, which managers may edit with
  no movement of stock (`batches.py:105-113`). The dashboards' count of expired lots still
  marked active.
* In OrderPayments, the row locks of payments inside a cancellation: the order's row is
  locked first on every path that reaches them.
* Checkouts with several voucher codes (the pages send at most one, a direct client of the
  API may send more), the 409 for changed content under an old key, browsers without Web
  Locks, vouchers redeemed at the counter, edits of the limit per customer, and the
  staff's pre-order form, which keeps its attempts the same way. A voucher's discount,
  dates and minimum only decide between going on and a 400. `KnownOrRetryable` leaves out
  keys a tab was told to give up: a request that outlives its own refused repeat may still
  make an order, which the customer finds in the list of orders and the sweep reclaims.
  SePay that is not configured at all answers every checkout by QR code with a 503; here a 503
  is a failure, and failures are bounded.
* The order in which anyio serves its waiters, and when a cancelled waiter hands on its
  token: the model gives it up at the cancellation.
* Proposals that would change nothing; traces, summaries and redaction of the chat.
* In Alerts and Notifications the reads of a scan are one instant; statuses that no write
  tells apart are one. In Sessions and Accounts an answer of the server and the reaction of
  the browser to it are one step, a replayed call is answered before its new token expires,
  and an update request mentions one field. Passwords, telephone numbers, avatars, the
  Cognito client of the browser and the voucher of a cart are left out.
* In Leafie the choice of products, the wording, telemetry, quotas, two tabs of one browser,
  and questions asked between a change of account and its effect. The abort timer of the
  browser (40 s) and the limit of the model (30 s) may fire in any order.
* In Catalogue prices, quantities, names, images and the public queries; orders check a
  variant or a box when they are made, not its product.
* Suppliers and lookups are single-row edits and queries; reports and analytics are read-only
  sums; logging and security headers keep no state; migrations run before the program; scripts
  are run by hand. Access says who may use them.
