------------------------------ MODULE Alerts ------------------------------
(* The inventory alerts (services/alerts) and the jobs that keep them up to *)
(* date (scheduler.py).  A scan reads the stock and the open alerts, and    *)
(* writes what it concluded in one commit; other scans, the managers and    *)
(* the stock move in between.  The scheduled jobs of the API instances take *)
(* turns under an advisory lock; the scans that requests run take none.     *)
(* Days are abstracted to the phases of a lot's life that the code tells    *)
(* apart, the reads of one scan to one instant.                             *)
EXTENDS Integers, Sequences, FiniteSets, SequencesExt, FiniteSetsExt, Functions

CONSTANTS Lots,        \* lots of the bakery, of every kind
          Variants,    \* variants of the catalogue
          VariantOf,   \* the variant of a product lot, NoVariant for another lot
          NoVariant,
          Products,    \* a partition of Variants
          Jobs,        \* the scan jobs, one per API instance
          Requests,    \* requests that scan: orders, batches, the manual button
          NoLot,       \* the lot of the digest alert: it is about the catalogue
          Nobody,
          MaxStock,    \* units a lot may hold
          LowStock,    \* DEFAULT_LOW_STOCK_THRESHOLD
          VeryLow,     \* stock from which a low-stock alert is high
          Threshold,   \* muc_gioi_han_ton of a variant
          MaxEvents    \* bound on what the world does during a behaviour

ASSUME Catalogue == /\ VariantOf \in [Lots -> Variants \cup {NoVariant}]
                    /\ NoVariant \notin Variants /\ NoLot \notin Lots
                    /\ Products \subseteq SUBSET Variants /\ {} \notin Products
ASSUME Thresholds == /\ {MaxStock, LowStock, VeryLow, Threshold, MaxEvents} \subseteq Nat
                     /\ Nobody \notin Jobs /\ Jobs \cap Requests = {}
ASSUME TablesFinite == IsFiniteSet(Lots) /\ IsFiniteSet(Requests)

VARIABLES lot,      \* life, stock and listing of each lot
          alerts,   \* the rows of CanhBaoTonKho in the order of their ids
          reopened, \* ids of the rows a manager made active again
          scan,     \* what each running scan concluded from what it read
          lock,     \* the job that holds the advisory lock
          due,      \* jobs the scheduler is to start
          events    \* what the world did so far

alertsVars == <<lot, alerts, reopened, scan, lock, due, events>>

(* more than a week; a week; less than four days; expired today; before today *)
Lives == <<"fresh", "week", "near", "today", "past">>
Scanners == Jobs \cup Requests
(* No write of the table tells an alert in hand from an untouched one, nor a *)
(* dismissed one from one handled.                                           *)
Active == {"chua_xu_ly"}
AlertStates == Active \cup {"da_xu_ly", "deleted"}
Families == {"stock", "expiry", "digest"}

Row(l, type, sev) == [lot |-> l, type |-> type, sev |-> sev, status |-> "chua_xu_ly"]
Family(type) == CASE type = "ton_kho_thap" -> "stock"
                  [] type \in {"sap_het_han", "qua_han"} -> "expiry"
                  [] type = "san_pham_can_nhap" -> "digest"
About(l, f) == {i \in DOMAIN alerts : /\ alerts[i].lot = l /\ Family(alerts[i].type) = f
                                      /\ alerts[i].status \in Active}

(* stock a customer can buy: what expired earlier today still counts *)
Available(v) == MapThenSumSet(LAMBDA l : lot[l].stock,
                   {l \in Lots : /\ VariantOf[l] = v /\ lot[l].live
                                 /\ lot[l].life # "past"})
Short(p) == \E v \in p : Available(v) <= Threshold
Unavailable(p) == \A v \in p : Available(v) = 0
DigestNeeded == \E p \in Products : Short(p)
DigestSeverity == IF \E p \in Products : Unavailable(p) THEN "cao" ELSE "binh_thuong"

LowAlerts == {Row(l, "ton_kho_thap", IF lot[l].stock <= VeryLow THEN "cao" ELSE "binh_thuong") :
                l \in {k \in Lots : /\ lot[k].live /\ VariantOf[k] = NoVariant
                                    /\ lot[k].stock \in 1..LowStock
                                    /\ About(k, "stock") = {}}}
\* mutant: what is open is not looked at
LateAgain == {Row(l, "qua_han", "cao") :
                l \in {k \in Lots : /\ lot[k].live /\ lot[k].stock > 0
                                    /\ lot[k].life \in {"today", "past"}}}
LateAlerts == {Row(l, "qua_han", "cao") :
                 l \in {k \in Lots : /\ lot[k].live /\ lot[k].stock > 0
                                     /\ lot[k].life \in {"today", "past"}
                                     /\ About(k, "expiry") = {}}}
SoonAlerts == {Row(l, "sap_het_han", IF lot[l].life = "near" THEN "cao" ELSE "binh_thuong") :
                 l \in {k \in Lots : /\ lot[k].live /\ lot[k].stock > 0
                                     /\ lot[k].life \in {"week", "near"}
                                     /\ About(k, "expiry") = {}}}
Legacy == {i \in DOMAIN alerts : /\ alerts[i].type = "ton_kho_thap" /\ alerts[i].status \in Active
                                 /\ alerts[i].lot \in Lots /\ VariantOf[alerts[i].lot] # NoVariant}

NoScan == [on |-> FALSE, new |-> {}, close |-> {}, raise |-> {}, sev |-> "cao"]
LotAlerts == LowAlerts \cup LateAlerts \cup SoonAlerts
Digests == About(NoLot, "digest")

AlertsInit ==
  /\ \E q \in {0, MaxStock} : lot = [l \in Lots |-> [life |-> "fresh", stock |-> q, live |-> TRUE]]
  /\ alerts \in {<<>>} \cup {<<Row(l, "ton_kho_thap", "cao")>> :
                               l \in {k \in Lots : VariantOf[k] # NoVariant}}
  /\ reopened = {} /\ lock = Nobody /\ due = Jobs /\ events = 0
  /\ scan = [s \in Scanners |-> NoScan]

Plan(new, close, raise) == [on |-> TRUE, new |-> new \cup LotAlerts, close |-> close \cup Legacy,
                            raise |-> raise, sev |-> DigestSeverity]

(* Of several open digests the scan keeps the one its query returns first,   *)
(* which may be any: the query states no order.                              *)
\* mutant: the digest that stays keeps the severity it was raised with
MergedAsIs == {Plan({}, Digests \ {kept}, {}) : kept \in Digests}
Merged == {Plan({}, Digests \ {kept}, IF alerts[kept].sev = DigestSeverity THEN {} ELSE {kept}) :
             kept \in Digests}
Plans == IF ~DigestNeeded THEN {Plan({}, Digests, {})}
         ELSE IF Digests # {} THEN Merged
         ELSE {Plan({Row(NoLot, "san_pham_can_nhap", DigestSeverity)}, {}, {})}

Conclude(s) == \E plan \in Plans : scan' = [scan EXCEPT ![s] = plan]

(* The scheduler: the interval, or a checkout that wakes the job early.      *)
Tick(j) ==
  /\ j \notin due /\ due' = due \cup {j}
  /\ UNCHANGED <<lot, alerts, reopened, scan, lock, events>>

Start(j) ==
  /\ j \in due /\ lock = Nobody
  /\ due' = due \ {j} /\ lock' = j /\ Conclude(j)
  /\ UNCHANGED <<lot, alerts, reopened, events>>

(* The lock is taken, by this instance's job or by another's: nothing runs.  *)
Skip(j) ==
  /\ j \in due /\ lock # Nobody /\ due' = due \ {j}
  /\ UNCHANGED <<lot, alerts, reopened, scan, lock, events>>

Ask(r) ==
  /\ ~scan[r].on /\ events < MaxEvents /\ events' = events + 1 /\ Conclude(r)
  /\ UNCHANGED <<lot, alerts, reopened, lock, due>>

Leave(s) ==
  /\ scan' = [scan EXCEPT ![s] = NoScan]
  /\ lock' = IF lock = s THEN Nobody ELSE lock

(* One commit.  An UPDATE of a row that is gone fails, and all with it.      *)
Commit(s) ==
  LET plan == scan[s]
      lost == \E i \in plan.close \cup plan.raise : alerts[i].status = "deleted"
  IN /\ plan.on /\ Leave(s)
     /\ alerts' = IF lost THEN alerts
                  ELSE [i \in DOMAIN alerts |->
                          [alerts[i] EXCEPT
                             !.status = IF i \in plan.close THEN "da_xu_ly" ELSE @,
                             !.sev = IF i \in plan.raise THEN plan.sev ELSE @]]
                       \o SetToSeq(plan.new)
     /\ UNCHANGED <<lot, reopened, due, events>>

(* An exception in the scan, or the death of its process, which frees the lock. *)
Abort(s) ==
  /\ scan[s].on /\ events < MaxEvents /\ events' = events + 1 /\ Leave(s)
  /\ UNCHANGED <<lot, alerts, reopened, due>>

(* What the rest of the system does to the stock, and time to the lots.      *)
Change(l, to) ==
  /\ events < MaxEvents /\ events' = events + 1
  /\ lot' = [lot EXCEPT ![l] = to]
  /\ UNCHANGED <<alerts, reopened, scan, lock, due>>
Stock(l) == \E q \in 0..MaxStock \ {lot[l].stock} : Change(l, [lot[l] EXCEPT !.stock = q])
GrowOld(l) == \E d \in DOMAIN Lives, e \in DOMAIN Lives :
            lot[l].life = Lives[d] /\ d < e /\ Change(l, [lot[l] EXCEPT !.life = Lives[e]])
Dispose(l) == Change(l, [lot[l] EXCEPT !.live = ~@])

(* The managers: open and close, in any order, and deletions.                *)
UpdateAlert(i, st) ==
  /\ events < MaxEvents /\ events' = events + 1
  /\ alerts[i].status \notin {"deleted", st}
  /\ alerts' = [alerts EXCEPT ![i].status = st]
  /\ reopened' = IF st \in Active /\ alerts[i].status \notin Active
                 THEN reopened \cup {i} ELSE reopened
  /\ UNCHANGED <<lot, scan, lock, due>>
Erase(ids) ==
  /\ events < MaxEvents /\ events' = events + 1 /\ ids # {}
  /\ alerts' = [i \in DOMAIN alerts |-> IF i \in ids THEN [alerts[i] EXCEPT !.status = "deleted"]
                                                     ELSE alerts[i]]
  /\ UNCHANGED <<lot, reopened, scan, lock, due>>
DeleteAlert(i) == alerts[i].status # "deleted" /\ Erase({i})
ClearResolved == Erase({i \in DOMAIN alerts : alerts[i].status = "da_xu_ly"})

AlertsNext ==
  \/ \E j \in Jobs : Tick(j) \/ Start(j) \/ Skip(j)
  \/ \E r \in Requests : Ask(r)
  \/ \E s \in Scanners : Commit(s) \/ Abort(s)
  \/ \E l \in Lots : Stock(l) \/ GrowOld(l) \/ Dispose(l)
  \/ \E i \in DOMAIN alerts : DeleteAlert(i) \/ \E st \in AlertStates \ {"deleted"} : UpdateAlert(i, st)
  \/ ClearResolved

(* APScheduler runs its jobs, and a running scan ends.                       *)
AlertsFairness == /\ \A j \in Jobs : WF_alertsVars(Tick(j)) /\ WF_alertsVars(Start(j) \/ Skip(j))
            /\ \A s \in Scanners : WF_alertsVars(Commit(s))
AlertsSpec == AlertsInit /\ [][AlertsNext]_alertsVars /\ AlertsFairness

-----------------------------------------------------------------------------
(* Types; and the advisory lock is held by the one job that scans.           *)
AlertsTypeOK ==
  /\ lot \in [Lots -> [life : ToSet(Lives), stock : 0..MaxStock, live : BOOLEAN]]
  /\ \A i \in DOMAIN alerts : /\ alerts[i].lot \in Lots \cup {NoLot}
                              /\ alerts[i].status \in AlertStates
                              /\ alerts[i].sev \in {"cao", "binh_thuong"}
  /\ reopened \subseteq DOMAIN alerts /\ lock \in Jobs \cup {Nobody} /\ due \subseteq Jobs
  /\ \A s \in Scanners : scan[s].close \cup scan[s].raise \subseteq DOMAIN alerts
  /\ \A j \in Jobs : scan[j].on <=> lock = j

(* Nothing in the table forbids two open alerts of one lot and kind.  What   *)
(* bounds them is that a scan adds none where one is open, and that the jobs *)
(* of all instances count as one scan: there are never more of them, open or *)
(* about to be written, than requests scanning at once and one job.          *)
DuplicatesBounded ==
  \A l \in Lots \cup {NoLot}, f \in Families :
    Cardinality(About(l, f) \ reopened)
      + Cardinality({s \in Scanners : \E r \in scan[s].new : r.lot = l /\ Family(r.type) = f})
    <= Cardinality(Requests) + 1

(* The table and what is about to be written to it stay within bounds.       *)
AlertsBounded == AlertsTypeOK /\ DuplicatesBounded

Settled ==
  /\ Cardinality(Digests) = (IF DigestNeeded THEN 1 ELSE 0)
  /\ \A i \in Digests : alerts[i].sev = DigestSeverity
  /\ Legacy = {} /\ LotAlerts = {}

(* Whatever wake-ups were missed, scans aborted, digests written twice or    *)
(* merged in two ways at once, alerts closed or deleted by hand: when the    *)
(* world holds still, the scans end with one digest of the right severity if *)
(* and only if some product is short, and with an alert for every lot.       *)
ScansSettle == <>[]Settled
=============================================================================
