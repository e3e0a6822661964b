---------------------------- MODULE AlertsProofs ----------------------------
(***************************************************************************)
(* What the alert table and the log of what runs unattended may hold, for  *)
(* any number of lots, alerts, instances and overlapping scans.            *)
(***************************************************************************)
EXTENDS Alerts, Notifications, Sums, TLAPS

Severities == {"cao", "binh_thuong"}
Types == {"ton_kho_thap", "sap_het_han", "qua_han", "san_pham_can_nhap"}
Rows == [lot : Lots \cup {NoLot}, type : Types, sev : Severities, status : AlertStates]

\* Of one lot and kind a scan writes one alert at most.
Sound(new) ==
  /\ new \subseteq Rows /\ IsFiniteSet(new)
  /\ \A r \in new, q \in new : r.lot = q.lot /\ Family(r.type) = Family(q.type) => r = q

ScanOK(s) ==
  /\ Sound(scan[s].new) /\ scan[s].sev \in Severities
  /\ ~scan[s].on => scan[s] = NoScan

AInv == /\ AlertsBounded /\ alerts \in Seq(Rows) /\ DOMAIN scan = Scanners
        /\ \A s \in Scanners : ScanOK(s)

Writes(s, l, f) == \E r \in scan[s].new : r.lot = l /\ Family(r.type) = f
Writers(l, f) == {s \in Scanners : Writes(s, l, f)}
Unasked(l, f) == About(l, f) \ reopened
\* Of one lot and kind no more are open or about to be written than there can be scans.
Bounded(l, f) == Cardinality(Unasked(l, f)) + Cardinality(Writers(l, f)) <= Cardinality(Requests) + 1

-----------------------------------------------------------------------------
(* Scans                                                                   *)

\* The image of a finite set is finite.
LEMMA ImageFinite ==
  ASSUME NEW S, IsFiniteSet(S), NEW g PROVE IsFiniteSet({g[x] : x \in S})
  <1> DEFINE T == {g[x] : x \in S}
             h == [x \in S |-> g[x]]
  <1>1. h \in [S -> T] /\ \A y \in T : \E x \in S : h[x] = y
    OBVIOUS
  <1>2. h \in Surjection(S, T)
    BY <1>1 DEF Surjection
  <1> QED BY <1>2, FS_Surjection

\* What a scan concludes about the lots is finite, sound, and about what nothing is open for.
LEMMA LotAlertsSound ==
  ASSUME AlertsTypeOK
  PROVE  /\ Sound(LotAlerts)
         /\ \A r \in LotAlerts : r.lot \in Lots /\ About(r.lot, Family(r.type)) = {}
  <1> DEFINE Low(l) == Row(l, "ton_kho_thap", IF lot[l].stock <= VeryLow THEN "cao" ELSE "binh_thuong")
             Soon(l) == Row(l, "sap_het_han", IF lot[l].life = "near" THEN "cao" ELSE "binh_thuong")
             Late(l) == Row(l, "qua_han", "cao")
             LowLots == {k \in Lots : /\ lot[k].live /\ VariantOf[k] = NoVariant
                                      /\ lot[k].stock \in 1..LowStock /\ About(k, "stock") = {}}
             LateLots == {k \in Lots : /\ lot[k].live /\ lot[k].stock > 0
                                       /\ lot[k].life \in {"today", "past"}
                                       /\ About(k, "expiry") = {}}
             SoonLots == {k \in Lots : /\ lot[k].live /\ lot[k].stock > 0
                                       /\ lot[k].life \in {"week", "near"}
                                       /\ About(k, "expiry") = {}}
             low == [l \in Lots |-> Low(l)]
             late == [l \in Lots |-> Late(l)]
             soon == [l \in Lots |-> Soon(l)]
  <1>1. LotAlerts = {low[l] : l \in LowLots} \cup {late[l] : l \in LateLots} \cup {soon[l] : l \in SoonLots}
    BY DEF LotAlerts, LowAlerts, LateAlerts, SoonAlerts
  <1>2. IsFiniteSet(LotAlerts)
    <2>1. IsFiniteSet(LowLots) /\ IsFiniteSet(LateLots) /\ IsFiniteSet(SoonLots)
      BY TablesFinite, FS_Subset
    <2> HIDE DEF LowLots, LateLots, SoonLots, low, late, soon
    <2>2. /\ IsFiniteSet({low[l] : l \in LowLots}) /\ IsFiniteSet({late[l] : l \in LateLots})
          /\ IsFiniteSet({soon[l] : l \in SoonLots})
      BY <2>1, ImageFinite
    <2>3. IsFiniteSet({low[l] : l \in LowLots} \cup {late[l] : l \in LateLots})
      BY <2>2, FS_Union
    <2> QED BY <1>1, <2>2, <2>3, FS_Union
  <1>3. ASSUME NEW r \in LotAlerts
        PROVE  /\ r \in Rows /\ r.lot \in Lots
               /\ About(r.lot, Family(r.type)) = {}
               /\ r = IF Family(r.type) = "stock" THEN Low(r.lot)
                      ELSE IF lot[r.lot].life \in {"week", "near"} THEN Soon(r.lot) ELSE Late(r.lot)
    <2>1. CASE \E l \in LowLots : r = Low(l)
      BY <2>1 DEF Row, Rows, Family, Types, Severities, AlertStates, Active
    <2>2. CASE \E l \in LateLots : r = Late(l)
      BY <2>2 DEF Row, Rows, Family, Types, Severities, AlertStates, Active
    <2>3. CASE \E l \in SoonLots : r = Soon(l)
      BY <2>3 DEF Row, Rows, Family, Types, Severities, AlertStates, Active
    <2> QED BY <1>1, <2>1, <2>2, <2>3
  <1>4. ASSUME NEW r \in LotAlerts, NEW q \in LotAlerts, r.lot = q.lot, Family(r.type) = Family(q.type)
        PROVE  r = q
    BY <1>3, <1>4
  <1>5. \A r \in LotAlerts : r \in Rows
    BY <1>3
  <1>6. Sound(LotAlerts)
    BY <1>2, <1>4, <1>5 DEF Sound
  <1> QED BY <1>3, <1>6

LEMMA LegacyType == Legacy \subseteq DOMAIN alerts /\ Digests \subseteq DOMAIN alerts
  BY DEF Legacy, Digests, About

\* Every plan of a scan is sound, and what it adds is about what nothing is open for.
LEMMA PlanSound ==
  ASSUME AlertsTypeOK, NEW plan \in Plans
  PROVE  /\ plan.on /\ Sound(plan.new) /\ plan.sev \in Severities
         /\ plan.close \cup plan.raise \subseteq DOMAIN alerts
         /\ \A r \in plan.new : About(r.lot, Family(r.type)) = {}
  <1> DEFINE digest == Row(NoLot, "san_pham_can_nhap", DigestSeverity)
  <1>1. DigestSeverity \in Severities
    BY DEF DigestSeverity, Severities
  <1>2. /\ digest \in Rows /\ digest.lot = NoLot /\ Family(digest.type) = "digest"
        /\ NoLot \notin Lots
    BY <1>1, Catalogue DEF Row, Rows, Family, Types, Severities, AlertStates, Active
  <1>3. Digests = About(NoLot, "digest")
    BY DEF Digests
  <1>4. PICK new, close, raise :
          /\ plan = Plan(new, close, raise) /\ close \cup raise \subseteq DOMAIN alerts
          /\ new = {} \/ (new = {digest} /\ Digests = {})
    <2>1. CASE ~DigestNeeded
      BY <2>1, LegacyType DEF Plans
    <2>2. CASE DigestNeeded /\ Digests # {}
      <3>1. PICK kept \in Digests :
              plan = Plan({}, Digests \ {kept}, IF alerts[kept].sev = DigestSeverity THEN {} ELSE {kept})
        BY <2>2 DEF Plans, Merged
      <3> DEFINE raise == IF alerts[kept].sev = DigestSeverity THEN {} ELSE {kept}
      <3>2. raise \subseteq DOMAIN alerts /\ Digests \ {kept} \subseteq DOMAIN alerts
        BY LegacyType
      <3> HIDE DEF raise
      <3> QED BY <3>1, <3>2 DEF raise
    <2>3. CASE DigestNeeded /\ Digests = {}
      BY <2>3 DEF Plans
    <2> QED BY <2>1, <2>2, <2>3
  <1>5. /\ plan.on /\ plan.new = new \cup LotAlerts /\ plan.close = close \cup Legacy
        /\ plan.raise = raise /\ plan.sev = DigestSeverity
    BY <1>4 DEF Plan
  <1>6. Sound(LotAlerts) /\ \A r \in LotAlerts : r.lot \in Lots /\ About(r.lot, Family(r.type)) = {}
    BY LotAlertsSound
  <1>7. IsFiniteSet(new \cup LotAlerts)
    BY <1>4, <1>6, FS_EmptySet, FS_Singleton, FS_Union DEF Sound
  <1> HIDE DEF digest
  <1>8. new \cup LotAlerts \subseteq Rows
    BY <1>2, <1>4, <1>6 DEF Sound
  <1>9. \A r \in new \cup LotAlerts, q \in new \cup LotAlerts :
          r.lot = q.lot /\ Family(r.type) = Family(q.type) => r = q
    BY <1>2, <1>4, <1>6 DEF Sound
  <1>10. \A r \in new \cup LotAlerts : About(r.lot, Family(r.type)) = {}
    BY <1>2, <1>3, <1>4, <1>6
  <1>11. Sound(plan.new)
    BY <1>5, <1>7, <1>8, <1>9 DEF Sound
  <1> QED BY <1>1, <1>4, <1>5, <1>10, <1>11, LegacyType

-----------------------------------------------------------------------------
(* Counts                                                                  *)

LEMMA OneMore ==
  ASSUME NEW S, IsFiniteSet(S), NEW x
  PROVE  /\ IsFiniteSet(S \cup {x}) /\ Cardinality(S) \in Nat
         /\ Cardinality(S \cup {x}) <= Cardinality(S) + 1
  <1>1. Cardinality(S) \in Nat
    BY FS_CardinalityType
  <1>2. /\ IsFiniteSet(S \cup {x})
        /\ Cardinality(S \cup {x}) = IF x \in S THEN Cardinality(S) ELSE Cardinality(S) + 1
    BY FS_AddElement
  <1> QED BY <1>1, <1>2

\* The instances' jobs count as one scan, as only the one with the lock has anything to write.
LEMMA WritersFew ==
  ASSUME AInv, NEW l, NEW f
  PROVE  /\ IsFiniteSet(Writers(l, f)) /\ Cardinality(Writers(l, f)) <= Cardinality(Requests) + 1
         /\ Cardinality(Writers(l, f)) \in Nat /\ Cardinality(Requests) \in Nat
  <1>1. Writers(l, f) \subseteq Requests \cup {lock}
    <2> SUFFICES ASSUME NEW s \in Writers(l, f), s \notin Requests PROVE s = lock
      OBVIOUS
    <2>1. s \in Jobs /\ scan[s].new # {} /\ ScanOK(s)
      BY DEF Writers, Writes, AInv, Scanners
    <2>2. scan[s].on
      BY <2>1 DEF ScanOK, NoScan
    <2> QED BY <2>1, <2>2 DEF AInv, AlertsBounded, AlertsTypeOK
  <1>2. /\ IsFiniteSet(Requests \cup {lock}) /\ Cardinality(Requests) \in Nat
        /\ Cardinality(Requests \cup {lock}) <= Cardinality(Requests) + 1
    BY TablesFinite, OneMore
  <1>3. IsFiniteSet(Writers(l, f)) /\ Cardinality(Writers(l, f)) <= Cardinality(Requests \cup {lock})
    BY <1>1, <1>2, FS_Subset
  <1>4. Cardinality(Writers(l, f)) \in Nat /\ Cardinality(Requests \cup {lock}) \in Nat
    BY <1>2, <1>3, FS_CardinalityType
  <1> QED BY <1>2, <1>3, <1>4

LEMMA UnaskedFinite ==
  ASSUME AInv, NEW l, NEW f
  PROVE  /\ IsFiniteSet(Unasked(l, f)) /\ Cardinality(Unasked(l, f)) \in Nat
         /\ Unasked(l, f) \subseteq DOMAIN alerts
  <1>1. Unasked(l, f) \subseteq 1..Len(alerts) /\ Len(alerts) \in Nat
    BY DEF Unasked, About, AInv
  <1>2. IsFiniteSet(1..Len(alerts))
    BY <1>1, FS_Interval
  <1>3. IsFiniteSet(Unasked(l, f))
    BY <1>1, <1>2, FS_Subset
  <1> QED BY <1>1, <1>3, FS_CardinalityType DEF AInv

LEMMA BoundedIs ==
  DuplicatesBounded <=> \A l \in Lots \cup {NoLot}, f \in Families : Bounded(l, f)
  BY DEF DuplicatesBounded, Bounded, Unasked, Writers, Writes

\* With no more open and no more writers the bound stays.
LEMMA FewerBounded ==
  ASSUME AInv, NEW l, NEW f, Bounded(l, f),
         Unasked(l, f)' \subseteq Unasked(l, f), Writers(l, f)' \subseteq Writers(l, f)
  PROVE  Bounded(l, f)'
  <1>1. /\ IsFiniteSet(Writers(l, f)) /\ Cardinality(Writers(l, f)) \in Nat
        /\ IsFiniteSet(Unasked(l, f)) /\ Cardinality(Unasked(l, f)) \in Nat
        /\ Cardinality(Requests) \in Nat
    BY WritersFew, UnaskedFinite
  <1> DEFINE W == Writers(l, f)'
             U == Unasked(l, f)'
  <1> HIDE DEF W, U
  <1>2. W \subseteq Writers(l, f) /\ U \subseteq Unasked(l, f)
    BY DEF W, U
  <1>3. Cardinality(W) <= Cardinality(Writers(l, f)) /\ Cardinality(W) \in Nat
    BY <1>1, <1>2, FS_Subset, FS_CardinalityType
  <1>4. Cardinality(U) <= Cardinality(Unasked(l, f)) /\ Cardinality(U) \in Nat
    BY <1>1, <1>2, FS_Subset, FS_CardinalityType
  <1>5. Cardinality(U) + Cardinality(W) <= Cardinality(Requests) + 1
    BY <1>1, <1>3, <1>4 DEF Bounded
  <1> QED BY <1>5 DEF Bounded, W, U

\* One alert more is paid for by one writer less.
LEMMA WrittenBounded ==
  ASSUME AInv, NEW l, NEW f, Bounded(l, f), NEW s \in Writers(l, f), NEW i,
         Unasked(l, f)' \subseteq Unasked(l, f) \cup {i}, Writers(l, f)' \subseteq Writers(l, f) \ {s}
  PROVE  Bounded(l, f)'
  <1>1. /\ IsFiniteSet(Writers(l, f)) /\ Cardinality(Writers(l, f)) \in Nat
        /\ IsFiniteSet(Unasked(l, f)) /\ Cardinality(Unasked(l, f)) \in Nat
        /\ Cardinality(Requests) \in Nat
    BY WritersFew, UnaskedFinite
  <1> DEFINE W == Writers(l, f)'
             U == Unasked(l, f)'
  <1> HIDE DEF W, U
  <1>2. W \subseteq Writers(l, f) \ {s} /\ U \subseteq Unasked(l, f) \cup {i}
    BY DEF W, U
  <1>3. /\ IsFiniteSet(Writers(l, f) \ {s})
        /\ Cardinality(Writers(l, f) \ {s}) = Cardinality(Writers(l, f)) - 1
    BY <1>1, FS_RemoveElement
  <1>4. Cardinality(W) <= Cardinality(Writers(l, f)) - 1 /\ Cardinality(W) \in Nat
    BY <1>2, <1>3, FS_Subset, FS_CardinalityType
  <1>5. /\ IsFiniteSet(Unasked(l, f) \cup {i})
        /\ Cardinality(Unasked(l, f) \cup {i}) <= Cardinality(Unasked(l, f)) + 1
    BY <1>1, OneMore
  <1>6. Cardinality(U) <= Cardinality(Unasked(l, f)) + 1 /\ Cardinality(U) \in Nat
    <2>1. IsFiniteSet(U) /\ Cardinality(U) <= Cardinality(Unasked(l, f) \cup {i})
      BY <1>2, <1>5, FS_Subset
    <2>2. Cardinality(U) \in Nat /\ Cardinality(Unasked(l, f) \cup {i}) \in Nat
      BY <1>5, <2>1, FS_CardinalityType
    <2> QED BY <1>1, <1>5, <2>1, <2>2
  <1>7. Cardinality(U) + Cardinality(W) <= Cardinality(Requests) + 1
    BY <1>1, <1>4, <1>6 DEF Bounded
  <1> QED BY <1>7 DEF Bounded, W, U

-----------------------------------------------------------------------------
(* Steps                                                                   *)

\* What a step has to show.
LEMMA AlertsStepKeeps ==
  ASSUME AInv, alerts' \in Seq(Rows), Len(alerts) <= Len(alerts'),
         lot' \in [Lots -> [life : ToSet(Lives), stock : 0..MaxStock, live : BOOLEAN]],
         reopened' \subseteq DOMAIN alerts', lock' \in Jobs \cup {Nobody}, due' \subseteq Jobs,
         DOMAIN scan' = Scanners, \A j \in Jobs : scan'[j].on <=> lock' = j,
         \A s \in Scanners : \/ scan'[s] = scan[s]
                             \/ /\ ScanOK(s)'
                                /\ scan'[s].close \cup scan'[s].raise \subseteq DOMAIN alerts,
         \A l \in Lots \cup {NoLot}, f \in Families : Bounded(l, f)'
  PROVE  AInv'
  <1>1. /\ Len(alerts) \in Nat /\ Len(alerts') \in Nat
        /\ DOMAIN alerts = 1..Len(alerts) /\ DOMAIN alerts' = 1..Len(alerts')
    BY DEF AInv
  <1>2. DOMAIN alerts \subseteq DOMAIN alerts'
    BY <1>1
  <1>3. \A s \in Scanners : ScanOK(s)'
    BY DEF AInv, ScanOK, Sound
  <1>4. \A s \in Scanners : (scan[s].close \cup scan[s].raise)' \subseteq DOMAIN alerts'
    BY <1>2 DEF AInv, AlertsBounded, AlertsTypeOK
  <1>5. \A i \in DOMAIN alerts' : alerts'[i] \in Rows
    BY <1>1
  <1>6. AlertsTypeOK'
    BY <1>4, <1>5 DEF AlertsTypeOK, Rows, Severities
  <1>7. DuplicatesBounded'
    BY DEF DuplicatesBounded, Bounded, Unasked, Writers, Writes
  <1> QED BY <1>3, <1>6, <1>7 DEF AInv, AlertsBounded

LEMMA NowBounded ==
  ASSUME AInv, NEW l \in Lots \cup {NoLot}, NEW f \in Families PROVE Bounded(l, f)
  BY DEF AInv, AlertsBounded, DuplicatesBounded, Bounded, Unasked, Writers, Writes

\* A scan adds to the alerts of a lot and kind only where none is open.
LEMMA ConcludeKeeps ==
  ASSUME AInv, NEW s \in Scanners, Conclude(s), UNCHANGED <<lot, alerts, reopened>>,
         lock' \in Jobs \cup {Nobody}, due' \subseteq Jobs,
         s \in Jobs => lock = Nobody /\ lock' = s, s \notin Jobs => lock' = lock
  PROVE  AInv'
  <1>1. PICK plan \in Plans : scan' = [scan EXCEPT ![s] = plan]
    BY DEF Conclude
  <1>2. /\ plan.on /\ Sound(plan.new) /\ plan.sev \in Severities
        /\ plan.close \cup plan.raise \subseteq DOMAIN alerts
        /\ \A r \in plan.new : About(r.lot, Family(r.type)) = {}
    BY PlanSound DEF AInv, AlertsBounded
  <1>3. /\ DOMAIN scan' = Scanners
        /\ \A t \in Scanners : scan'[t] = IF t = s THEN plan ELSE scan[t]
    BY <1>1 DEF AInv
  <1>4. \A t \in Scanners : \/ scan'[t] = scan[t]
                            \/ /\ ScanOK(t)'
                               /\ scan'[t].close \cup scan'[t].raise \subseteq DOMAIN alerts
    BY <1>2, <1>3 DEF ScanOK, Sound
  <1>5. \A j \in Jobs : scan'[j].on <=> lock' = j
    <2> SUFFICES ASSUME NEW j \in Jobs PROVE scan'[j].on <=> lock' = j
      OBVIOUS
    <2>1. (scan[j].on <=> lock = j) /\ j \in Scanners /\ j # Nobody
      BY Thresholds DEF AInv, AlertsBounded, AlertsTypeOK, Scanners
    <2>2. CASE j = s
      BY <1>2, <1>3, <2>1, <2>2
    <2>3. CASE j # s
      BY <1>3, <2>1, <2>3
    <2> QED BY <2>2, <2>3
  <1>6. ASSUME NEW l \in Lots \cup {NoLot}, NEW f \in Families PROVE Bounded(l, f)'
    <2>1. About(l, f)' = About(l, f) /\ Unasked(l, f)' = Unasked(l, f)
      BY DEF About, Unasked
    <2>2. CASE \E r \in plan.new : r.lot = l /\ Family(r.type) = f
      <3>1. Unasked(l, f) = {}
        BY <1>2, <2>2 DEF Unasked
      <3>3. Writers(l, f)' \subseteq Requests \cup {lock'}
        <4> SUFFICES ASSUME NEW t \in Jobs, t \in Writers(l, f)' PROVE t = lock'
          BY DEF Writers, Scanners
        <4>1. t \in Scanners /\ scan'[t].new # {}
          BY DEF Writers, Writes
        <4>2. scan'[t].on
          <5>1. CASE t = s
            BY <1>2, <1>3, <5>1, <4>1
          <5>2. CASE t # s
            BY <1>3, <4>1, <5>2 DEF AInv, ScanOK, NoScan
          <5> QED BY <5>1, <5>2
        <4> QED BY <1>5, <4>2
      <3> DEFINE W == Writers(l, f)'
      <3> HIDE DEF W
      <3>4. /\ IsFiniteSet(Requests \cup {lock'}) /\ Cardinality(Requests) \in Nat
            /\ Cardinality(Requests \cup {lock'}) <= Cardinality(Requests) + 1
        BY TablesFinite, OneMore
      <3>5. W \subseteq Requests \cup {lock'}
        BY <3>3 DEF W
      <3>6. IsFiniteSet(W) /\ Cardinality(W) <= Cardinality(Requests \cup {lock'})
        BY <3>4, <3>5, FS_Subset
      <3>7. Cardinality(W) \in Nat /\ Cardinality(Requests \cup {lock'}) \in Nat
        BY <3>4, <3>6, FS_CardinalityType
      <3>8. Cardinality({}) = 0
        BY FS_EmptySet
      <3>9. Unasked(l, f)' = {}
        BY <2>1, <3>1
      <3> QED BY <3>4, <3>6, <3>7, <3>8, <3>9 DEF Bounded, W
    <2>3. CASE ~\E r \in plan.new : r.lot = l /\ Family(r.type) = f
      <3>1. Writers(l, f)' \subseteq Writers(l, f)
        BY <1>3, <2>3 DEF Writers, Writes
      <3> QED BY <2>1, <3>1, FewerBounded, NowBounded
    <2> QED BY <2>2, <2>3
  <1>7. Len(alerts) <= Len(alerts')
    BY DEF AInv
  <1> QED BY <1>3, <1>4, <1>5, <1>6, <1>7, AlertsStepKeeps DEF AInv, AlertsBounded, AlertsTypeOK

\* A scan that ends without a write, and the lock it may have held.
LEMMA LeaveScans ==
  ASSUME AInv, NEW s \in Scanners, Leave(s)
  PROVE  /\ DOMAIN scan' = Scanners
         /\ \A t \in Scanners : scan'[t] = IF t = s THEN NoScan ELSE scan[t]
         /\ \A t \in Scanners : \/ scan'[t] = scan[t]
                                \/ /\ ScanOK(t)'
                                   /\ scan'[t].close \cup scan'[t].raise \subseteq DOMAIN alerts
         /\ \A j \in Jobs : scan'[j].on <=> lock' = j
         /\ lock' \in Jobs \cup {Nobody}
         /\ \A l, f : Writers(l, f)' \subseteq Writers(l, f) \ {s}
  <1>1. /\ DOMAIN scan' = Scanners
        /\ \A t \in Scanners : scan'[t] = IF t = s THEN NoScan ELSE scan[t]
    BY DEF AInv, Leave
  <1>2. ~NoScan.on /\ NoScan.new = {} /\ NoScan.close = {} /\ NoScan.raise = {} /\ NoScan.sev \in Severities
    BY DEF NoScan, Severities
  <1>3. \A t \in Scanners : \/ scan'[t] = scan[t]
                            \/ /\ ScanOK(t)'
                               /\ scan'[t].close \cup scan'[t].raise \subseteq DOMAIN alerts
    BY <1>1, <1>2, FS_EmptySet DEF ScanOK, Sound
  <1>4. \A j \in Jobs : scan'[j].on <=> lock' = j
    <2> SUFFICES ASSUME NEW j \in Jobs PROVE scan'[j].on <=> lock' = j
      OBVIOUS
    <2>1. (scan[j].on <=> lock = j) /\ j \in Scanners /\ j # Nobody
      BY Thresholds DEF AInv, AlertsBounded, AlertsTypeOK, Scanners
    <2> QED BY <1>1, <1>2, <2>1 DEF Leave
  <1>5. lock' \in Jobs \cup {Nobody}
    BY DEF Leave, AInv, AlertsBounded, AlertsTypeOK
  <1>6. \A l, f : Writers(l, f)' \subseteq Writers(l, f) \ {s}
    BY <1>1, <1>2 DEF Writers, Writes
  <1> QED BY <1>1, <1>3, <1>4, <1>5, <1>6

\* A list of a finite set has each of its members at one place.
LEMMA ListOfSet ==
  ASSUME NEW S, IsFiniteSet(S)
  PROVE  /\ SetToSeq(S) \in Seq(S)
         /\ \A m \in 1..Len(SetToSeq(S)), n \in 1..Len(SetToSeq(S)) :
              SetToSeq(S)[m] = SetToSeq(S)[n] => m = n
  <1> DEFINE n == Cardinality(S)
  <1>1. n \in Nat /\ ExistsBijection(1..n, S)
    BY FS_CardinalityType
  <1>2. PICK f \in [1..n -> S] : IsInjective(f)
    <2>1. PICK f : f \in Bijection(1..n, S)
      BY <1>1 DEF ExistsBijection
    <2>2. f \in [1..n -> S] /\ \A a, b \in 1..n : f[a] = f[b] => a = b
      BY <2>1 DEF Bijection, Injection, IsInjective
    <2> QED BY <2>2 DEF IsInjective
  <1> DEFINE g == SetToSeq(S)
  <1>3. g \in [1..n -> S] /\ IsInjective(g)
    BY <1>2 DEF SetToSeq
  <1> HIDE DEF g, n
  <1>4. g \in Seq(S) /\ Len(g) = n
    BY <1>1, <1>3
  <1>5. \A a \in 1..n, b \in 1..n : g[a] = g[b] => a = b
    BY <1>3 DEF IsInjective
  <1> QED BY <1>4, <1>5 DEF g

\* The rows as a scan leaves them, and those it adds.
LEMMA Appended ==
  ASSUME NEW S, NEW a \in Seq(S), NEW g \in [DOMAIN a -> S], NEW b \in Seq(S)
  PROVE  /\ g \o b \in Seq(S) /\ Len(g \o b) = Len(a) + Len(b) /\ Len(a) \in Nat /\ Len(b) \in Nat
         /\ DOMAIN (g \o b) = 1..(Len(a) + Len(b)) /\ DOMAIN a = 1..Len(a)
         /\ \A i \in 1..(Len(a) + Len(b)) :
              (g \o b)[i] = IF i <= Len(a) THEN g[i] ELSE b[i - Len(a)]
  <1>1. g \in Seq(S) /\ Len(g) = Len(a) /\ Len(a) \in Nat /\ Len(b) \in Nat
    <2>1. DOMAIN a = 1..Len(a) /\ Len(a) \in Nat
      OBVIOUS
    <2>2. g \in [1..Len(a) -> S]
      BY <2>1
    <2> QED BY <2>1, <2>2
  <1>2. g \o b \in Seq(S) /\ Len(g \o b) = Len(a) + Len(b)
    BY <1>1
  <1>3. DOMAIN (g \o b) = 1..(Len(a) + Len(b)) /\ DOMAIN a = 1..Len(a)
    BY <1>2
  <1>4. \A i \in 1..(Len(a) + Len(b)) : (g \o b)[i] = IF i <= Len(a) THEN g[i] ELSE b[i - Len(a)]
    BY <1>1
  <1> QED BY <1>1, <1>2, <1>3, <1>4

\* A commit opens what it was to write, one alert of a lot and kind at most, and opens no other.
LEMMA CommitKeeps == ASSUME AInv, NEW s \in Scanners, Commit(s) PROVE AInv'
  <1> DEFINE plan == scan[s]
             lost == \E i \in plan.close \cup plan.raise : alerts[i].status = "deleted"
             g == [i \in DOMAIN alerts |->
                     [alerts[i] EXCEPT !.status = IF i \in plan.close THEN "da_xu_ly" ELSE @,
                                       !.sev = IF i \in plan.raise THEN plan.sev ELSE @]]
             b == SetToSeq(plan.new)
             k == Len(alerts)
  <1>1. /\ Leave(s) /\ plan.on /\ alerts' = IF lost THEN alerts ELSE g \o b
        /\ UNCHANGED <<lot, reopened, due, events>>
    BY DEF Commit
  <1>2. /\ DOMAIN scan' = Scanners
        /\ \A t \in Scanners : \/ scan'[t] = scan[t]
                               \/ /\ ScanOK(t)'
                                  /\ scan'[t].close \cup scan'[t].raise \subseteq DOMAIN alerts
        /\ \A j \in Jobs : scan'[j].on <=> lock' = j
        /\ lock' \in Jobs \cup {Nobody}
        /\ \A l, f : Writers(l, f)' \subseteq Writers(l, f) \ {s}
    BY <1>1, LeaveScans
  <1>3. CASE lost
    <2>1. alerts' = alerts
      BY <1>1, <1>3
    <2>2. \A l \in Lots \cup {NoLot}, f \in Families : Bounded(l, f)'
      <3> SUFFICES ASSUME NEW l \in Lots \cup {NoLot}, NEW f \in Families PROVE Bounded(l, f)'
        OBVIOUS
      <3>1. Unasked(l, f)' = Unasked(l, f)
        BY <1>1, <2>1 DEF Unasked, About
      <3> QED BY <1>2, <3>1, FewerBounded, NowBounded
    <2> HIDE DEF lost, g, b, plan, k
    <2>3. /\ alerts' \in Seq(Rows) /\ Len(alerts) <= Len(alerts') /\ DOMAIN alerts' = DOMAIN alerts
          /\ lot' \in [Lots -> [life : ToSet(Lives), stock : 0..MaxStock, live : BOOLEAN]]
          /\ reopened' \subseteq DOMAIN alerts' /\ due' \subseteq Jobs
      <3>1. UNCHANGED <<lot, reopened, due>>
        BY <1>1
      <3>2. alerts \in Seq(Rows) /\ Len(alerts) \in Nat
        BY DEF AInv
      <3> QED BY <2>1, <3>1, <3>2 DEF AInv, AlertsBounded, AlertsTypeOK
    <2> QED BY <1>2, <2>2, <2>3, AlertsStepKeeps
  <1>4. CASE ~lost
    <2>1. /\ Sound(plan.new) /\ plan.sev \in Severities /\ alerts \in Seq(Rows)
          /\ plan.close \subseteq DOMAIN alerts
      BY DEF AInv, ScanOK, AlertsBounded, AlertsTypeOK
    <2>2. ASSUME NEW i \in DOMAIN alerts
          PROVE  /\ g[i] \in Rows /\ g[i].lot = alerts[i].lot /\ g[i].type = alerts[i].type
                 /\ g[i].status \in Active => alerts[i].status \in Active
      <3>1. alerts[i] \in Rows
        BY <2>1
      <3> QED BY <2>1, <3>1 DEF Rows, AlertStates, Active
    <2>3. b \in Seq(plan.new) /\ \A m \in 1..Len(b), n \in 1..Len(b) : b[m] = b[n] => m = n
      BY <2>1, ListOfSet DEF Sound
    <2>4. b \in Seq(Rows) /\ g \in [DOMAIN alerts -> Rows]
      <3>1. g \in [DOMAIN alerts -> Rows]
        BY <2>2
      <3> HIDE DEF b, plan
      <3>2. b \in Seq(Rows)
        BY <2>1, <2>3 DEF Sound
      <3> QED BY <3>1, <3>2
    <2>5. alerts' = g \o b
      BY <1>1, <1>4
    <2> HIDE DEF g, b, plan, lost
    <2>6. /\ alerts' \in Seq(Rows) /\ Len(alerts') = k + Len(b) /\ k \in Nat /\ Len(b) \in Nat
          /\ DOMAIN alerts' = 1..(k + Len(b)) /\ DOMAIN alerts = 1..k
          /\ \A i \in 1..(k + Len(b)) : alerts'[i] = IF i <= k THEN g[i] ELSE b[i - k]
      BY <2>1, <2>4, <2>5, Appended
    <2>7. ASSUME NEW l \in Lots \cup {NoLot}, NEW f \in Families PROVE Bounded(l, f)'
      <3>1. ASSUME NEW i \in Unasked(l, f)', i <= k PROVE i \in Unasked(l, f)
        <4>1. i \in DOMAIN alerts' /\ i \in DOMAIN alerts /\ i \notin reopened /\ alerts'[i] = g[i]
          BY <1>1, <2>6, <3>1 DEF Unasked, About
        <4>2. alerts[i].lot = l /\ Family(alerts[i].type) = f /\ alerts[i].status \in Active
          BY <2>2, <4>1 DEF Unasked, About
        <4> QED BY <4>1, <4>2 DEF Unasked, About
      <3>2. ASSUME NEW i \in Unasked(l, f)', i > k
            PROVE  /\ i - k \in 1..Len(b) /\ b[i - k] \in plan.new
                   /\ b[i - k].lot = l /\ Family(b[i - k].type) = f
        <4>1. i \in 1..(k + Len(b)) /\ alerts'[i] = b[i - k] /\ i - k \in 1..Len(b)
          BY <2>6, <3>2 DEF Unasked, About
        <4>2. b[i - k] \in plan.new
          BY <2>3, <4>1
        <4> QED BY <4>1, <4>2 DEF Unasked, About
      <3>3. \A i \in Unasked(l, f)' : i \in Nat /\ (i <= k \/ i > k)
        BY <2>6 DEF Unasked, About
      <3>4. CASE \E i \in Unasked(l, f)' : i > k
        <4>1. PICK i \in Unasked(l, f)' : i > k
          BY <3>4
        <4>2. s \in Writers(l, f)
          BY <3>2, <4>1 DEF Writers, Writes, plan
        <4>3. ASSUME NEW n \in Unasked(l, f)', n > k PROVE n = i
          <5>1. b[n - k] = b[i - k]
            BY <2>1, <3>2, <4>1, <4>3 DEF Sound
          <5>2. n - k = i - k
            BY <2>3, <3>2, <4>1, <4>3, <5>1
          <5> QED BY <2>6, <3>3, <4>1, <5>2
        <4>4. Unasked(l, f)' \subseteq Unasked(l, f) \cup {i}
          BY <3>1, <3>3, <4>3
        <4>5. Writers(l, f)' \subseteq Writers(l, f) \ {s}
          BY <1>2
        <4> QED BY <4>2, <4>4, <4>5, WrittenBounded, NowBounded
      <3>5. CASE ~\E i \in Unasked(l, f)' : i > k
        <4>1. Unasked(l, f)' \subseteq Unasked(l, f)
          BY <3>1, <3>3, <3>5
        <4>2. Writers(l, f)' \subseteq Writers(l, f)
          BY <1>2
        <4> QED BY <4>1, <4>2, FewerBounded, NowBounded
      <3> QED BY <3>4, <3>5
    <2>8. k <= Len(alerts') /\ DOMAIN alerts \subseteq DOMAIN alerts'
      BY <2>6
    <2>9. reopened' \subseteq DOMAIN alerts' /\ due' \subseteq Jobs
      BY <1>1, <2>8 DEF AInv, AlertsBounded, AlertsTypeOK
    <2>10. lot' \in [Lots -> [life : ToSet(Lives), stock : 0..MaxStock, live : BOOLEAN]]
      BY <1>1 DEF AInv, AlertsBounded, AlertsTypeOK
    <2> QED BY <1>2, <2>6, <2>7, <2>8, <2>9, <2>10, AlertsStepKeeps
  <1> QED BY <1>3, <1>4

\* What changes the stock, or rows without opening any that was not made active by hand.
LEMMA TableKeeps ==
  ASSUME AInv, UNCHANGED <<scan, lock>>, due' \subseteq Jobs,
         lot' \in [Lots -> [life : ToSet(Lives), stock : 0..MaxStock, live : BOOLEAN]],
         alerts' \in [DOMAIN alerts -> Rows], reopened' \subseteq DOMAIN alerts,
         \A i \in DOMAIN alerts :
           /\ alerts'[i].lot = alerts[i].lot /\ alerts'[i].type = alerts[i].type
           /\ i \in reopened => i \in reopened'
           /\ alerts'[i].status \in Active => alerts[i].status \in Active \/ i \in reopened'
  PROVE  AInv'
  <1>1. DOMAIN alerts = 1..Len(alerts) /\ Len(alerts) \in Nat
    BY DEF AInv
  <1>2. alerts' \in Seq(Rows) /\ Len(alerts') = Len(alerts) /\ DOMAIN alerts' = DOMAIN alerts
    BY <1>1
  <1>3. ASSUME NEW l \in Lots \cup {NoLot}, NEW f \in Families PROVE Bounded(l, f)'
    <2>1. Unasked(l, f)' \subseteq Unasked(l, f)
      BY <1>2 DEF Unasked, About
    <2>2. Writers(l, f)' = Writers(l, f)
      BY DEF Writers, Writes
    <2> QED BY <2>1, <2>2, FewerBounded, NowBounded
  <1> QED BY <1>1, <1>2, <1>3, AlertsStepKeeps DEF AInv, AlertsBounded, AlertsTypeOK

LEMMA AlertsInitHolds == AlertsInit => AInv
  <1> SUFFICES ASSUME AlertsInit PROVE AInv
    OBVIOUS
  <1>1. /\ NoScan.new = {} /\ NoScan.close = {} /\ NoScan.raise = {} /\ NoScan.sev \in Severities
        /\ ~NoScan.on
    BY DEF NoScan, Severities
  <1>2. DOMAIN scan = Scanners /\ \A s \in Scanners : scan[s] = NoScan
    BY DEF AlertsInit
  <1>3. \A s \in Scanners : ScanOK(s)
    BY <1>1, <1>2, FS_EmptySet DEF ScanOK, Sound
  <1>4. alerts \in Seq(Rows) /\ Len(alerts) <= 1
    <2>1. CASE alerts = <<>>
      BY <2>1
    <2>2. CASE \E l \in Lots : alerts = <<Row(l, "ton_kho_thap", "cao")>>
      BY <2>2 DEF Row, Rows, Types, Severities, AlertStates, Active
    <2> QED BY <2>1, <2>2 DEF AlertsInit
  <1>5. \A i \in DOMAIN alerts : alerts[i] \in Rows
    BY <1>4
  <1>6. lot \in [Lots -> [life : ToSet(Lives), stock : 0..MaxStock, live : BOOLEAN]]
    <2>1. "fresh" \in ToSet(Lives)
      <3>1. Lives[1] = "fresh" /\ 1 \in DOMAIN Lives
        BY DEF Lives
      <3> QED BY <3>1 DEF ToSet
    <2>2. 0 \in 0..MaxStock /\ MaxStock \in 0..MaxStock
      BY Thresholds
    <2> QED BY <2>1, <2>2 DEF AlertsInit
  <1>7. AlertsTypeOK
    <2>1. \A s \in Scanners : scan[s].close \cup scan[s].raise \subseteq DOMAIN alerts
      BY <1>1, <1>2
    <2>2. \A j \in Jobs : scan[j].on <=> lock = j
      BY <1>1, <1>2, Thresholds DEF AlertsInit, Scanners
    <2>3. reopened \subseteq DOMAIN alerts /\ lock \in Jobs \cup {Nobody} /\ due \subseteq Jobs
      BY DEF AlertsInit
    <2> QED BY <1>5, <1>6, <2>1, <2>2, <2>3 DEF AlertsTypeOK, Rows, Severities
  <1>8. DuplicatesBounded
    <2> SUFFICES ASSUME NEW l \in Lots \cup {NoLot}, NEW f \in Families PROVE Bounded(l, f)
      BY DEF DuplicatesBounded, Bounded, Unasked, Writers, Writes
    <2>1. Writers(l, f) = {}
      BY <1>1, <1>2 DEF Writers, Writes
    <2>2. Unasked(l, f) \subseteq {1}
      <3>1. DOMAIN alerts = 1..Len(alerts) /\ Len(alerts) \in Nat
        BY <1>4
      <3> QED BY <1>4, <3>1 DEF Unasked, About
    <2> DEFINE U == Unasked(l, f)
    <2> HIDE DEF U
    <2>3. IsFiniteSet({1}) /\ Cardinality({1}) = 1
      BY FS_Singleton
    <2>4. IsFiniteSet(U) /\ Cardinality(U) <= 1
      BY <2>2, <2>3, FS_Subset DEF U
    <2>5. Cardinality(U) \in Nat /\ Cardinality(Requests) \in Nat /\ Cardinality({}) = 0
      BY <2>4, TablesFinite, FS_CardinalityType, FS_EmptySet
    <2> QED BY <2>1, <2>4, <2>5 DEF Bounded, U
  <1> QED BY <1>2, <1>3, <1>4, <1>7, <1>8 DEF AInv, AlertsBounded

LEMMA AlertsNextKeeps == AInv /\ [AlertsNext]_alertsVars => AInv'
  <1> SUFFICES ASSUME AInv, [AlertsNext]_alertsVars PROVE AInv'
    OBVIOUS
  <1>1. /\ lot \in [Lots -> [life : ToSet(Lives), stock : 0..MaxStock, live : BOOLEAN]]
        /\ reopened \subseteq DOMAIN alerts /\ lock \in Jobs \cup {Nobody} /\ due \subseteq Jobs
        /\ alerts \in Seq(Rows) /\ alerts \in [DOMAIN alerts -> Rows]
        /\ \A i \in DOMAIN alerts : alerts[i] \in Rows
    BY DEF AInv, AlertsBounded, AlertsTypeOK
  <1>2. ASSUME NEW s \in Scanners, Leave(s), UNCHANGED <<lot, alerts, reopened, due>> PROVE AInv'
    <2>1. ASSUME NEW l \in Lots \cup {NoLot}, NEW f \in Families PROVE Bounded(l, f)'
      <3>1. Unasked(l, f)' = Unasked(l, f)
        BY <1>2 DEF Unasked, About
      <3>2. Writers(l, f)' \subseteq Writers(l, f)
        BY <1>2, LeaveScans
      <3> QED BY <3>1, <3>2, FewerBounded, NowBounded
    <2>2. Len(alerts) <= Len(alerts')
      BY <1>1, <1>2
    <2> QED BY <1>1, <1>2, <2>1, <2>2, LeaveScans, AlertsStepKeeps
  <1>3. CASE UNCHANGED alertsVars
    BY <1>1, <1>3, TableKeeps DEF alertsVars
  <1>4. ASSUME NEW j \in Jobs, Tick(j) \/ Skip(j) PROVE AInv'
    <2>1. UNCHANGED <<lot, alerts, reopened, scan, lock>> /\ due' \subseteq Jobs
      BY <1>1, <1>4 DEF Tick, Skip
    <2> QED BY <1>1, <2>1, TableKeeps
  <1>5. ASSUME NEW j \in Jobs, Start(j) PROVE AInv'
    <2>1. j \in Scanners /\ Conclude(j) /\ UNCHANGED <<lot, alerts, reopened>> /\ lock = Nobody
          /\ lock' = j /\ due' \subseteq Jobs
      BY <1>1, <1>5 DEF Start, Scanners
    <2> QED BY <2>1, ConcludeKeeps
  <1>6. ASSUME NEW r \in Requests, Ask(r) PROVE AInv'
    <2>1. r \in Scanners /\ r \notin Jobs /\ Conclude(r) /\ UNCHANGED <<lot, alerts, reopened, lock, due>>
      BY <1>6, Thresholds DEF Ask, Scanners
    <2> QED BY <1>1, <2>1, ConcludeKeeps
  <1>7. ASSUME NEW s \in Scanners, Commit(s) PROVE AInv'
    BY <1>7, CommitKeeps
  <1>8. ASSUME NEW s \in Scanners, Abort(s) PROVE AInv'
    BY <1>2, <1>8 DEF Abort
  <1>9. ASSUME NEW l \in Lots, Stock(l) \/ GrowOld(l) \/ Dispose(l) PROVE AInv'
    <2> DEFINE Lot == [life : ToSet(Lives), stock : 0..MaxStock, live : BOOLEAN]
    <2>1. lot[l] \in Lot
      BY <1>1
    <2>2. PICK to \in Lot : Change(l, to)
      <3>1. CASE Stock(l)
        BY <2>1, <3>1 DEF Stock
      <3>2. CASE GrowOld(l)
        BY <2>1, <3>2 DEF GrowOld, ToSet
      <3>3. CASE Dispose(l)
        BY <2>1, <3>3 DEF Dispose
      <3> QED BY <1>9, <3>1, <3>2, <3>3
    <2>3. lot' \in [Lots -> Lot]
      BY <1>1, <2>2 DEF Change
    <2> QED BY <1>1, <2>2, <2>3, TableKeeps DEF Change
  <1>10. ASSUME NEW ids, Erase(ids) PROVE AInv'
    <2>1. UNCHANGED <<lot, reopened, scan, lock, due>>
      BY <1>10 DEF Erase
    <2>2. /\ DOMAIN alerts' = DOMAIN alerts
          /\ \A i \in DOMAIN alerts : alerts'[i] = IF i \in ids THEN [alerts[i] EXCEPT !.status = "deleted"]
                                                                ELSE alerts[i]
          /\ alerts' = [i \in DOMAIN alerts |-> alerts'[i]]
      BY <1>10 DEF Erase
    <2>3. \A i \in DOMAIN alerts :
            /\ alerts'[i] \in Rows /\ alerts'[i].lot = alerts[i].lot /\ alerts'[i].type = alerts[i].type
            /\ alerts'[i].status \in Active => alerts[i].status \in Active
      <3>1. ASSUME NEW row \in Rows
            PROVE  LET gone == [row EXCEPT !.status = "deleted"]
                   IN gone \in Rows /\ gone.lot = row.lot /\ gone.type = row.type /\ gone.status \notin Active
        BY DEF Rows, AlertStates, Active
      <3> SUFFICES ASSUME NEW i \in DOMAIN alerts
                   PROVE  /\ alerts'[i] \in Rows /\ alerts'[i].lot = alerts[i].lot /\ alerts'[i].type = alerts[i].type
                          /\ alerts'[i].status \in Active => alerts[i].status \in Active
        OBVIOUS
      <3>2. alerts[i] \in Rows
        BY <1>1
      <3>3. alerts'[i] = alerts[i] \/ alerts'[i] = [alerts[i] EXCEPT !.status = "deleted"]
        BY <2>2
      <3> QED BY <3>1, <3>2, <3>3
    <2>4. alerts' \in [DOMAIN alerts -> Rows]
      BY <2>2, <2>3
    <2> QED BY <1>1, <2>1, <2>3, <2>4, TableKeeps
  <1>11. ASSUME NEW i \in DOMAIN alerts, NEW st \in AlertStates \ {"deleted"}, UpdateAlert(i, st) PROVE AInv'
    <2>1. /\ UNCHANGED <<lot, scan, lock, due>> /\ alerts[i].status # st
          /\ alerts' = [alerts EXCEPT ![i].status = st]
          /\ reopened' = IF st \in Active /\ alerts[i].status \notin Active
                         THEN reopened \cup {i} ELSE reopened
      BY <1>11 DEF UpdateAlert
    <2>2. reopened' \subseteq DOMAIN alerts /\ \A n \in reopened : n \in reopened'
      BY <1>1, <2>1
    <2>3. \A n \in DOMAIN alerts : alerts'[n] = IF n = i THEN [alerts[n] EXCEPT !.status = st] ELSE alerts[n]
      BY <1>1, <2>1
    <2>4. \A n \in DOMAIN alerts :
            /\ alerts'[n] \in Rows /\ alerts'[n].lot = alerts[n].lot /\ alerts'[n].type = alerts[n].type
            /\ alerts'[n].status \in Active => alerts[n].status \in Active \/ n \in reopened'
      BY <1>1, <2>1, <2>3 DEF Rows
    <2>5. alerts' \in [DOMAIN alerts -> Rows]
      <3>1. DOMAIN alerts' = DOMAIN alerts /\ alerts' = [n \in DOMAIN alerts |-> alerts'[n]]
        BY <1>1, <2>1
      <3> QED BY <2>4, <3>1
    <2> QED BY <1>1, <2>1, <2>2, <2>4, <2>5, TableKeeps
  <1> QED BY <1>3, <1>4, <1>5, <1>6, <1>7, <1>8, <1>9, <1>10, <1>11
          DEF AlertsNext, DeleteAlert, ClearResolved

\* However many scans of how many instances and requests overlap, fail and commit while the stock
\* and the managers move: no more alerts of one lot and kind are open, but for those a manager
\* opened again, than there can be requests scanning at once and one job, and the lock has one holder.
THEOREM AlertsStayBounded == AlertsSpec => []AlertsBounded
  <1>1. AInv => AlertsBounded
    BY DEF AInv
  <1> QED BY <1>1, AlertsInitHolds, AlertsNextKeeps, PTL DEF AlertsSpec

-----------------------------------------------------------------------------
(* What is said in the chat of an alert, and the audit log of it: true for *)
(* any number of alerts, overlapping scans, crashes and changes, and       *)
(* however often an insight is superseded and opened again.                *)

AlertRow == [status : AlertStatuses, cond : Conditions \cup {NoCondition}]
InsightRow == [status : Open \cup {"none", "resolved", "superseded"}, round : Nat]
ActionRow == [status : {"none", "de_xuat", "dang_xu_ly", "hoan_thanh", "that_bai", "tu_choi"},
              outcome : Results \cup {"none", "rejected", "failed"},
              attempts : 0..2, text : Texts \cup {NoText}]
Scan == [pc : Results \cup {"idle", "look", "claim", "insert", "retry", "run", "notify"},
         todo : SUBSET (Alerts \X Conditions), drop : SUBSET Ids, token : Tokens,
         text : Texts \cup {NoText}, old : SUBSET Ids]
Decision == [pc : Results \cup {"idle", "reset", "run", "notify"}, key : Keys \cup {NoKey}]

\* A scan at work on a candidate has one; what it runs is in the log, and what it reports
\* as told has been told, or the alert was deleted with it.
Remembers(w) ==
  /\ worker[w].pc \notin {"idle", "look"} => worker[w].todo # {}
  /\ worker[w].pc \in {"retry", "run", "notify"} \cup Results => action[Key(w)].status # "none"
  /\ worker[w].pc \in Results =>
       alert[Key(w)[1]].status = "deleted" \/ insight[Of(Key(w))].status # "none"

\* The same of a manager's request and of the row it is about.
Holds(m) ==
  LET k == manager[m].key IN
  /\ manager[m].pc # "idle" => k \in Keys /\ action[k].status # "none"
  /\ manager[m].pc \in Results =>
       alert[k[1]].status = "deleted" \/ insight[Of(k)].status # "none"

NInv == /\ AuditIsTrue
        /\ \A w \in Workers : Remembers(w)
        /\ \A m \in Managers : Holds(m)

-----------------------------------------------------------------------------
(* Types                                                                   *)

LEMMA Typed ==
  TypeOK <=> /\ alert \in [Alerts -> AlertRow] /\ insight \in [Ids -> InsightRow]
             /\ action \in [Keys -> ActionRow] /\ worker \in [Workers -> Scan]
             /\ manager \in [Managers -> Decision]
  BY DEF TypeOK, AlertRow, InsightRow, ActionRow, Scan, Decision

\* Of candidates that are left one is the first in the list.
LEMMA EarliestIsOne ==
  ASSUME NEW todo \in SUBSET (Alerts \X Conditions), todo # {} PROVE Earliest(todo) \in todo
  <1> DEFINE Place(t) == Rank[t[1]]
             places == {Rank[t[1]] : t \in todo}
             all == {Rank[a] : a \in Alerts}
  <1>1. \A t \in todo : t[1] \in Alerts
    OBVIOUS
  <1>2. places \subseteq all /\ places # {} /\ \A n \in places : n \in Nat
    BY <1>1, Listing
  <1>3. IsFiniteSet(all)
    <2>1. Rank \in Surjection(Alerts, all)
      BY Listing DEF Surjection
    <2> QED BY <2>1, Listing, FS_Surjection
  <1>4. IsFiniteSet(places)
    BY <1>2, <1>3, FS_Subset
  <1> HIDE DEF places
  <1>5. PICK m \in places : \A n \in places : m <= n
    BY <1>2, <1>4, MinExists
  <1> USE DEF places
  <1>6. PICK t \in todo : Rank[t[1]] = m
    BY <1>5
  <1>7. \A u \in todo : Rank[t[1]] <= Rank[u[1]]
    BY <1>5, <1>6
  <1> QED BY <1>7 DEF Earliest

LEMMA OfType ==
  ASSUME NEW k \in Keys PROVE k[1] \in Alerts /\ Of(k) \in Ids /\ Of(k)[1] = k[1]
  <1>1. k[1] \in Alerts /\ k[2] \in Conditions
    BY DEF Keys
  <1>2. Fingerprint[k[2]] \in Prints
    BY <1>1, Evidence
  <1> QED BY <1>1, <1>2 DEF Of, Ids

\* The candidate at hand and the key of what is done about it.
LEMMA KeyType ==
  ASSUME TypeOK, NEW w \in Workers, worker[w].todo # {}
  PROVE  /\ Target(w) \in Alerts \X Conditions /\ Key(w) \in Keys
         /\ Key(w)[1] = Target(w)[1] /\ Of(Key(w)) = Of(Target(w))
  <1>1. worker[w] \in Scan
    BY Typed
  <1>2. worker[w].todo \in SUBSET (Alerts \X Conditions) /\ worker[w].token \in Tokens
    BY <1>1 DEF Scan
  <1>3. PICK t \in Alerts \X Conditions : t = Target(w)
    BY <1>2, EarliestIsOne DEF Target
  <1>4. Key(w) = <<t[1], t[2], worker[w].token>>
    BY <1>3 DEF Key
  <1>5. Key(w) \in Keys /\ Key(w)[1] = t[1] /\ Key(w)[2] = t[2]
    BY <1>2, <1>4 DEF Keys
  <1> QED BY <1>3, <1>5 DEF Of

-----------------------------------------------------------------------------
(* Steps                                                                   *)

Enters(w, x) == worker' = [worker EXCEPT ![w] = x]

\* What every step keeps of the log, of the alerts and of the insights, and what it may add.
LEMMA StepKeeps ==
  ASSUME NInv, TypeOK',
         \A k \in Keys : action[k].status # "none" => action'[k].status # "none",
         \A a \in Alerts : alert[a].status = "deleted" => alert'[a].status = "deleted",
         \A i \in Ids : insight[i].status # "none" =>
           insight'[i].status # "none" \/ alert'[i[1]].status = "deleted",
         \A k \in Keys : action'[k].status = "hoan_thanh" =>
           \/ action[k].status = "hoan_thanh" \/ insight[Of(k)].status # "none"
           \/ alert[k[1]].status = "deleted",
         \A i \in Ids : insight'[i].status # "none" =>
           insight[i].status # "none" \/ \E k \in Keys : Of(k) = i /\ action[k].status # "none",
         \A v \in Workers : worker'[v] = worker[v] \/ Remembers(v)',
         \A m \in Managers : manager'[m] = manager[m] \/ Holds(m)'
  PROVE  NInv'
  <1>1. CompletedHasInsight'
    <2> SUFFICES ASSUME NEW k \in Keys, action'[k].status = "hoan_thanh", alert'[k[1]].status # "deleted"
                 PROVE  insight'[Of(k)].status # "none"
      BY DEF CompletedHasInsight
    <2>1. k[1] \in Alerts /\ Of(k) \in Ids /\ Of(k)[1] = k[1]
      BY OfType
    <2>2. alert[k[1]].status # "deleted"
      BY <2>1
    <2>3. insight[Of(k)].status # "none"
      BY <2>2 DEF NInv, AuditIsTrue, CompletedHasInsight
    <2> QED BY <2>1, <2>3
  <1>2. EverythingAudited'
    <2> SUFFICES ASSUME NEW i \in Ids, insight'[i].status # "none"
                 PROVE  \E k \in Keys : Of(k) = i /\ action'[k].status # "none"
      BY DEF EverythingAudited, Of
    <2>1. \E k \in Keys : Of(k) = i /\ action[k].status # "none"
      BY DEF NInv, AuditIsTrue, EverythingAudited
    <2> QED BY <2>1
  <1>3. ASSUME NEW v \in Workers PROVE Remembers(v)'
    <2>1. CASE worker'[v] = worker[v]
      <3>1. Key(v)' = Key(v) /\ Remembers(v) /\ TypeOK
        BY <2>1 DEF Key, Target, NInv, AuditIsTrue
      <3>2. ASSUME worker[v].pc \notin {"idle", "look"}
            PROVE  Key(v) \in Keys
        BY <3>1, <3>2, KeyType DEF Remembers
      <3>3. worker[v].pc \in {"retry", "run", "notify"} \cup Results => action'[Key(v)].status # "none"
        BY <3>1, <3>2 DEF Remembers, Results
      <3>4. ASSUME worker[v].pc \in Results
            PROVE  alert'[Key(v)[1]].status = "deleted" \/ insight'[Of(Key(v))].status # "none"
        <4>1. Key(v) \in Keys
          BY <3>2, <3>4 DEF Results
        <4>2. Key(v)[1] \in Alerts /\ Of(Key(v)) \in Ids /\ Of(Key(v))[1] = Key(v)[1]
          BY <4>1, OfType
        <4>3. alert[Key(v)[1]].status = "deleted" \/ insight[Of(Key(v))].status # "none"
          BY <3>1, <3>4 DEF Remembers
        <4> QED BY <4>2, <4>3
      <3>5. Of(Key(v))' = Of(Key(v))
        BY <3>1 DEF Of
      <3> QED BY <2>1, <3>1, <3>3, <3>4, <3>5 DEF Remembers
    <2> QED BY <2>1
  <1>4. ASSUME NEW m \in Managers PROVE Holds(m)'
    <2>1. CASE manager'[m] = manager[m]
      <3>1. Holds(m)
        BY DEF NInv
      <3>2. ASSUME manager[m].pc # "idle"
            PROVE  manager[m].key \in Keys /\ action'[manager[m].key].status # "none"
        BY <3>1, <3>2 DEF Holds
      <3>3. ASSUME manager[m].pc \in Results
            PROVE  LET k == manager[m].key
                   IN  alert'[k[1]].status = "deleted" \/ insight'[Of(k)].status # "none"
        <4>1. PICK k \in Keys : k = manager[m].key
          BY <3>2, <3>3 DEF Results
        <4>2. k[1] \in Alerts /\ Of(k) \in Ids /\ Of(k)[1] = k[1]
          BY OfType
        <4>3. alert[k[1]].status = "deleted" \/ insight[Of(k)].status # "none"
          BY <3>1, <3>3, <4>1 DEF Holds
        <4> QED BY <4>1, <4>2, <4>3
      <3>4. \A k : Of(k)' = Of(k)
        BY DEF Of
      <3> QED BY <2>1, <3>2, <3>3, <3>4 DEF Holds
    <2> QED BY <2>1
  <1> QED BY <1>1, <1>2, <1>3, <1>4 DEF NInv, AuditIsTrue

\* A scan's move is of the right type and leaves the others where they are.
LEMMA OneMoves ==
  ASSUME TypeOK, NEW w \in Workers, NEW x \in Scan, Enters(w, x)
  PROVE  /\ worker' \in [Workers -> Scan] /\ worker'[w] = x
         /\ \A v \in Workers : v # w => worker'[v] = worker[v]
  BY Typed DEF Enters

\* Between two candidates, or at rest, a scan has nothing to remember.
LEMMA Released ==
  ASSUME NEW w, worker'[w].pc \in {"idle", "look"} PROVE Remembers(w)'
  BY DEF Remembers, Results

LEMMA StopMoves ==
  ASSUME TypeOK, NEW w \in Workers, Stop(w), Tokens = Nat
  PROVE  \E x \in Scan : x.pc = "idle" /\ Enters(w, x)
  <1>1. Idle \in Scan /\ Idle.pc = "idle"
    BY DEF Idle, Session, Scan
  <1> QED BY <1>1 DEF Stop, Enters

LEMMA ProceedMoves ==
  ASSUME TypeOK, NEW w \in Workers, NEW outcome, NEW drop \in SUBSET Ids,
         Proceed(w, outcome, drop), Tokens = Nat
  PROVE  \E x \in Scan : x.pc = "look" /\ Enters(w, x)
  <1>1. worker[w] \in Scan
    BY Typed
  <1>2. worker[w].todo \in SUBSET (Alerts \X Conditions) /\ worker[w].old \in SUBSET Ids
    BY <1>1 DEF Scan
  <1>3. PICK x : x = Session("look", worker[w].todo \ {Target(w)},
                             drop \cup (IF outcome = "created" THEN worker[w].old ELSE {}), 0, NoText, {})
    OBVIOUS
  <1>4. x \in Scan /\ x.pc = "look"
    BY <1>2, <1>3 DEF Session, Scan
  <1> QED BY <1>3, <1>4 DEF Proceed, Enters

\* A step of a scan to another place with the same candidate.
LEMMA PlaceMoves ==
  ASSUME TypeOK, NEW w \in Workers,
         NEW pc \in Results \cup {"insert", "retry", "run", "notify"},
         worker' = [worker EXCEPT ![w].pc = pc]
  PROVE  /\ worker' \in [Workers -> Scan] /\ worker'[w].pc = pc /\ Key(w)' = Key(w)
         /\ worker'[w].todo = worker[w].todo
         /\ \A v \in Workers : v # w => worker'[v] = worker[v]
  <1>1. worker \in [Workers -> Scan]
    BY Typed
  <1>2. /\ worker'[w].pc = pc /\ worker'[w].todo = worker[w].todo /\ worker'[w].token = worker[w].token
        /\ worker'[w] \in Scan
    BY <1>1 DEF Scan
  <1>3. worker' \in [Workers -> Scan]
    BY <1>1, <1>2
  <1>4. Key(w)' = Key(w)
    BY <1>2 DEF Key, Target
  <1> QED BY <1>1, <1>2, <1>3, <1>4

\* Only the scan moves.
LEMMA QuietKeeps ==
  ASSUME NInv, UNCHANGED <<alert, insight, action, manager>>, worker' \in [Workers -> Scan],
         \A v \in Workers : worker'[v] = worker[v] \/ Remembers(v)'
  PROVE  NInv'
  <1>1. TypeOK'
    BY Typed DEF NInv, AuditIsTrue, TypeOK, Scan, Decision
  <1> QED BY <1>1, StepKeeps

LEMMA StopKeeps ==
  ASSUME NInv, Tokens = Nat, NEW w \in Workers, Stop(w), UNCHANGED <<alert, insight, action, manager>>
  PROVE  NInv'
  <1>1. PICK x \in Scan : x.pc = "idle" /\ Enters(w, x)
    BY StopMoves DEF NInv, AuditIsTrue
  <1>2. /\ worker' \in [Workers -> Scan] /\ worker'[w] = x
        /\ \A v \in Workers : v # w => worker'[v] = worker[v]
    BY <1>1, OneMoves DEF NInv, AuditIsTrue
  <1>3. Remembers(w)'
    BY <1>1, <1>2, Released
  <1> QED BY <1>2, <1>3, QuietKeeps

LEMMA ProceedKeeps ==
  ASSUME NInv, Tokens = Nat, NEW w \in Workers, NEW outcome, NEW drop \in SUBSET Ids,
         Proceed(w, outcome, drop), UNCHANGED <<alert, insight, action, manager>>
  PROVE  NInv'
  <1>1. PICK x \in Scan : x.pc = "look" /\ Enters(w, x)
    BY ProceedMoves DEF NInv, AuditIsTrue
  <1>2. /\ worker' \in [Workers -> Scan] /\ worker'[w] = x
        /\ \A v \in Workers : v # w => worker'[v] = worker[v]
    BY <1>1, OneMoves DEF NInv, AuditIsTrue
  <1>3. Remembers(w)'
    BY <1>1, <1>2, Released
  <1> QED BY <1>2, <1>3, QuietKeeps

\* Rows that are too old are settled by what they left.
LEMMA BeginKeeps ==
  ASSUME NInv, Tokens = Nat, NEW w \in Workers, NEW stale \in SUBSET InFlight, Begin(w, stale)
  PROVE  NInv'
  <1>1. TypeOK
    BY DEF NInv, AuditIsTrue
  <1>2. PICK todo : todo = {<<a, alert[a].cond>> : a \in {b \in Alerts : Candidate(b)}}
    OBVIOUS
  <1>3. todo \in SUBSET (Alerts \X Conditions)
    BY <1>1, <1>2, Typed DEF Candidate, AlertRow
  <1>4. PICK drop : drop = Noncurrent
    OBVIOUS
  <1>5. drop \in SUBSET Ids
    BY <1>4 DEF Noncurrent
  <1>6. PICK x : x = Session("look", todo, drop, 0, NoText, {})
    OBVIOUS
  <1>7. x \in Scan /\ x.pc = "look" /\ Enters(w, x)
    BY <1>2, <1>3, <1>4, <1>5, <1>6 DEF Session, Scan, Begin, Enters
  <1>8. /\ worker' \in [Workers -> Scan] /\ worker'[w] = x
        /\ \A v \in Workers : v # w => worker'[v] = worker[v]
    BY <1>1, <1>7, OneMoves
  <1>9. Remembers(w)'
    BY <1>7, <1>8, Released
  <1>10. ASSUME NEW k \in Keys
         PROVE  /\ action'[k] \in ActionRow
                /\ action[k].status # "none" => action'[k].status # "none"
                /\ action'[k].status = "hoan_thanh" =>
                     action[k].status = "hoan_thanh" \/ insight[Of(k)].status # "none"
    <2>1. /\ action[k] \in ActionRow
          /\ action'[k] = IF k \notin stale THEN action[k]
                          ELSE IF insight[Of(k)].status = "none"
                          THEN [action[k] EXCEPT !.status = "that_bai", !.outcome = "failed"]
                          ELSE [action[k] EXCEPT !.status = "hoan_thanh", !.outcome = "deduplicated"]
      BY <1>1, Typed DEF Begin, Reconciled
    <2>2. PICK r \in ActionRow : r = action[k]
      BY <2>1
    <2>3. [r EXCEPT !.status = "that_bai", !.outcome = "failed"] \in ActionRow
          /\ [r EXCEPT !.status = "hoan_thanh", !.outcome = "deduplicated"] \in ActionRow
      BY DEF ActionRow, Results
    <2> QED BY <2>1, <2>2, <2>3 DEF ActionRow
  <1>11. action' \in [Keys -> ActionRow]
    <2>1. action' = [k \in Keys |-> action'[k]]
      BY DEF Begin, Reconciled
    <2> QED BY <1>10, <2>1
  <1>12. UNCHANGED <<alert, insight, manager>>
    BY DEF Begin
  <1>13. TypeOK'
    BY <1>1, <1>8, <1>11, <1>12, Typed DEF TypeOK, ActionRow, Scan
  <1>14. \A i \in Ids : insight'[i].status # "none" => insight[i].status # "none"
    BY <1>12
  <1> QED BY <1>8, <1>9, <1>10, <1>12, <1>13, <1>14, StepKeeps

LEMMA LookKeeps ==
  ASSUME NInv, Tokens = Nat, NEW w \in Workers, Look(w)
  PROVE  NInv'
  <1>1. TypeOK /\ UNCHANGED <<alert, insight, action, manager>> /\ worker[w].todo # {}
    BY DEF NInv, AuditIsTrue, Look
  <1>2. worker[w] \in Scan
    BY <1>1, Typed
  <1>3. PICK i : i = Of(Target(w))
    OBVIOUS
  <1>4. i \in Ids
    BY <1>1, <1>3, KeyType, OfType
  <1>5. CASE Proceed(w, "none", worker[w].drop)
    <2>1. worker[w].drop \in SUBSET Ids
      BY <1>2 DEF Scan
    <2> QED BY <1>1, <1>5, <2>1, ProceedKeeps
  <1>6. ASSUME NEW t \in Texts, worker' = [worker EXCEPT ![w] =
                 Session("claim", worker[w].todo, worker[w].drop,
                         IF insight[i].status = "none" THEN 0 ELSE insight[i].round, t, Opened(i[1]))]
        PROVE  NInv'
    <2>1. PICK n : n = IF insight[i].status = "none" THEN 0 ELSE insight[i].round
      OBVIOUS
    <2>2. n \in Tokens
      BY <1>1, <1>4, <2>1, Typed DEF InsightRow
    <2>3. PICK x : x = Session("claim", worker[w].todo, worker[w].drop, n, t, Opened(i[1]))
      OBVIOUS
    <2>4. x \in Scan /\ x.pc = "claim" /\ x.todo # {} /\ Enters(w, x)
      BY <1>1, <1>2, <1>6, <2>1, <2>2, <2>3 DEF Session, Scan, Enters, Opened
    <2>5. /\ worker' \in [Workers -> Scan] /\ worker'[w] = x
          /\ \A v \in Workers : v # w => worker'[v] = worker[v]
      BY <1>1, <2>4, OneMoves
    <2>6. Remembers(w)'
      BY <2>4, <2>5 DEF Remembers, Results
    <2> QED BY <1>1, <2>5, <2>6, QuietKeeps
  <1> QED BY <1>3, <1>5, <1>6 DEF Look

LEMMA ClaimKeeps ==
  ASSUME NInv, Tokens = Nat, NEW w \in Workers, Claim(w)
  PROVE  NInv'
  <1>1. TypeOK /\ UNCHANGED <<alert, insight, action, manager>> /\ worker[w].pc = "claim" /\ worker[w].todo # {}
    BY DEF NInv, AuditIsTrue, Claim, Remembers
  <1>2. worker[w].drop \in SUBSET Ids
    BY <1>1, Typed DEF Scan
  <1>3. CASE Stop(w)
    BY <1>1, <1>3, StopKeeps
  <1>4. CASE Proceed(w, Executed(action[Key(w)]), worker[w].drop)
    BY <1>1, <1>2, <1>4, ProceedKeeps
  <1>5. CASE worker' = [worker EXCEPT ![w].pc = "insert"]
    <2>1. Remembers(w)'
      BY <1>1, <1>5, PlaceMoves DEF Remembers, Results
    <2> QED BY <1>1, <1>5, <2>1, PlaceMoves, QuietKeeps
  <1>6. CASE action[Key(w)].status # "none" /\ worker' = [worker EXCEPT ![w].pc = "retry"]
    <2>1. /\ Key(w)' = Key(w) /\ worker'[w].pc = "retry" /\ worker'[w].todo = worker[w].todo
          /\ worker' \in [Workers -> Scan] /\ \A v \in Workers : v # w => worker'[v] = worker[v]
      BY <1>1, <1>6, PlaceMoves
    <2>2. action[Key(w)]'.status # "none"
      BY <1>1, <1>6, <2>1
    <2>3. Remembers(w)'
      BY <1>1, <2>1, <2>2 DEF Remembers, Results
    <2> QED BY <1>1, <2>1, <2>3, QuietKeeps
  <1> QED BY <1>3, <1>4, <1>5, <1>6 DEF Claim

\* What the withdrawals of a scan do to the insights.
LEMMA Withdrawn ==
  ASSUME TypeOK, NEW w \in Workers, Flushes(w), NEW i \in Ids
  PROVE  /\ Superseded(worker[w].drop)[i] \in InsightRow
         /\ Superseded(worker[w].drop)[i].status # "none" <=> insight[i].status # "none"
  <1>1. insight[i] \in InsightRow
    BY Typed
  <1>2. PICK n : n = insight[i].round
    OBVIOUS
  <1>3. n \in Nat
    BY <1>1, <1>2 DEF InsightRow
  <1>4. [status |-> "superseded", round |-> n + 1] \in InsightRow
    BY <1>3 DEF InsightRow
  <1>5. Superseded(worker[w].drop)[i] = IF i \in worker[w].drop
                                        THEN [status |-> "superseded", round |-> n + 1] ELSE insight[i]
    BY <1>2 DEF Superseded
  <1> QED BY <1>1, <1>4, <1>5 DEF Flushes

\* The row of a key is written, by a scan that has claimed it or does so now.
LEMMA RowWritten ==
  ASSUME TypeOK, NEW k \in Keys, NEW r \in ActionRow, action' = [action EXCEPT ![k] = r]
  PROVE  action' \in [Keys -> ActionRow] /\ action'[k] = r /\ \A j \in Keys : j # k => action'[j] = action[j]
  BY Typed

LEMMA ClaimedKeeps ==
  ASSUME NInv, Tokens = Nat, NEW w \in Workers, worker[w].todo # {}, NEW n \in 1..2, Claimed(w, n),
         alert' = alert, manager' = manager
  PROVE  NInv'
  <1>1. TypeOK
    BY DEF NInv, AuditIsTrue
  <1>2. worker[w] \in Scan
    BY <1>1, Typed
  <1>3. PICK k \in Keys : k = Key(w)
    BY <1>1, KeyType
  <1>4. PICK r : r = Running(w, n)
    OBVIOUS
  <1>5. r \in ActionRow /\ r.status = "dang_xu_ly"
    BY <1>1, <1>2, <1>3, <1>4, Typed DEF Running, ActionRow, Scan
  <1>6. /\ action' \in [Keys -> ActionRow] /\ action'[k] = r
        /\ \A j \in Keys : j # k => action'[j] = action[j]
    BY <1>1, <1>3, <1>4, <1>5, RowWritten DEF Claimed
  <1>7. PICK x : x = Session("run", worker[w].todo, {}, worker[w].token, worker[w].text, worker[w].old)
    OBVIOUS
  <1>8. /\ x \in Scan /\ x.pc = "run" /\ x.todo = worker[w].todo /\ x.token = worker[w].token
        /\ Enters(w, x)
    BY <1>2, <1>7 DEF Session, Scan, Claimed, Enters
  <1>9. /\ worker' \in [Workers -> Scan] /\ worker'[w] = x
        /\ \A v \in Workers : v # w => worker'[v] = worker[v]
    BY <1>1, <1>8, OneMoves
  <1>10. Key(w)' = k
    BY <1>3, <1>8, <1>9 DEF Key, Target
  <1>11. Remembers(w)'
    <2>1. action[Key(w)]'.status # "none"
      BY <1>5, <1>6, <1>10
    <2> QED BY <1>8, <1>9, <2>1 DEF Remembers, Results
  <1>12. \A i \in Ids : insight'[i] \in InsightRow /\ (insight'[i].status # "none" <=> insight[i].status # "none")
    BY <1>1, Withdrawn DEF Claimed
  <1>13. insight' \in [Ids -> InsightRow]
    <2>1. insight' = [i \in Ids |-> insight'[i]]
      BY DEF Claimed, Superseded
    <2> QED BY <1>12, <2>1
  <1>14. TypeOK'
    BY <1>1, <1>6, <1>9, <1>13, Typed DEF TypeOK, ActionRow, Scan, InsightRow
  <1>15. \A j \in Keys : /\ action[j].status # "none" => action'[j].status # "none"
                         /\ action'[j].status = "hoan_thanh" => action[j].status = "hoan_thanh"
    BY <1>5, <1>6
  <1> QED BY <1>9, <1>11, <1>12, <1>14, <1>15, StepKeeps

LEMMA InsertKeeps ==
  ASSUME NInv, Tokens = Nat, NEW w \in Workers, Insert(w) \/ Retry(w)
  PROVE  NInv'
  <1>1. /\ alert' = alert /\ manager' = manager /\ worker[w].pc \in {"insert", "retry"} /\ worker[w].todo # {}
        /\ \/ Claimed(w, 1) \/ Claimed(w, 2)
           \/ UNCHANGED <<insight, action>> /\ Stop(w)
           \/ UNCHANGED <<insight, action>> /\ Proceed(w, Executed(action[Key(w)]), {})
    BY DEF NInv, Insert, Retry, Remembers
  <1>2. {} \in SUBSET Ids /\ 1 \in 1..2 /\ 2 \in 1..2
    OBVIOUS
  <1> QED BY <1>1, <1>2, ClaimedKeeps, StopKeeps, ProceedKeeps

\* A claim ends in failure.
LEMMA FailsKeeps ==
  ASSUME NInv, Tokens = Nat, NEW w \in Workers, worker[w].todo # {},
         NEW outcome \in {"rejected", "failed"}, Fails(w, outcome), UNCHANGED <<alert, insight, manager>>
  PROVE  NInv'
  <1>1. TypeOK
    BY DEF NInv, AuditIsTrue
  <1>2. PICK k \in Keys : k = Key(w)
    BY <1>1, KeyType
  <1>3. action[k] \in ActionRow
    BY <1>1, Typed
  <1>4. PICK r : r = [status |-> "that_bai", outcome |-> outcome, attempts |-> action[k].attempts,
                      text |-> action[k].text]
    OBVIOUS
  <1>5. r \in ActionRow /\ r.status = "that_bai"
    BY <1>3, <1>4 DEF ActionRow
  <1>6. action' = [action EXCEPT ![k] = r]
    BY <1>2, <1>4 DEF Fails
  <1>7. /\ action' \in [Keys -> ActionRow] /\ action'[k] = r
        /\ \A j \in Keys : j # k => action'[j] = action[j]
    BY <1>1, <1>5, <1>6, RowWritten
  <1>8. PICK x \in Scan : x.pc = "look" /\ Enters(w, x)
    <2>1. {} \in SUBSET Ids /\ Proceed(w, "none", {})
      BY DEF Fails
    <2> QED BY <1>1, <2>1, ProceedMoves
  <1>9. /\ worker' \in [Workers -> Scan] /\ worker'[w] = x
        /\ \A v \in Workers : v # w => worker'[v] = worker[v]
    BY <1>1, <1>8, OneMoves
  <1>10. Remembers(w)'
    BY <1>8, <1>9, Released
  <1>11. TypeOK'
    BY <1>1, <1>7, <1>9, Typed DEF TypeOK, ActionRow, Scan
  <1>12. \A j \in Keys : /\ action[j].status # "none" => action'[j].status # "none"
                         /\ action'[j].status = "hoan_thanh" => action[j].status = "hoan_thanh"
    BY <1>5, <1>7
  <1> QED BY <1>9, <1>10, <1>11, <1>12, StepKeeps

LEMMA RevalidateKeeps ==
  ASSUME NInv, Tokens = Nat, NEW w \in Workers, Revalidate(w)
  PROVE  NInv'
  <1>1. /\ TypeOK /\ UNCHANGED <<alert, insight, manager>> /\ worker[w].pc = "run" /\ worker[w].todo # {}
        /\ action[Key(w)].status # "none"
    BY DEF NInv, AuditIsTrue, Revalidate, Remembers
  <1>2. CASE worker' = [worker EXCEPT ![w].pc = "notify"] /\ UNCHANGED action
    <2>1. /\ Key(w)' = Key(w) /\ worker'[w].pc = "notify" /\ worker'[w].todo = worker[w].todo
          /\ worker' \in [Workers -> Scan] /\ \A v \in Workers : v # w => worker'[v] = worker[v]
      BY <1>1, <1>2, PlaceMoves
    <2>2. action[Key(w)]'.status # "none"
      BY <1>1, <1>2, <2>1
    <2>3. Remembers(w)'
      BY <1>1, <2>1, <2>2 DEF Remembers, Results
    <2> QED BY <1>1, <1>2, <2>1, <2>3, QuietKeeps
  <1>3. CASE Fails(w, "rejected")
    BY <1>1, <1>3, FailsKeeps
  <1> QED BY <1>2, <1>3 DEF Revalidate

\* What telling the staff does to the insights.
LEMMA Told ==
  ASSUME TypeOK, NEW k \in Keys, NEW result, Tell(k, result)
  PROVE  /\ insight' \in [Ids -> InsightRow]
         /\ \A j \in Ids : /\ insight[j].status # "none" => insight'[j].status # "none"
                           /\ insight'[j].status # "none" => insight[j].status # "none" \/ j = Of(k)
         /\ result # "failed" => insight'[Of(k)].status # "none"
         /\ result = "failed" => insight' = insight
  <1>1. PICK i \in Ids : i = Of(k)
    BY OfType
  <1>2. insight \in [Ids -> InsightRow] /\ insight[i].round \in Nat /\ 0 \in Nat
    BY Typed DEF InsightRow
  <1>3. CASE UNCHANGED insight /\ (result # "failed" => insight[i].status # "none")
    BY <1>1, <1>2, <1>3
  <1>4. ASSUME NEW n \in Nat, result # "failed",
               insight' = [insight EXCEPT ![i] = [status |-> "unread", round |-> n]]
        PROVE  /\ insight' \in [Ids -> InsightRow] /\ insight'[i].status # "none"
               /\ \A j \in Ids : j # i => insight'[j] = insight[j]
    <2>1. PICK r : r = [status |-> "unread", round |-> n]
      OBVIOUS
    <2>2. r \in InsightRow /\ r.status = "unread"
      BY <2>1 DEF InsightRow, Open
    <2> QED BY <1>2, <1>4, <2>1, <2>2
  <1>5. \/ UNCHANGED insight /\ (result # "failed" => insight[i].status # "none")
        \/ result # "failed" /\ insight' = [insight EXCEPT ![i] = [status |-> "unread", round |-> 0]]
        \/ /\ result # "failed"
           /\ insight' = [insight EXCEPT ![i] = [status |-> "unread", round |-> insight[i].round]]
    BY <1>1 DEF Tell, Open
  <1> QED BY <1>1, <1>2, <1>3, <1>4, <1>5

\* The staff are told, once the claim is in the log.
LEMMA NotifyKeeps ==
  ASSUME NInv, Tokens = Nat, NEW w \in Workers, Notify(w)
  PROVE  NInv'
  <1>1. /\ TypeOK /\ alert' = alert /\ manager' = manager
        /\ worker[w].pc = "notify" /\ worker[w].todo # {}
        /\ action[Key(w)].status # "none"
    BY DEF NInv, AuditIsTrue, Notify, Remembers
  <1>2. PICK k \in Keys : k = Key(w)
    BY <1>1, KeyType
  <1>3. CASE Tell(k, "failed") /\ Fails(w, "failed")
    <2>1. insight' = insight
      BY <1>1, <1>3, Told
    <2> QED BY <1>1, <1>3, <2>1, FailsKeeps
  <1>4. ASSUME NEW pc \in Results, Tell(k, pc), worker' = [worker EXCEPT ![w].pc = pc], action' = action
        PROVE  NInv'
    <2>1. /\ Key(w)' = Key(w) /\ worker'[w].pc = pc /\ worker'[w].todo = worker[w].todo
          /\ worker' \in [Workers -> Scan] /\ \A v \in Workers : v # w => worker'[v] = worker[v]
      BY <1>1, <1>4, PlaceMoves
    <2>2. /\ insight' \in [Ids -> InsightRow] /\ insight'[Of(k)].status # "none"
          /\ \A j \in Ids : /\ insight[j].status # "none" => insight'[j].status # "none"
                            /\ insight'[j].status # "none" => insight[j].status # "none" \/ j = Of(k)
      BY <1>1, <1>4, Told DEF Results
    <2>3. Of(Key(w))' = Of(k)
      BY <1>2, <2>1 DEF Of
    <2>4. action[Key(w)]'.status # "none" /\ insight[Of(Key(w))]'.status # "none"
      BY <1>1, <1>4, <2>1, <2>2, <2>3
    <2>5. Remembers(w)'
      BY <1>1, <2>1, <2>4 DEF Remembers, Results
    <2>6. TypeOK'
      BY <1>1, <1>4, <2>1, <2>2, Typed DEF TypeOK, InsightRow, Scan
    <2>7. \A j \in Ids : insight'[j].status # "none" =>
            insight[j].status # "none" \/ \E h \in Keys : Of(h) = j /\ action[h].status # "none"
      BY <1>1, <1>2, <2>2
    <2>8. \A j \in Keys : action'[j] = action[j]
      BY <1>4
    <2> QED BY <1>1, <2>1, <2>2, <2>5, <2>6, <2>7, <2>8, StepKeeps
  <1>5. \/ Tell(k, "failed") /\ Fails(w, "failed")
        \/ \E pc \in Results : /\ Tell(k, pc) /\ worker' = [worker EXCEPT ![w].pc = pc]
                               /\ action' = action
    <2>1. \/ Tell(Key(w), "failed") /\ Fails(w, "failed")
          \/ \E pc \in Results : /\ Tell(Key(w), pc) /\ worker' = [worker EXCEPT ![w].pc = pc]
                                 /\ action' = action
      BY Zenon DEF Notify
    <2> QED BY <1>2, <2>1, Zenon
  <1> QED BY <1>3, <1>4, <1>5, Zenon

LEMMA FinishKeeps ==
  ASSUME NInv, Tokens = Nat, NEW w \in Workers, Finish(w)
  PROVE  NInv'
  <1>1. /\ TypeOK /\ UNCHANGED <<alert, insight, manager>> /\ worker[w].pc \in Results /\ worker[w].todo # {}
        /\ alert[Key(w)[1]].status = "deleted" \/ insight[Of(Key(w))].status # "none"
    BY DEF NInv, AuditIsTrue, Finish, Remembers, Results
  <1>2. PICK k \in Keys : k = Key(w)
    BY <1>1, KeyType
  <1>3. action[k] \in ActionRow
    BY <1>1, Typed
  <1>4. PICK r : r = [status |-> "hoan_thanh", outcome |-> worker[w].pc, attempts |-> action[k].attempts,
                      text |-> action[k].text]
    OBVIOUS
  <1>5. r \in ActionRow /\ r.status = "hoan_thanh"
    BY <1>1, <1>3, <1>4 DEF ActionRow
  <1>6. action' = [action EXCEPT ![k] = r]
    BY <1>2, <1>4 DEF Finish
  <1>7. /\ action' \in [Keys -> ActionRow] /\ action'[k] = r
        /\ \A j \in Keys : j # k => action'[j] = action[j]
    BY <1>1, <1>5, <1>6, RowWritten
  <1>8. PICK x \in Scan : x.pc = "look" /\ Enters(w, x)
    <2>1. {} \in SUBSET Ids /\ Proceed(w, worker[w].pc, {})
      BY DEF Finish
    <2> QED BY <1>1, <2>1, ProceedMoves
  <1>9. /\ worker' \in [Workers -> Scan] /\ worker'[w] = x
        /\ \A v \in Workers : v # w => worker'[v] = worker[v]
    BY <1>1, <1>8, OneMoves
  <1>10. Remembers(w)'
    BY <1>8, <1>9, Released
  <1>11. TypeOK'
    BY <1>1, <1>7, <1>9, Typed DEF TypeOK, ActionRow, Scan
  <1>12. \A j \in Keys : /\ action[j].status # "none" => action'[j].status # "none"
                         /\ action'[j].status = "hoan_thanh" =>
                              \/ action[j].status = "hoan_thanh" \/ insight[Of(j)].status # "none"
                              \/ alert[j[1]].status = "deleted"
    BY <1>1, <1>2, <1>5, <1>7
  <1> QED BY <1>1, <1>9, <1>10, <1>11, <1>12, StepKeeps

LEMMA EndKeeps ==
  ASSUME NInv, Tokens = Nat, NEW w \in Workers, End(w)
  PROVE  NInv'
  <1>1. /\ TypeOK /\ UNCHANGED <<alert, action, manager>> /\ Stop(w)
        /\ insight' = IF Flushes(w) THEN Superseded(worker[w].drop) ELSE insight
    BY DEF NInv, AuditIsTrue, End
  <1>2. CASE insight' = insight
    BY <1>1, <1>2, StopKeeps
  <1>3. CASE Flushes(w) /\ insight' = Superseded(worker[w].drop)
    <2>1. \A i \in Ids : insight'[i] \in InsightRow /\ (insight'[i].status # "none" <=> insight[i].status # "none")
      BY <1>1, <1>3, Withdrawn
    <2>2. insight' \in [Ids -> InsightRow]
      <3>1. insight' = [i \in Ids |-> insight'[i]]
        BY <1>3 DEF Superseded
      <3> QED BY <2>1, <3>1
    <2>3. PICK x \in Scan : x.pc = "idle" /\ Enters(w, x)
      BY <1>1, StopMoves
    <2>4. /\ worker' \in [Workers -> Scan] /\ worker'[w] = x
          /\ \A v \in Workers : v # w => worker'[v] = worker[v]
      BY <1>1, <2>3, OneMoves
    <2>5. Remembers(w)'
      BY <2>3, <2>4, Released
    <2>6. TypeOK'
      BY <1>1, <2>2, <2>4, Typed DEF TypeOK, InsightRow, Scan
    <2> QED BY <1>1, <2>1, <2>4, <2>5, <2>6, StepKeeps
  <1> QED BY <1>1, <1>2, <1>3

LEMMA FaultKeeps ==
  ASSUME NInv, Tokens = Nat, NEW w \in Workers, Fault(w) \/ Crash(w)
  PROVE  NInv'
  <1>1. CASE Fault(w)
    <2>1. /\ worker[w].todo # {} /\ Fails(w, "failed") /\ UNCHANGED <<alert, insight, manager>>
      BY <1>1 DEF NInv, Fault, Remembers
    <2> QED BY <2>1, FailsKeeps
  <1>2. CASE Crash(w)
    BY <1>2, StopKeeps DEF Crash
  <1> QED BY <1>1, <1>2

-----------------------------------------------------------------------------
(* What managers do with the rows                                          *)

\* A manager's request moves on, at a row that is in the log.
LEMMA ManagerMoves ==
  ASSUME TypeOK, NEW m \in Managers, NEW k \in Keys,
         NEW pc \in Results \cup {"reset", "run", "notify"},
         Does(m, pc, k)
  PROVE  /\ manager' \in [Managers -> Decision]
         /\ manager'[m].pc = pc /\ manager'[m].key = k
         /\ \A n \in Managers : n # m => manager'[n] = manager[n]
  <1>1. PICK d : d = [pc |-> pc, key |-> k]
    OBVIOUS
  <1>2. d \in Decision /\ d.pc = pc /\ d.key = k
    BY <1>1 DEF Decision
  <1> QED BY <1>1, <1>2, Typed DEF Does

LEMMA ManagerRests ==
  ASSUME TypeOK, NEW m \in Managers, Done(m)
  PROVE  /\ manager' \in [Managers -> Decision] /\ Holds(m)'
         /\ \A n \in Managers : n # m => manager'[n] = manager[n]
  <1>1. NoDecision \in Decision /\ NoDecision.pc = "idle"
    BY DEF NoDecision, Decision
  <1>2. manager' \in [Managers -> Decision] /\ manager'[m].pc = "idle"
        /\ \A n \in Managers : n # m => manager'[n] = manager[n]
    BY <1>1, Typed DEF Done
  <1> QED BY <1>2 DEF Holds, Results

\* A row of the log is given a status that claims nothing.
LEMMA MarkedRow ==
  ASSUME TypeOK, NEW k \in Keys, NEW st \in {"de_xuat", "dang_xu_ly", "that_bai", "tu_choi"}, Marks(k, st)
  PROVE  /\ action' \in [Keys -> ActionRow] /\ action'[k].status = st
         /\ \A j \in Keys : /\ action[j].status # "none" => action'[j].status # "none"
                            /\ action'[j].status = "hoan_thanh" => action[j].status = "hoan_thanh"
  <1>1. action \in [Keys -> ActionRow]
    BY Typed
  <1>2. PICK r \in ActionRow : r = action[k]
    BY <1>1
  <1>3. [r EXCEPT !.status = st] \in ActionRow /\ [r EXCEPT !.status = st].status = st
    BY DEF ActionRow
  <1>4. PICK x \in ActionRow : x = [r EXCEPT !.status = st] /\ x.status = st
    BY <1>3
  <1>5. action' = [action EXCEPT ![k] = x]
    BY <1>2, <1>4 DEF Marks
  <1> QED BY <1>1, <1>4, <1>5

\* A manager's step that only marks a row, or leaves the log alone.
LEMMA MarkKeeps ==
  ASSUME NInv, UNCHANGED <<alert, insight, worker>>,
         \/ action' = action
         \/ \E k \in Keys, st \in {"de_xuat", "dang_xu_ly", "that_bai", "tu_choi"} : Marks(k, st),
         manager' \in [Managers -> Decision],
         \A m \in Managers : manager'[m] = manager[m] \/ Holds(m)'
  PROVE  NInv'
  <1>1. TypeOK
    BY DEF NInv, AuditIsTrue
  <1>2. /\ action' \in [Keys -> ActionRow]
        /\ \A j \in Keys : /\ action[j].status # "none" => action'[j].status # "none"
                           /\ action'[j].status = "hoan_thanh" => action[j].status = "hoan_thanh"
    BY <1>1, MarkedRow, Typed
  <1>3. TypeOK'
    BY <1>1, <1>2, Typed DEF TypeOK, ActionRow, Decision
  <1>4. /\ \A a \in Alerts : alert[a].status = "deleted" => alert'[a].status = "deleted"
        /\ \A i \in Ids : insight'[i] = insight[i]
        /\ \A v \in Workers : worker'[v] = worker[v]
    OBVIOUS
  <1>5. \A m \in Managers : manager'[m] = manager[m] \/ Holds(m)'
    OBVIOUS
  <1> QED BY <1>2, <1>3, <1>4, <1>5, StepKeeps

\* A manager's request that rests, marking its row or not.
LEMMA RestKeeps ==
  ASSUME NInv, UNCHANGED <<alert, insight, worker>>, NEW m \in Managers, Done(m),
         \/ action' = action
         \/ \E k \in Keys, st \in {"de_xuat", "dang_xu_ly", "that_bai", "tu_choi"} : Marks(k, st)
  PROVE  NInv'
  <1>1. TypeOK
    BY DEF NInv, AuditIsTrue
  <1> QED BY <1>1, ManagerRests, MarkKeeps

\* A manager's request that goes on, at a row that is in the log.
LEMMA GoesOnKeeps ==
  ASSUME NInv, UNCHANGED <<alert, insight, worker>>, NEW m \in Managers, NEW k \in Keys,
         NEW pc \in {"reset", "run", "notify"}, Does(m, pc, k), action[k].status # "none",
         action' = action \/ \E st \in {"dang_xu_ly"} : Marks(k, st)
  PROVE  NInv'
  <1>1. TypeOK
    BY DEF NInv, AuditIsTrue
  <1>2. /\ manager' \in [Managers -> Decision] /\ manager'[m].pc = pc /\ manager'[m].key = k
        /\ \A n \in Managers : n # m => manager'[n] = manager[n]
    BY <1>1, ManagerMoves
  <1>3. action'[k].status # "none"
    BY <1>1, MarkedRow
  <1>4. Holds(m)'
    BY <1>2, <1>3 DEF Holds, Results
  <1> QED BY <1>2, <1>4, MarkKeeps

LEMMA ExecuteKeeps ==
  ASSUME NInv, NEW m \in Managers, Execute(m)
  PROVE  NInv'
  <1>1. /\ TypeOK /\ UNCHANGED <<alert, worker>> /\ manager[m].pc = "notify"
    BY DEF NInv, AuditIsTrue, Execute
  <1>2. PICK k \in Keys : k = manager[m].key /\ action[k].status # "none"
    BY <1>1 DEF NInv, Holds
  <1>3. CASE Tell(k, "failed") /\ Refused(m)
    <2>1. insight' = insight
      BY <1>1, <1>3, Told
    <2> QED BY <1>1, <1>2, <1>3, <2>1, RestKeeps DEF Refused
  <1>4. ASSUME NEW pc \in Results, Tell(k, pc), Does(m, pc, k), action' = action
        PROVE  NInv'
    <2>1. /\ manager' \in [Managers -> Decision] /\ manager'[m].pc = pc /\ manager'[m].key = k
          /\ \A n \in Managers : n # m => manager'[n] = manager[n]
      BY <1>1, <1>4, ManagerMoves
    <2>2. /\ insight' \in [Ids -> InsightRow] /\ insight'[Of(k)].status # "none"
          /\ \A j \in Ids : /\ insight[j].status # "none" => insight'[j].status # "none"
                            /\ insight'[j].status # "none" => insight[j].status # "none" \/ j = Of(k)
      BY <1>1, <1>4, Told DEF Results
    <2>3. Of(k)' = Of(k) /\ manager'[m].pc # "idle"
      BY <2>1 DEF Of, Results
    <2>4. Holds(m)'
      BY <1>2, <1>4, <2>1, <2>2, <2>3 DEF Holds
    <2>5. TypeOK'
      BY <1>1, <1>4, <2>1, <2>2, Typed DEF TypeOK, InsightRow, Decision
    <2>6. \A j \in Ids : insight'[j].status # "none" =>
            insight[j].status # "none" \/ \E h \in Keys : Of(h) = j /\ action[h].status # "none"
      BY <1>2, <2>2
    <2>7. \A j \in Keys : action'[j] = action[j]
      BY <1>4
    <2> QED BY <1>1, <2>1, <2>2, <2>4, <2>5, <2>6, <2>7, StepKeeps
  <1>5. \/ Tell(k, "failed") /\ Refused(m)
        \/ \E pc \in Results : Tell(k, pc) /\ Does(m, pc, k) /\ action' = action
    BY <1>2, Zenon DEF Execute
  <1> QED BY <1>3, <1>4, <1>5, Zenon

LEMMA RecordKeeps ==
  ASSUME NInv, NEW m \in Managers, Record(m)
  PROVE  NInv'
  <1>1. /\ TypeOK /\ UNCHANGED <<alert, insight, worker>> /\ manager[m].pc \in Results /\ Done(m)
    BY DEF NInv, AuditIsTrue, Record
  <1>2. PICK k \in Keys : /\ k = manager[m].key
                         /\ (alert[k[1]].status = "deleted" \/ insight[Of(k)].status # "none")
    BY <1>1 DEF NInv, Holds, Results
  <1>3. action[k] \in ActionRow
    BY <1>1, Typed
  <1>4. PICK r : r = [status |-> "hoan_thanh", outcome |-> manager[m].pc, attempts |-> action[k].attempts,
                      text |-> action[k].text]
    OBVIOUS
  <1>5. r \in ActionRow /\ r.status = "hoan_thanh"
    BY <1>1, <1>3, <1>4 DEF ActionRow
  <1>6. action' = [action EXCEPT ![k] = r]
    <2>1. action' = [action EXCEPT ![manager[m].key] =
            [status |-> "hoan_thanh", outcome |-> manager[m].pc, attempts |-> @.attempts, text |-> @.text]]
      BY DEF Record
    <2> QED BY <1>2, <1>4, <2>1
  <1>7. /\ action' \in [Keys -> ActionRow] /\ action'[k] = r
        /\ \A j \in Keys : j # k => action'[j] = action[j]
    BY <1>1, <1>5, <1>6, RowWritten
  <1>8. /\ manager' \in [Managers -> Decision] /\ Holds(m)'
        /\ \A n \in Managers : n # m => manager'[n] = manager[n]
    BY <1>1, ManagerRests
  <1>9. TypeOK'
    BY <1>1, <1>7, <1>8, Typed DEF TypeOK, ActionRow, Decision
  <1>10. \A j \in Keys : /\ action[j].status # "none" => action'[j].status # "none"
                         /\ action'[j].status = "hoan_thanh" =>
                              \/ action[j].status = "hoan_thanh" \/ insight[Of(j)].status # "none"
                              \/ alert[j[1]].status = "deleted"
    BY <1>2, <1>5, <1>7
  <1> QED BY <1>1, <1>8, <1>9, <1>10, StepKeeps

LEMMA ManagersKeep ==
  ASSUME NInv,
         \/ \E k \in Keys : Reject(k)
         \/ \E m \in Managers, k \in Keys : BeginReset(m, k) \/ Approve(m, k)
         \/ \E m \in Managers : Handles(m) \/ Goes(m)
  PROVE  NInv'
  <1>1. ASSUME NEW k \in Keys, Reject(k) PROVE NInv'
    <2>1. manager' \in [Managers -> Decision] /\ UNCHANGED <<alert, insight, worker, manager>>
      BY <1>1, Typed DEF Reject, NInv, AuditIsTrue
    <2> QED BY <1>1, <2>1, MarkKeeps DEF Reject
  <1>2. ASSUME NEW m \in Managers, NEW k \in Keys, BeginReset(m, k) \/ Approve(m, k) PROVE NInv'
    BY <1>2, GoesOnKeeps DEF BeginReset, Approve
  <1>3. ASSUME NEW m \in Managers, manager[m].pc # "idle"
        PROVE  manager[m].key \in Keys /\ action[manager[m].key].status # "none"
    BY <1>3 DEF NInv, Holds
  <1>4. ASSUME NEW m \in Managers, EndReset(m) PROVE NInv'
    <2>1. manager[m].key \in Keys
      BY <1>3, <1>4 DEF EndReset
    <2> QED BY <1>4, <2>1, RestKeeps DEF EndReset
  <1>5. ASSUME NEW m \in Managers, Recheck(m) PROVE NInv'
    <2>1. manager[m].key \in Keys /\ action[manager[m].key].status # "none"
      BY <1>3, <1>5 DEF Recheck
    <2>2. CASE Refused(m)
      BY <1>5, <2>1, <2>2, RestKeeps DEF Recheck, Refused
    <2>3. CASE Does(m, "notify", manager[m].key) /\ UNCHANGED action
      BY <1>5, <2>1, <2>3, GoesOnKeeps DEF Recheck
    <2> QED BY <1>5, <2>2, <2>3 DEF Recheck
  <1>6. ASSUME NEW m \in Managers, Goes(m) PROVE NInv'
    <2>1. manager[m].key \in Keys
      BY <1>3, <1>6 DEF Goes
    <2>2. Done(m) /\ UNCHANGED <<alert, insight, worker>>
          /\ (action' = action \/ Marks(manager[m].key, "that_bai"))
      BY <1>6 DEF Goes, Refused
    <2> QED BY <2>1, <2>2, RestKeeps
  <1> QED BY <1>1, <1>2, <1>4, <1>5, <1>6, ExecuteKeeps, RecordKeeps DEF Handles

\* The staff and the managers, and the stock.
LEMMA WorldKeeps ==
  ASSUME NInv, Tokens = Nat,
         \/ \E i \in Ids, st \in {"read", "resolved"} : Mark(i, st)
         \/ \E a \in Alerts, c \in Conditions \cup {NoCondition} : Move(a, c)
         \/ \E a \in Alerts, st \in AlertStatuses : Handle(a, st)
  PROVE  NInv'
  <1>1. TypeOK /\ UNCHANGED <<action, worker, manager>>
    BY DEF NInv, AuditIsTrue, Mark, Move, Handle
  <1>2. ASSUME NEW i \in Ids, NEW st \in {"read", "resolved"}, Mark(i, st) PROVE NInv'
    <2>1. insight \in [Ids -> InsightRow]
      BY <1>1, Typed
    <2>2. PICK n \in Nat : n = insight[i].round
      BY <2>1 DEF InsightRow
    <2>3. PICK r : r = [status |-> st, round |-> n]
      OBVIOUS
    <2>4. r \in InsightRow /\ r.status # "none" /\ insight' = [insight EXCEPT ![i] = r]
          /\ insight[i].status # "none" /\ alert' = alert
      BY <1>2, <2>2, <2>3 DEF Mark, InsightRow, Open
    <2>5. insight' \in [Ids -> InsightRow]
          /\ \A j \in Ids : insight'[j].status # "none" <=> insight[j].status # "none"
      BY <2>1, <2>4
    <2>6. TypeOK'
      BY <1>1, <2>4, <2>5, Typed DEF TypeOK, InsightRow
    <2> QED BY <1>1, <2>4, <2>5, <2>6, StepKeeps
  <1>3. ASSUME NEW a \in Alerts, NEW c \in Conditions \cup {NoCondition}, Move(a, c) PROVE NInv'
    <2>1. alert \in [Alerts -> AlertRow]
      BY <1>1, Typed
    <2>2. PICK r : r = [status |-> alert[a].status, cond |-> c]
      OBVIOUS
    <2>3. r \in AlertRow /\ r.status = alert[a].status /\ alert' = [alert EXCEPT ![a] = r] /\ insight' = insight
      BY <1>3, <2>1, <2>2 DEF Move, AlertRow
    <2>4. alert' \in [Alerts -> AlertRow] /\ \A b \in Alerts : alert'[b].status = alert[b].status
      BY <2>1, <2>3
    <2>5. TypeOK'
      BY <1>1, <2>3, <2>4, Typed DEF TypeOK, AlertRow
    <2> QED BY <1>1, <2>3, <2>4, <2>5, StepKeeps
  <1>4. ASSUME NEW a \in Alerts, NEW st \in AlertStatuses, Handle(a, st) PROVE NInv'
    <2>1. alert \in [Alerts -> AlertRow] /\ insight \in [Ids -> InsightRow]
      BY <1>1, Typed
    <2>2. PICK r : r = [status |-> st, cond |-> alert[a].cond]
      OBVIOUS
    <2>3. r \in AlertRow /\ r.status = st /\ alert' = [alert EXCEPT ![a] = r] /\ alert[a].status # "deleted"
          /\ insight' = [i \in Ids |-> IF i[1] = a /\ st = "deleted" THEN NoInsight ELSE insight[i]]
      BY <1>4, <2>1, <2>2 DEF Handle, AlertRow
    <2>4. /\ alert' \in [Alerts -> AlertRow] /\ alert'[a].status = st
          /\ \A b \in Alerts : alert[b].status = "deleted" => alert'[b].status = "deleted"
      BY <2>1, <2>3
    <2>5. NoInsight \in InsightRow /\ NoInsight.status = "none"
      BY DEF NoInsight, InsightRow
    <2>6. /\ insight' \in [Ids -> InsightRow]
          /\ \A i \in Ids : /\ insight'[i].status # "none" => insight[i].status # "none"
                            /\ insight[i].status # "none" =>
                                 insight'[i].status # "none" \/ alert'[i[1]].status = "deleted"
      BY <2>1, <2>3, <2>4, <2>5
    <2>7. TypeOK'
      BY <1>1, <2>4, <2>6, Typed DEF TypeOK, AlertRow, InsightRow
    <2> QED BY <1>1, <2>4, <2>6, <2>7, StepKeeps
  <1> QED BY <1>2, <1>3, <1>4

LEMMA NextKeeps == Tokens = Nat /\ NInv /\ [Next]_vars => NInv'
  <1> SUFFICES ASSUME Tokens = Nat, NInv, [Next]_vars PROVE NInv'
    OBVIOUS
  <1>1. ASSUME NEW w \in Workers, Work(w) PROVE NInv'
    <2>1. {} \in SUBSET InFlight
      OBVIOUS
    <2> QED BY <1>1, <2>1, BeginKeeps, LookKeeps, ClaimKeeps, InsertKeeps, RevalidateKeeps, NotifyKeeps,
            FinishKeeps, EndKeeps DEF Work
  <1>2. ASSUME NEW w \in Workers, NEW stale \in SUBSET InFlight, Begin(w, stale) PROVE NInv'
    BY <1>2, BeginKeeps
  <1>3. ASSUME NEW w \in Workers, Fault(w) \/ Crash(w) PROVE NInv'
    BY <1>3, FaultKeeps
  <1>4. CASE UNCHANGED vars
    <2>1. UNCHANGED <<alert, insight, action, worker, manager>>
      BY <1>4 DEF vars
    <2>2. worker' \in [Workers -> Scan]
      BY <2>1, Typed DEF NInv, AuditIsTrue
    <2> QED BY <2>1, <2>2, QuietKeeps
  <1>5. ASSUME \/ \E i \in Ids, st \in {"read", "resolved"} : Mark(i, st)
               \/ \E a \in Alerts, c \in Conditions \cup {NoCondition} : Move(a, c)
               \/ \E a \in Alerts, st \in AlertStatuses : Handle(a, st)
        PROVE  NInv'
    BY <1>5, WorldKeeps
  <1>6. ASSUME \/ \E k \in Keys : Reject(k)
               \/ \E m \in Managers, k \in Keys : BeginReset(m, k) \/ Approve(m, k)
               \/ \E m \in Managers : Handles(m) \/ Goes(m)
        PROVE  NInv'
    BY <1>6, ManagersKeep
  <1> QED BY <1>1, <1>2, <1>3, <1>4, <1>5, <1>6 DEF Next

LEMMA Begins == Tokens = Nat /\ Init => NInv
  <1> SUFFICES ASSUME Tokens = Nat, Init PROVE NInv
    OBVIOUS
  <1>1. /\ NoInsight \in InsightRow /\ NoInsight.status = "none" /\ NoAction \in ActionRow
        /\ NoAction.status = "none" /\ Idle \in Scan /\ Idle.pc = "idle"
        /\ NoDecision \in Decision /\ NoDecision.pc = "idle"
    BY DEF NoInsight, InsightRow, NoAction, ActionRow, Idle, Session, Scan, NoDecision, Decision
  <1>2. alert \in [Alerts -> AlertRow]
    <2>1. [status : {"chua_xu_ly"}, cond : Initial] \subseteq AlertRow
      BY Evidence DEF AlertRow, AlertStatuses
    <2> QED BY <2>1 DEF Init
  <1>3. TypeOK
    BY <1>1, <1>2, Typed DEF Init
  <1>4. \A k \in Keys : action[k].status = "none"
    BY <1>1 DEF Init
  <1>5. \A i \in Ids : insight[i].status = "none"
    BY <1>1 DEF Init
  <1>6. CompletedHasInsight /\ EverythingAudited
    BY <1>4, <1>5 DEF CompletedHasInsight, EverythingAudited
  <1>7. \A w \in Workers : Remembers(w)
    BY <1>1 DEF Init, Remembers, Results
  <1>8. \A m \in Managers : Holds(m)
    BY <1>1 DEF Init, Holds, Results
  <1> QED BY <1>3, <1>6, <1>7, <1>8 DEF NInv, AuditIsTrue

\* The audit log of what runs unattended and what the staff are told agree, for any number
\* of alerts, of evidence, of overlapping scans, crashes and changes, and with as many
\* occurrences of an insight as there are numbers (agent_service.py, execute_automated_action;
\* proactive_service.py): what is logged as completed was told, even where a session died
\* before its outcome and another one settled its row, or managers reset and approved it
\* meanwhile, and nothing is told unlogged.
THEOREM AuditStaysTrue == ASSUME Tokens = Nat PROVE Spec => []AuditIsTrue
  <1>1. Init => NInv
    BY Begins
  <1>2. NInv /\ [Next]_vars => NInv'
    BY NextKeeps
  <1>3. NInv => AuditIsTrue
    BY DEF NInv
  <1> QED BY <1>1, <1>2, <1>3, PTL DEF Spec
=============================================================================
