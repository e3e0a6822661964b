-------------------------- MODULE StorefrontProofs --------------------------
(***************************************************************************)
(* Proofs about the storefront, for any number of accounts, tabs, calls and  *)
(* addresses.  Sessions and carts: the expiry of a token signs nobody out,   *)
(* carts stay apart, and a call waits only for a refresh that is under way.  *)
(* Leafie: conversations stay whole, the limits are kept and nobody is       *)
(* refused without a reason, and nothing is dictated unseen.                 *)
(***************************************************************************)
EXTENDS Sessions, Leafie, Sums, TLAPS

-----------------------------------------------------------------------------
(* Sessions and carts                                                      *)

Numbers == 0 .. Len(token)
TabRecord == [user : BOOLEAN, refreshing : Numbers, guest : SUBSET Owners, shown : SUBSET Owners]
CallRecord == [pc : Pcs, tab : Tabs \cup {NoTab}, token : Numbers,
               by : {"page", "load", "update", "login", "register"}, who : Owners]
Tokens == [access : Numbers, refresh : Numbers]

AccountsTyped == account \in [Users -> {"none", "active", "disabled"}]
TokensTyped == token \in Seq(Users) /\ Len(token) <= MaxTokens /\ dead \in Tokens /\ store \in Tokens
TabsTyped == tab \in [Tabs -> TabRecord]
CartsTyped == cart \in [Users -> SUBSET Owners] /\ CartsApart
TroubleTyped == trouble \in {"none", "outage", "ended"}

\* A call belongs to a tab; one that waits has a refresh to wait for; one that is made again
\* has a token that has not expired.
Sound(c) ==
  /\ call[c] \in CallRecord
  /\ call[c].pc = "idle" \/ call[c].tab \in Tabs
  /\ call[c].pc = "signing" => call[c].who \in Users
  /\ call[c].pc = "waiting" => tab[call[c].tab].refreshing # 0
  /\ call[c].pc = "replayed" => call[c].token > dead.access
CallsSound == call = [d \in All |-> call[d]] /\ \A c \in All : Sound(c)

\* Until something ends a session: every token is of an account that is enabled, none that
\* refreshes has expired, no call has failed, and the tokens are stored.
Peace ==
  trouble = "none" =>
    /\ dead.refresh = 0
    /\ \A k \in 1 .. Len(token) : account[token[k]] = "active"
    /\ \A c \in All : call[c].pc # "failed"
    /\ Len(token) > 0 => store.access # 0 /\ store.refresh # 0

SessionsInv ==
  /\ AccountsTyped /\ TokensTyped /\ TabsTyped /\ CartsTyped /\ TroubleTyped
  /\ CallsSound /\ Peace

-----------------------------------------------------------------------------
LEMMA SessionsInit == Init => SessionsInv
  <1> SUFFICES ASSUME Init PROVE SessionsInv
    OBVIOUS
  <1>1. Len(token) = 0 /\ token \in Seq(Users) /\ Numbers = {0}
    BY DEF Init, Numbers
  <1>2. AccountsTyped /\ TroubleTyped
    BY DEF Init, AccountsTyped, TroubleTyped
  <1>3. TokensTyped
    BY <1>1, Bounds DEF Init, TokensTyped, Tokens, NoTokens
  <1>4. TabsTyped
    BY <1>1 DEF Init, TabsTyped, TabRecord
  <1>5. CartsTyped
    BY DEF Init, CartsTyped, CartsApart
  <1>6. CallsSound
    BY <1>1 DEF Init, CallsSound, Sound, NoCall, CallRecord, Pcs, Owners
  <1>7. Peace
    BY <1>1, <1>6 DEF Init, Peace, CallsSound, NoCall, NoTokens
  <1> QED
    BY <1>2, <1>3, <1>4, <1>5, <1>6, <1>7 DEF SessionsInv

-----------------------------------------------------------------------------
\* Whose session the stored token is of.
LEMMA HolderKnown ==
  ASSUME TokensTyped, NEW st \in Tokens PROVE Holder(st) \in Owners
  BY DEF TokensTyped, Tokens, Numbers, Holder, Owners

LEMMA DrawnKnown ==
  ASSUME TokensTyped, TabsTyped, CartsTyped, NEW t \in Tabs, NEW u \in Owners
  PROVE  Drawn(t, u) \in SUBSET Owners /\ Saved(t, u) \in SUBSET Owners
  BY DEF Drawn, Saved, TabsTyped, TabRecord, CartsTyped, Owners

\* What a page does when its call ends.
LEMMA EndKeeps ==
  ASSUME SessionsInv, NEW c \in All, call[c].tab \in Tabs, NEW result, NEW st \in Tokens,
         End(c, result, st)
  PROVE  /\ call' = [call EXCEPT ![c] = NoCall]
         /\ tab' \in [Tabs -> TabRecord]
         /\ \A t \in Tabs : tab'[t].refreshing = tab[t].refreshing
         /\ store' \in Tokens
         /\ store' = st \/ (result # "ok" /\ (result = "401" \/ call[c].by \in {"login", "register", "update"}))
  <1> DEFINE t == call[c].tab
             by == call[c].by
  <1>1. call' = [call EXCEPT ![c] = NoCall]
    BY DEF End
  <1>2. Drawn(t, Holder(st)) \in SUBSET Owners
    BY HolderKnown, DrawnKnown DEF SessionsInv
  <1>3. tab[t] \in TabRecord /\ tab \in [Tabs -> TabRecord]
    BY DEF SessionsInv, TabsTyped
  <1>4. \E new \in TabRecord : tab' = [tab EXCEPT ![t] = new] /\ new.refreshing = tab[t].refreshing
    <2>1. CASE result = "ok" /\ by # "page" /\ by = "login"
      <3>1. tab' = [tab EXCEPT ![t] = [tab[t] EXCEPT !.user = TRUE, !.shown = Drawn(t, Holder(st))]]
        BY <2>1 DEF End
      <3>2. /\ [tab[t] EXCEPT !.user = TRUE, !.shown = Drawn(t, Holder(st))] \in TabRecord
            /\ [tab[t] EXCEPT !.user = TRUE, !.shown = Drawn(t, Holder(st))].refreshing = tab[t].refreshing
        BY <1>2, <1>3 DEF TabRecord
      <3> QED
        BY <3>1, <3>2
    <2>2. CASE result = "ok" /\ by # "page" /\ by # "login"
      <3>1. tab' = [tab EXCEPT ![t] = [tab[t] EXCEPT !.user = TRUE, !.shown = tab[t].shown]]
        BY <2>2 DEF End
      <3>2. /\ [tab[t] EXCEPT !.user = TRUE, !.shown = tab[t].shown] \in TabRecord
            /\ [tab[t] EXCEPT !.user = TRUE, !.shown = tab[t].shown].refreshing = tab[t].refreshing
        BY <1>3 DEF TabRecord
      <3> QED
        BY <3>1, <3>2
    <2>3. CASE result # "ok" /\ by = "update"
      <3>1. tab' = [tab EXCEPT ![t] = [tab[t] EXCEPT !.user = FALSE, !.guest = {}, !.shown = {}]]
        BY <2>3 DEF End
      <3>2. /\ [tab[t] EXCEPT !.user = FALSE, !.guest = {}, !.shown = {}] \in TabRecord
            /\ [tab[t] EXCEPT !.user = FALSE, !.guest = {}, !.shown = {}].refreshing = tab[t].refreshing
        BY <1>3 DEF TabRecord
      <3> QED
        BY <3>1, <3>2
    <2>4. CASE ~(result = "ok" /\ by # "page") /\ ~(result # "ok" /\ by = "update")
      <3>1. \/ tab' = [tab EXCEPT ![t] = [tab[t] EXCEPT !.user = FALSE]]
            \/ tab' = [tab EXCEPT ![t] = tab[t]]
        BY <2>4 DEF End
      <3>2. /\ [tab[t] EXCEPT !.user = FALSE] \in TabRecord
            /\ [tab[t] EXCEPT !.user = FALSE].refreshing = tab[t].refreshing
        BY <1>3 DEF TabRecord
      <3> QED
        BY <1>3, <3>1, <3>2
    <2> QED
      BY <2>1, <2>2, <2>3, <2>4
  <1>5. PICK new \in TabRecord : tab' = [tab EXCEPT ![t] = new] /\ new.refreshing = tab[t].refreshing
    BY <1>4
  <1>6. /\ tab' \in [Tabs -> TabRecord]
        /\ \A s \in Tabs : tab'[s].refreshing = tab[s].refreshing
    BY <1>3, <1>5
  <1>7. store' = st \/ (store' = NoTokens /\ result # "ok"
                          /\ (result = "401" \/ by \in {"login", "register", "update"}))
    BY DEF End
  <1>8. NoTokens \in Tokens
    BY DEF NoTokens, Tokens, Numbers, SessionsInv, TokensTyped
  <1> QED
    BY <1>1, <1>6, <1>7, <1>8

\* A call that is over, or goes on as it was, stays sound.
LEMMA CallsStay ==
  ASSUME SessionsInv, Len(token) \in Nat, Len(token)' \in Nat, Len(token) <= Len(token)',
         dead' = dead, call' = [d \in All |-> call'[d]],
         \A c \in All : \/ Sound(c)'
                        \/ call'[c] = NoCall
                        \/ /\ call'[c] = call[c]
                           /\ call[c].pc = "waiting" => tab'[call[c].tab].refreshing # 0
  PROVE  CallsSound'
  <1>1. ASSUME NEW c \in All PROVE Sound(c)'
    <2>1. CASE call'[c] = NoCall
      BY <2>1 DEF Sound, NoCall, CallRecord, Pcs, Owners, Numbers
    <2>2. CASE call'[c] = call[c] /\ (call[c].pc = "waiting" => tab'[call[c].tab].refreshing # 0)
      <3>1. Sound(c)
        BY DEF SessionsInv, CallsSound
      <3>2. call[c] \in CallRecord'
        BY <3>1 DEF Sound, CallRecord, Numbers
      <3> QED
        BY <2>2, <3>1, <3>2 DEF Sound
    <2> QED
      BY <2>1, <2>2
  <1> QED
    BY <1>1 DEF CallsSound

LEMMA Lengths ==
  ASSUME SessionsInv
  PROVE  /\ Len(token) \in Nat /\ token \in Seq(Users) /\ Len(token) <= MaxTokens
         /\ Numbers \subseteq Nat /\ dead.access \in Nat /\ dead.refresh \in Nat
         /\ 0 \in Numbers
  BY DEF SessionsInv, TokensTyped, Tokens, Numbers

\* The same where no token is issued.
LEMMA CallsQuiet ==
  ASSUME SessionsInv, token' = token, dead' = dead, call' = [d \in All |-> call'[d]],
         \A c \in All : \/ Sound(c)'
                        \/ call'[c] = NoCall
                        \/ /\ call'[c] = call[c]
                           /\ call[c].pc = "waiting" => tab'[call[c].tab].refreshing # 0
  PROVE  CallsSound'
  <1>1. Len(token) \in Nat /\ Len(token)' = Len(token)
    BY Lengths
  <1> QED
    BY <1>1, CallsStay

\* A call that is answered for good: no token is issued.
LEMMA EndedKeeps ==
  ASSUME SessionsInv, NEW c \in All, call[c].tab \in Tabs, NEW result, NEW st \in Tokens,
         End(c, result, st), UNCHANGED <<account, token, dead, cart>>, TroubleTyped', Peace'
  PROVE  SessionsInv'
  <1>1. /\ call' = [call EXCEPT ![c] = NoCall]
        /\ tab' \in [Tabs -> TabRecord] /\ \A t \in Tabs : tab'[t].refreshing = tab[t].refreshing
        /\ store' \in Tokens
    BY EndKeeps
  <1>2. AccountsTyped' /\ TokensTyped' /\ TabsTyped' /\ CartsTyped'
    BY <1>1 DEF SessionsInv, AccountsTyped, TokensTyped, TabsTyped, CartsTyped, CartsApart,
                Tokens, TabRecord, Numbers
  <1>3. CallsSound'
    <2>1. \A d \in All : \/ call'[d] = NoCall
                         \/ /\ call'[d] = call[d]
                            /\ call[d].pc = "waiting" => tab'[call[d].tab].refreshing # 0
      BY <1>1 DEF SessionsInv, CallsSound, Sound
    <2>2. call' = [d \in All |-> call'[d]]
      BY <1>1 DEF SessionsInv, CallsSound
    <2> QED
      BY <2>1, <2>2, CallsStay, Lengths
  <1> QED
    BY <1>2, <1>3 DEF SessionsInv

LEMMA ServeKeeps == ASSUME SessionsInv, NEW c \in All, Serve(c) PROVE SessionsInv'
  <1> DEFINE result == IF account[token[call[c].token]] = "active" THEN "ok" ELSE "403"
  <1>1. Sound(c) /\ call[c].tab \in Tabs /\ store \in Tokens
    BY DEF SessionsInv, CallsSound, Sound, Serve, TokensTyped
  <1>2. End(c, result, store)
    BY DEF Serve
  <1>3. call' = [call EXCEPT ![c] = NoCall] /\ (result = "ok" => store' = store)
    BY <1>1, <1>2, EndKeeps
  <1>4. trouble = "none" => result = "ok"
    BY <1>1, Lengths DEF SessionsInv, Peace, Serve, Unauthorised, Sound, CallRecord, Numbers
  <1>5. Peace'
    <2> HIDE DEF result
    <2> QED
      BY <1>3, <1>4 DEF SessionsInv, Peace, CallsSound, Serve, NoCall
  <1>6. TroubleTyped'
    BY DEF Serve, SessionsInv, TroubleTyped
  <1> QED
    BY <1>1, <1>2, <1>5, <1>6, EndedKeeps DEF Serve

LEMMA RefuseKeeps == ASSUME SessionsInv, NEW c \in All, Refuse(c) PROVE SessionsInv'
  <1>1. call[c].tab \in Tabs /\ store \in Tokens
    BY DEF SessionsInv, CallsSound, Sound, Refuse, TokensTyped
  <1>2. Peace' /\ TroubleTyped'
    BY DEF Refuse, Ended, Peace, TroubleTyped
  <1> QED
    BY <1>1, <1>2, EndedKeeps DEF Refuse

LEMMA OutageKeeps == ASSUME SessionsInv, NEW c \in All, Outage(c) PROVE SessionsInv'
  <1>1. call[c].tab \in Tabs /\ store \in Tokens /\ End(c, "error", store)
    BY DEF SessionsInv, CallsSound, Sound, Outage, TokensTyped
  <1>2. /\ call' = [call EXCEPT ![c] = NoCall]
        /\ store' = store \/ call[c].by \in {"login", "register", "update"}
    BY <1>1, EndKeeps
  <1>3. TroubleTyped'
    BY DEF Outage, Ended, SessionsInv, TroubleTyped
  <1>4. CASE call[c].by \in {"login", "register", "update"}
    <2>1. Peace'
      BY <1>4 DEF Outage, Ended, Peace
    <2> QED
      BY <1>1, <1>3, <2>1, EndedKeeps DEF Outage
  <1>5. CASE call[c].by \notin {"login", "register", "update"}
    <2>1. Peace'
      BY <1>2, <1>5 DEF Outage, SessionsInv, Peace, CallsSound, NoCall
    <2> QED
      BY <1>1, <1>3, <2>1, EndedKeeps DEF Outage
  <1> QED
    BY <1>4, <1>5

LEMMA FailKeeps == ASSUME SessionsInv, NEW c \in All, Fail(c) PROVE SessionsInv'
  <1>1. call[c].tab \in Tabs /\ store \in Tokens
    BY DEF SessionsInv, CallsSound, Sound, Fail, TokensTyped
  <1>2. Peace' /\ TroubleTyped'
    BY DEF Fail, SessionsInv, Peace, TroubleTyped
  <1> QED
    BY <1>1, <1>2, EndedKeeps DEF Fail

\* A second 401, or one with nothing to refresh with, ends a call; before anything has ended
\* a session there is neither.
LEMMA TurnKeeps == ASSUME SessionsInv, NEW c \in All, Turn(c) PROVE SessionsInv'
  <1>1. Sound(c) /\ call[c].tab \in Tabs
    BY DEF SessionsInv, CallsSound, Sound, Turn
  <1>2. NoTokens \in Tokens /\ TroubleTyped'
    BY Lengths DEF NoTokens, Tokens, Turn, SessionsInv, TroubleTyped
  <1>3. CASE ~CanAttemptRefresh(c)
    <2>1. End(c, "401", NoTokens)
      BY <1>3 DEF Turn
    <2>2. call' = [call EXCEPT ![c] = NoCall]
      BY <1>1, <1>2, <2>1, EndKeeps
    <2>3. call[c].pc # "replayed"
      BY <1>1, Lengths DEF Turn, Unauthorised, Sound, CallRecord
    <2>4. store.refresh = 0
      BY <1>3, <2>3 DEF Turn, CanAttemptRefresh
    <2>5. Peace'
      BY <2>2, <2>4 DEF SessionsInv, Peace, CallsSound, Turn, NoCall
    <2> QED
      BY <1>1, <1>2, <2>1, <2>5, EndedKeeps DEF Turn
  <1>4. CASE CanAttemptRefresh(c)
    <2> DEFINE t == call[c].tab
    <2>1. /\ call' = [call EXCEPT ![c].pc = "waiting", ![c].token = 0]
          /\ tab' = [tab EXCEPT ![t].refreshing = IF @ = 0 THEN store.refresh ELSE @]
          /\ store' = store
      BY <1>4 DEF Turn
    <2>2. store.refresh # 0 /\ store.refresh \in Numbers
      BY <1>4 DEF CanAttemptRefresh, SessionsInv, TokensTyped, Tokens
    <2>3. /\ tab' \in [Tabs -> TabRecord] /\ tab'[t].refreshing # 0
          /\ \A s \in Tabs : tab[s].refreshing # 0 => tab'[s].refreshing # 0
      BY <1>1, <2>1, <2>2 DEF SessionsInv, TabsTyped, TabRecord
    <2>4. AccountsTyped' /\ TokensTyped' /\ TabsTyped' /\ CartsTyped'
      BY <2>1, <2>3 DEF Turn, SessionsInv, AccountsTyped, TokensTyped, TabsTyped, CartsTyped,
                        CartsApart, Tokens, TabRecord, Numbers
    <2>5. call' = [d \in All |-> call'[d]] /\ \A d \in All \ {c} : call'[d] = call[d]
      BY <2>1 DEF SessionsInv, CallsSound
    <2>6. /\ call'[c].pc = "waiting" /\ call'[c].tab = t /\ call'[c] \in CallRecord
      BY <1>1, <2>1, Lengths DEF SessionsInv, CallsSound, Sound, CallRecord, Pcs
    <2>7. Sound(c)'
      BY <1>1, <2>3, <2>6 DEF Sound, CallRecord, Numbers, Turn
    <2>8. CallsSound'
      <3>1. \A d \in All \ {c} : call[d].pc = "waiting" => tab'[call[d].tab].refreshing # 0
        BY <2>3 DEF SessionsInv, CallsSound, Sound
      <3> QED
        BY <2>5, <2>7, <3>1, CallsStay, Lengths DEF Turn
    <2>9. Peace'
      BY <2>1, <2>5, <2>6 DEF SessionsInv, Peace, Turn
    <2> QED
      BY <1>2, <2>4, <2>8, <2>9 DEF SessionsInv
  <1> QED
    BY <1>3, <1>4

-----------------------------------------------------------------------------
\* A page is loaded, a call or a form is sent, a session is ended by hand.
LEMMA MountKeeps == ASSUME SessionsInv, NEW t \in Tabs, Mount(t) PROVE SessionsInv'
  <1> DEFINE kept == [c \in All |-> IF call[c].tab = t THEN NoCall ELSE call[c]]
             s == Drawn(t, Holder(store))
  <1>1. s \in SUBSET Owners /\ store \in Tokens
    BY HolderKnown, DrawnKnown DEF SessionsInv, TokensTyped
  <1>2. /\ tab' = [tab EXCEPT ![t].user = FALSE, ![t].refreshing = 0, ![t].shown = s]
        /\ UNCHANGED <<account, token, dead, store, cart, trouble>>
    BY DEF Mount
  <1>3. /\ tab' \in [Tabs -> TabRecord]
        /\ \A u \in Tabs \ {t} : tab'[u].refreshing = tab[u].refreshing
    <2> HIDE DEF s
    <2> QED
      BY <1>1, <1>2, Lengths DEF SessionsInv, TabsTyped, TabRecord
  <1>4. AccountsTyped' /\ TokensTyped' /\ TabsTyped' /\ CartsTyped' /\ TroubleTyped'
    BY <1>2, <1>3 DEF SessionsInv, AccountsTyped, TokensTyped, TabsTyped, CartsTyped, TroubleTyped,
                      CartsApart, Tokens, TabRecord, Numbers
  <1>5. \/ call' = kept
        \/ \E c \in All : call' = [kept EXCEPT ![c] = [pc |-> "sent", tab |-> t, token |-> store.access,
                                                      by |-> "load", who |-> NoUser]]
    BY DEF Mount, All
  <1>6. \A d \in All : kept[d] = NoCall \/ (kept[d] = call[d] /\ call[d].tab # t)
    OBVIOUS
  <1>7. \A d \in All : call'[d] = kept[d] \/ (Sound(d)' /\ call'[d].pc # "failed")
    <2>0. DOMAIN kept = All
      OBVIOUS
    <2>1. ASSUME NEW c \in All,
                 call' = [kept EXCEPT ![c] = [pc |-> "sent", tab |-> t, token |-> store.access,
                                              by |-> "load", who |-> NoUser]]
          PROVE  Sound(c)' /\ call'[c].pc # "failed"
      BY <1>1, <1>2, <2>1 DEF Sound, CallRecord, Pcs, Owners, Tokens, Numbers
    <2> HIDE DEF kept
    <2>2. ASSUME NEW c \in All,
                 call' = [kept EXCEPT ![c] = [pc |-> "sent", tab |-> t, token |-> store.access,
                                              by |-> "load", who |-> NoUser]]
          PROVE  \A d \in All \ {c} : call'[d] = kept[d]
      BY <2>0, <2>2
    <2> QED
      BY <1>5, <2>1, <2>2
  <1>8. call' = [d \in All |-> call'[d]]
    BY <1>5
  <1>9. CallsSound'
    <2>1. \A d \in All : \/ Sound(d)'
                         \/ call'[d] = NoCall
                         \/ /\ call'[d] = call[d]
                            /\ call[d].pc = "waiting" => tab'[call[d].tab].refreshing # 0
      <3> HIDE DEF kept
      <3> QED
        BY <1>3, <1>6, <1>7 DEF SessionsInv, CallsSound, Sound
    <2> QED
      BY <1>2, <1>8, <2>1, CallsQuiet
  <1>10. Peace'
    <2> HIDE DEF kept
    <2> QED
      BY <1>2, <1>6, <1>7 DEF SessionsInv, Peace, NoCall
  <1> QED
    BY <1>4, <1>9, <1>10 DEF SessionsInv

LEMMA StartKeeps ==
  ASSUME SessionsInv, NEW t \in Tabs, NEW c \in All, NEW pc \in {"signing", "sent"}, NEW k \in Numbers,
         NEW by \in {"page", "update", "login", "register"}, NEW u \in Owners,
         pc = "signing" => u \in Users, Start(c, t, pc, k, by, u),
         UNCHANGED <<account, token, dead, store, tab, cart, trouble>>
  PROVE  SessionsInv'
  <1>1. /\ call' = [d \in All |-> call'[d]] /\ \A d \in All \ {c} : call'[d] = call[d]
        /\ call'[c] = [pc |-> pc, tab |-> t, token |-> k, by |-> by, who |-> u]
    BY DEF SessionsInv, CallsSound, Start
  <1>2. Sound(c)'
    BY <1>1 DEF Sound, CallRecord, Pcs, Numbers
  <1>3. CallsSound'
    <2>1. \A d \in All \ {c} : call[d].pc = "waiting" => tab'[call[d].tab].refreshing # 0
      BY DEF SessionsInv, CallsSound, Sound
    <2> QED
      BY <1>1, <1>2, <2>1, CallsQuiet
  <1>4. Peace'
    BY <1>1 DEF SessionsInv, Peace
  <1>5. AccountsTyped' /\ TokensTyped' /\ TabsTyped' /\ CartsTyped' /\ TroubleTyped'
    BY DEF SessionsInv, AccountsTyped, TokensTyped, TabsTyped, CartsTyped, TroubleTyped,
           CartsApart, Tokens, TabRecord, Numbers
  <1> QED
    BY <1>3, <1>4, <1>5 DEF SessionsInv

LEMMA AskKeeps == ASSUME SessionsInv, NEW c \in All, Ask(c) PROVE SessionsInv'
  <1>1. /\ call' = [d \in All |-> call'[d]] /\ \A d \in All \ {c} : call'[d] = call[d]
        /\ call'[c] = [call[c] EXCEPT !.pc = "sent", !.token = store.access]
    BY DEF SessionsInv, CallsSound, Ask
  <1>2. store.access \in Numbers /\ Sound(c) /\ call[c].tab \in Tabs
    BY DEF SessionsInv, TokensTyped, Tokens, CallsSound, Sound, Ask
  <1>3. /\ call'[c] \in CallRecord /\ call'[c].pc = "sent" /\ call'[c].tab = call[c].tab
    BY <1>1, <1>2 DEF Sound, CallRecord, Pcs
  <1>4. Sound(c)'
    BY <1>2, <1>3 DEF Sound, CallRecord, Numbers, Ask
  <1>5. CallsSound'
    <2>1. \A d \in All \ {c} : call[d].pc = "waiting" => tab'[call[d].tab].refreshing # 0
      BY DEF SessionsInv, CallsSound, Sound, Ask
    <2> QED
      BY <1>1, <1>4, <2>1, CallsQuiet DEF Ask
  <1>6. Peace'
    BY <1>1, <1>3 DEF SessionsInv, Peace, Ask
  <1>7. AccountsTyped' /\ TokensTyped' /\ TabsTyped' /\ CartsTyped' /\ TroubleTyped'
    BY DEF SessionsInv, AccountsTyped, TokensTyped, TabsTyped, CartsTyped, TroubleTyped,
           CartsApart, Tokens, TabRecord, Numbers, Ask
  <1> QED
    BY <1>5, <1>6, <1>7 DEF SessionsInv

\* What leaves calls and tokens alone.
LEMMA CartsKeep ==
  ASSUME SessionsInv, UNCHANGED <<account, token, dead, store, call, trouble>>,
         TabsTyped', CartsTyped', \A t \in Tabs : tab'[t].refreshing = tab[t].refreshing
  PROVE  SessionsInv'
  <1>1. CallsSound'
    <2>1. \A c \in All : call[c].pc = "waiting" => tab'[call[c].tab].refreshing # 0
      BY DEF SessionsInv, CallsSound, Sound
    <2> QED
      BY <2>1, CallsQuiet DEF SessionsInv, CallsSound
  <1> QED
    BY <1>1 DEF SessionsInv, AccountsTyped, TokensTyped, TroubleTyped, Peace, Tokens, Numbers

LEMMA CartKeeps ==
  ASSUME SessionsInv, NEW t \in Tabs, AddToCart(t) \/ ClearCart(t) \/ Redraw(t) PROVE SessionsInv'
  <1> DEFINE u == Holder(store)
  <1>1. store \in Tokens /\ u \in Owners /\ TabsTyped /\ CartsTyped
    BY HolderKnown DEF SessionsInv, TokensTyped
  <1>2. Saved(t, u) \in SUBSET Owners /\ Drawn(t, u) \in SUBSET Owners
    BY <1>1, DrawnKnown DEF SessionsInv
  <1>3. ASSUME NEW new \in SUBSET Owners, u \in Users => new \subseteq {u},
               tab' = [tab EXCEPT ![t].shown = new, ![t].guest = IF u = NoUser THEN new ELSE @],
               cart' = [v \in Users |-> IF v = u THEN new ELSE cart[v]],
               UNCHANGED <<account, token, dead, store, call, trouble>>
        PROVE  SessionsInv'
    <2> HIDE DEF u
    <2>1. tab' \in [Tabs -> TabRecord] /\ \A s \in Tabs : tab'[s].refreshing = tab[s].refreshing
      <3> DEFINE own == IF u = NoUser THEN new ELSE tab[t].guest
                 row == [tab[t] EXCEPT !.shown = new, !.guest = own]
      <3>1. tab' = [tab EXCEPT ![t] = row]
        BY <1>3
      <3>2. tab[t] \in TabRecord /\ tab \in [Tabs -> TabRecord]
        BY <1>1 DEF TabsTyped
      <3>3. own \in SUBSET Owners
        BY <1>3, <3>2 DEF TabRecord
      <3>4. row \in TabRecord /\ row.refreshing = tab[t].refreshing
        <4> HIDE DEF own
        <4> QED
          BY <1>3, <3>2, <3>3 DEF TabRecord
      <3> HIDE DEF row
      <3> QED
        BY <3>1, <3>2, <3>4
    <2>3. TabsTyped'
      BY <1>3, <2>1 DEF TabsTyped, TabRecord, Numbers
    <2>2. CartsTyped'
      BY <1>1, <1>3 DEF CartsTyped, CartsApart
    <2> QED
      BY <1>3, <2>1, <2>2, <2>3, CartsKeep
  <1>4. CASE AddToCart(t)
    <2> DEFINE new == Saved(t, u) \cup ({u} \cap Followed)
    <2>1. new \in SUBSET Owners
      BY <1>1, <1>2
    <2>2. u \in Users => new \subseteq {u}
      BY <1>1, Absent DEF Saved, CartsTyped, CartsApart
    <2>3. /\ tab' = [tab EXCEPT ![t].shown = new, ![t].guest = IF u = NoUser THEN new ELSE @]
          /\ cart' = [v \in Users |-> IF v = u THEN new ELSE cart[v]]
          /\ UNCHANGED <<account, token, dead, store, call, trouble>>
      BY <1>4 DEF AddToCart
    <2> HIDE DEF new
    <2> QED
      BY <1>3, <2>1, <2>2, <2>3
  <1>5. CASE ClearCart(t)
    <2> DEFINE new == {}
    <2>1. new \in SUBSET Owners /\ (u \in Users => new \subseteq {u})
      OBVIOUS
    <2>2. /\ tab' = [tab EXCEPT ![t].shown = new, ![t].guest = IF u = NoUser THEN new ELSE @]
          /\ cart' = [v \in Users |-> IF v = u THEN new ELSE cart[v]]
          /\ UNCHANGED <<account, token, dead, store, call, trouble>>
      BY <1>5 DEF ClearCart
    <2> HIDE DEF new
    <2> QED
      BY <1>3, <2>1, <2>2
  <1>6. CASE Redraw(t)
    <2>1. TabsTyped' /\ \A s \in Tabs : tab'[s].refreshing = tab[s].refreshing
      <3>1. tab' = [tab EXCEPT ![t].shown = Drawn(t, u)] /\ token' = token
        BY <1>6 DEF Redraw
      <3> HIDE DEF u
      <3> QED
        BY <1>1, <1>2, <3>1 DEF TabsTyped, TabRecord, Numbers
    <2>2. CartsTyped'
      BY <1>1, <1>6 DEF Redraw, CartsTyped, CartsApart
    <2> QED
      BY <1>6, <2>1, <2>2, CartsKeep DEF Redraw
  <1> QED
    BY <1>4, <1>5, <1>6

LEMMA SignOutKeeps == ASSUME SessionsInv, NEW t \in Tabs, SignOut(t) PROVE SessionsInv'
  <1>1. /\ tab' = [tab EXCEPT ![t].user = FALSE, ![t].guest = {}, ![t].shown = {}]
        /\ store' = NoTokens /\ UNCHANGED <<account, token, dead, call, cart>>
    BY DEF SignOut
  <1>2. TabsTyped' /\ \A s \in Tabs : tab'[s].refreshing = tab[s].refreshing
    BY <1>1 DEF SessionsInv, TabsTyped, TabRecord, Numbers
  <1>3. AccountsTyped' /\ TokensTyped' /\ CartsTyped'
    BY <1>1, Lengths DEF SessionsInv, AccountsTyped, TokensTyped, CartsTyped, CartsApart, Tokens,
                         Numbers, NoTokens
  <1>4. CallsSound'
    <2>1. \A c \in All : call[c].pc = "waiting" => tab'[call[c].tab].refreshing # 0
      BY <1>2 DEF SessionsInv, CallsSound, Sound
    <2> QED
      BY <1>1, <2>1, CallsQuiet DEF SessionsInv, CallsSound
  <1>5. TroubleTyped' /\ Peace'
    BY DEF SignOut, Ended, TroubleTyped, Peace
  <1> QED
    BY <1>2, <1>3, <1>4, <1>5 DEF SessionsInv

LEMMA RequestKeeps ==
  ASSUME SessionsInv, NEW t \in Tabs, NEW c \in All, NEW by \in {"page", "update"}, Request(t, c, by)
  PROVE  SessionsInv'
  <1>1. store.access \in Numbers /\ NoUser \in Owners
    BY DEF SessionsInv, TokensTyped, Tokens, Owners
  <1>2. Start(c, t, "sent", store.access, by, NoUser)
    BY DEF Request
  <1> QED
    BY <1>1, <1>2, StartKeeps DEF Request

LEMMA SubmitKeeps ==
  ASSUME SessionsInv, NEW t \in Tabs, NEW c \in All, NEW by \in {"login", "register"},
         NEW u \in Users, Submit(t, c, by, u)
  PROVE  SessionsInv'
  <1>1. u \in Owners /\ 0 \in Numbers
    BY Lengths DEF Owners
  <1>2. Start(c, t, "signing", 0, by, u)
    BY DEF Submit
  <1> QED
    BY <1>1, <1>2, StartKeeps DEF Submit

-----------------------------------------------------------------------------
\* A pair of tokens is issued: the pairs known before are known still.
LEMMA IssueGrows ==
  ASSUME SessionsInv, NEW u \in Users, Issue(u)
  PROVE  /\ token' \in Seq(Users) /\ Len(token') = Len(token) + 1 /\ Len(token') <= MaxTokens
         /\ \A k \in 1 .. Len(token) : token'[k] = token[k]
         /\ token'[Len(token) + 1] = u
         /\ Numbers \subseteq Numbers' /\ NextPair \in Numbers' /\ NextPair \notin Numbers
         /\ NextPair # 0
  <1>1. Len(token) \in Nat /\ token \in Seq(Users) /\ Len(token) < MaxTokens
        /\ token' = Append(token, u)
    BY Lengths DEF Issue
  <1>2. token' \in Seq(Users) /\ Len(token') = Len(token) + 1
    BY <1>1
  <1> QED
    BY <1>1, <1>2, Bounds DEF Numbers, NextPair

LEMMA IssueTyped ==
  ASSUME SessionsInv, NEW u \in Users, Issue(u), dead' = dead,
         store' = [access |-> NextPair, refresh |-> NextPair]
  PROVE  TokensTyped' /\ store'.access # 0 /\ store'.refresh # 0
  <1>1. dead \in Tokens
    BY DEF SessionsInv, TokensTyped
  <1>2. dead' \in Tokens' /\ store' \in Tokens'
    BY <1>1, IssueGrows DEF Tokens
  <1> QED
    BY <1>2, IssueGrows DEF TokensTyped

LEMMA SignedInKeeps == ASSUME SessionsInv, NEW c \in All, SignedIn(c) PROVE SessionsInv'
  <1> DEFINE t == call[c].tab
             u == call[c].who
  <1>1. Sound(c) /\ t \in Tabs /\ u \in Users /\ call = [d \in All |-> call[d]]
    BY DEF SessionsInv, CallsSound, Sound, SignedIn
  <1>2. Admit(c, u) /\ UNCHANGED <<dead, cart, trouble>>
    BY DEF SignedIn
  <1>3. /\ Issue(u)
        /\ store' = [access |-> NextPair, refresh |-> NextPair]
        /\ call' = [call EXCEPT ![c].pc = "pause", ![c].who = NoUser]
        /\ tab' = [tab EXCEPT ![t].guest = {}] \/ tab' = tab
    BY <1>2 DEF Admit
  <1>4. /\ AccountsTyped' /\ account'[u] = "active"
        /\ \A v \in Users : account[v] = "active" => account'[v] = "active"
    BY <1>1 DEF SignedIn, SessionsInv, AccountsTyped
  <1>5. TokensTyped' /\ store'.access # 0 /\ store'.refresh # 0
    BY <1>1, <1>2, <1>3, IssueTyped
  <1>6. tab' \in [Tabs -> TabRecord] /\ \A s \in Tabs : tab'[s].refreshing = tab[s].refreshing
    BY <1>1, <1>3 DEF SessionsInv, TabsTyped, TabRecord
  <1>7. TabsTyped'
    BY <1>1, <1>3, <1>6, IssueGrows DEF TabsTyped, TabRecord
  <1>8. CartsTyped' /\ TroubleTyped'
    BY <1>2 DEF SessionsInv, CartsTyped, CartsApart, TroubleTyped
  <1>9. CallsSound'
    <2>1. /\ call'[c] \in CallRecord /\ call'[c].pc = "pause" /\ call'[c].tab = t
          /\ call' = [d \in All |-> call'[d]] /\ \A d \in All \ {c} : call'[d] = call[d]
      BY <1>1, <1>3 DEF Sound, CallRecord, Pcs, Owners
    <2>2. Sound(c)'
      BY <1>1, <1>3, <2>1, IssueGrows DEF Sound, CallRecord
    <2>3. \A d \in All \ {c} : call[d].pc = "waiting" => tab'[call[d].tab].refreshing # 0
      BY <1>6 DEF SessionsInv, CallsSound, Sound
    <2>4. Len(token) \in Nat /\ Len(token)' \in Nat /\ Len(token) <= Len(token)'
      BY <1>1, <1>3, Lengths, IssueGrows
    <2> QED
      BY <1>2, <2>1, <2>2, <2>3, <2>4, CallsStay
  <1>10. Peace'
    <2>1. ASSUME trouble = "none" PROVE \A k \in 1 .. Len(token') : account'[token'[k]] = "active"
      <3>1. \A k \in 1 .. Len(token) : account'[token'[k]] = "active"
        BY <1>1, <1>3, <1>4, <2>1, Lengths, IssueGrows DEF SessionsInv, Peace
      <3>2. account'[token'[Len(token) + 1]] = "active"
        BY <1>1, <1>3, <1>4, IssueGrows
      <3> QED
        BY <1>1, <1>3, <3>1, <3>2, Lengths, IssueGrows
    <2>2. \A d \in All : call'[d].pc = "failed" => call[d].pc = "failed"
      BY <1>1, <1>3
    <2> QED
      BY <1>2, <1>5, <2>1, <2>2 DEF SessionsInv, Peace
  <1> QED
    BY <1>4, <1>5, <1>7, <1>8, <1>9, <1>10 DEF SessionsInv

\* The calls that wait for the refresh of a tab are all of those that wait in it.
LEMMA RenewKeeps == ASSUME SessionsInv, NEW t \in Tabs, Renew(t) PROVE SessionsInv'
  <1> DEFINE u == token[tab[t].refreshing]
  <1>0. tab[t].refreshing # 0 /\ Honoured(tab[t].refreshing) /\ Issue(u)
    BY DEF Renew
  <1>1. tab[t].refreshing \in 1 .. Len(token) /\ tab \in [Tabs -> TabRecord]
    BY <1>0, Lengths DEF SessionsInv, TabsTyped, TabRecord, Numbers
  <1>2. u \in Users /\ account[u] = "active" /\ Issue(u)
    BY <1>0, <1>1, Lengths DEF Honoured
  <1>3. /\ store' = [access |-> NextPair, refresh |-> NextPair]
        /\ tab' = [tab EXCEPT ![t].refreshing = 0]
        /\ call' = [c \in All |-> IF c \in Waiting(t)
                                    THEN [call[c] EXCEPT !.pc = "replayed", !.token = NextPair]
                                    ELSE call[c]]
        /\ UNCHANGED <<account, dead, cart, trouble>>
    BY DEF Renew, Refreshed
  <1> HIDE DEF u
  <1>4. AccountsTyped' /\ CartsTyped' /\ TroubleTyped'
    BY <1>3 DEF SessionsInv, AccountsTyped, CartsTyped, CartsApart, TroubleTyped
  <1>5. TokensTyped' /\ store'.access # 0 /\ store'.refresh # 0
    BY <1>2, <1>3, IssueTyped
  <1>6. tab' \in [Tabs -> TabRecord] /\ \A s \in Tabs \ {t} : tab'[s].refreshing = tab[s].refreshing
    BY <1>1, <1>3, Lengths DEF TabRecord
  <1>7. TabsTyped'
    BY <1>2, <1>6, IssueGrows DEF TabsTyped, TabRecord
  <1>8. Len(token) \in Nat /\ Len(token)' \in Nat /\ Len(token) <= Len(token)'
        /\ dead.access <= Len(token) /\ dead.access \in Nat
    BY <1>2, Lengths, IssueGrows DEF SessionsInv, TokensTyped, Tokens, Numbers
  <1>9. CallsSound'
    <2>1. ASSUME NEW c \in Waiting(t) PROVE Sound(c)'
      <3>1. Sound(c) /\ c \in All /\ call[c].tab = t
        BY DEF SessionsInv, CallsSound, Waiting
      <3>2. call'[c] = [call[c] EXCEPT !.pc = "replayed", !.token = NextPair]
        BY <1>3, <3>1
      <3>3. NextPair \in Numbers' /\ Numbers \subseteq Numbers' /\ NextPair > dead.access
        BY <1>2, <1>8, IssueGrows DEF NextPair
      <3>4. call'[c] \in CallRecord' /\ call'[c].pc = "replayed" /\ call'[c].tab = t
            /\ call'[c].token = NextPair
        BY <3>1, <3>2, <3>3 DEF Sound, CallRecord, Pcs
      <3> QED
        BY <1>3, <3>3, <3>4 DEF Sound
    <2>2. \A c \in All \ Waiting(t) :
             call'[c] = call[c] /\ (call[c].pc = "waiting" => tab'[call[c].tab].refreshing # 0)
      BY <1>3, <1>6 DEF SessionsInv, CallsSound, Sound, Waiting
    <2>3. call' = [d \in All |-> call'[d]]
      BY <1>3
    <2> QED
      BY <1>3, <1>8, <2>1, <2>2, <2>3, CallsStay
  <1>10. Peace'
    <2>1. ASSUME trouble = "none" PROVE \A k \in 1 .. Len(token') : account'[token'[k]] = "active"
      <3>1. \A k \in 1 .. Len(token) : account'[token'[k]] = "active"
        BY <1>2, <1>3, <2>1, IssueGrows DEF SessionsInv, Peace
      <3>2. account'[token'[Len(token) + 1]] = "active"
        BY <1>2, <1>3, IssueGrows
      <3> QED
        BY <1>2, <1>8, <3>1, <3>2, IssueGrows
    <2>2. \A c \in All : call'[c].pc = "failed" => call[c].pc = "failed"
      <3>1. \A c \in Waiting(t) : c \in All /\ call'[c].pc = "replayed"
        <4>1. \A c \in Waiting(t) : c \in All /\ Sound(c)
          BY DEF Waiting, SessionsInv, CallsSound
        <4> QED
          BY <1>3, <4>1 DEF Sound, CallRecord
      <3> QED
        BY <1>3, <3>1
    <2> QED
      BY <1>3, <1>5, <2>1, <2>2 DEF SessionsInv, Peace
  <1> QED
    BY <1>4, <1>5, <1>7, <1>9, <1>10 DEF SessionsInv

\* A refresh is refused only after something has ended a session, or the answer is lost.
LEMMA DenyKeeps == ASSUME SessionsInv, NEW t \in Tabs, Deny(t) PROVE SessionsInv'
  <1>1. tab[t].refreshing \in 1 .. Len(token) /\ tab \in [Tabs -> TabRecord]
    BY Lengths DEF Deny, SessionsInv, TabsTyped, TabRecord, Numbers
  <1>2. /\ store' = NoTokens /\ tab' = [tab EXCEPT ![t].refreshing = 0]
        /\ call' = [c \in All |-> IF c \in Waiting(t) THEN [call[c] EXCEPT !.pc = "failed"] ELSE call[c]]
        /\ UNCHANGED <<account, token, dead, cart>>
    BY DEF Deny, Rejected
  <1>3. trouble' # "none" /\ TroubleTyped'
    <2>1. trouble = "none" => Honoured(tab[t].refreshing)
      BY <1>1, Lengths DEF Honoured, SessionsInv, Peace
    <2> QED
      BY <2>1 DEF Deny, SessionsInv, TroubleTyped
  <1>4. tab' \in [Tabs -> TabRecord] /\ \A s \in Tabs \ {t} : tab'[s].refreshing = tab[s].refreshing
    BY <1>1, <1>2, Lengths DEF TabRecord
  <1>5. TabsTyped'
    BY <1>2, <1>4 DEF TabsTyped, TabRecord, Numbers
  <1>6. AccountsTyped' /\ TokensTyped' /\ CartsTyped'
    BY <1>2, Lengths DEF SessionsInv, AccountsTyped, TokensTyped, CartsTyped, CartsApart, Tokens,
                         Numbers, NoTokens
  <1>7. CallsSound'
    <2>1. ASSUME NEW c \in Waiting(t) PROVE Sound(c)'
      <3>1. Sound(c) /\ c \in All /\ call[c].tab = t
        BY DEF SessionsInv, CallsSound, Waiting
      <3>2. call'[c] = [call[c] EXCEPT !.pc = "failed"]
        BY <1>2, <3>1
      <3>3. call'[c] \in CallRecord /\ call'[c].pc = "failed" /\ call'[c].tab = t
        BY <3>1, <3>2 DEF Sound, CallRecord, Pcs
      <3> QED
        BY <1>2, <3>3 DEF Sound, CallRecord, Numbers
    <2>2. \A c \in All \ Waiting(t) :
             call'[c] = call[c] /\ (call[c].pc = "waiting" => tab'[call[c].tab].refreshing # 0)
      BY <1>2, <1>4 DEF SessionsInv, CallsSound, Sound, Waiting
    <2>3. call' = [d \in All |-> call'[d]]
      BY <1>2
    <2> QED
      BY <1>2, <2>1, <2>2, <2>3, CallsQuiet
  <1>8. Peace'
    BY <1>3 DEF Peace
  <1> QED
    BY <1>3, <1>5, <1>6, <1>7, <1>8 DEF SessionsInv

-----------------------------------------------------------------------------
\* Minutes pass, and administrators disable and enable accounts.
LEMMA SoundLater ==
  ASSUME SessionsInv, UNCHANGED <<token, tab, call>>,
         \A c \in All : call[c].pc = "replayed" => call[c].token > dead'.access
  PROVE  CallsSound'
  BY DEF SessionsInv, CallsSound, Sound, CallRecord, Numbers

LEMMA ExpireKeeps == ASSUME SessionsInv, Expire \/ ExpireRefresh PROVE SessionsInv'
  <1>1. PICK k \in Numbers : \/ dead' = [dead EXCEPT !.access = k]
                             \/ dead' = [dead EXCEPT !.refresh = k]
    BY Lengths, SMTT(30) DEF Expire, ExpireRefresh, Numbers, SessionsInv, TokensTyped, Tokens
  <1>2. UNCHANGED <<account, token, store, tab, call, cart>>
    BY DEF Expire, ExpireRefresh
  <1>3. AccountsTyped' /\ TokensTyped' /\ TabsTyped' /\ CartsTyped' /\ TroubleTyped'
    BY <1>1, <1>2 DEF SessionsInv, AccountsTyped, TokensTyped, TabsTyped, CartsTyped, TroubleTyped,
                      CartsApart, Tokens, TabRecord, Numbers, Expire, ExpireRefresh, Ended
  <1>4. CASE Expire
    <2>1. PICK n : /\ dead' = [dead EXCEPT !.access = n]
                   /\ \A c \in All : call[c].pc = "replayed" => call[c].token > n
      BY <1>4 DEF Expire
    <2>2. dead'.access = n /\ dead'.refresh = dead.refresh
      BY <2>1 DEF SessionsInv, TokensTyped, Tokens
    <2>3. Peace' /\ CallsSound'
      BY <1>2, <1>4, <2>1, <2>2, SoundLater DEF Expire, SessionsInv, Peace
    <2> QED
      BY <1>3, <2>3 DEF SessionsInv
  <1>5. CASE ExpireRefresh
    <2>1. dead'.access = dead.access
      BY <1>5 DEF ExpireRefresh, SessionsInv, TokensTyped, Tokens
    <2>2. \A c \in All : call[c].pc = "replayed" => call[c].token > dead'.access
      BY <2>1 DEF SessionsInv, CallsSound, Sound
    <2>3. Peace' /\ CallsSound'
      BY <1>2, <1>5, <2>2, SoundLater DEF ExpireRefresh, Ended, Peace
    <2> QED
      BY <1>3, <2>3 DEF SessionsInv
  <1> QED
    BY <1>4, <1>5

LEMMA ManagedKeeps ==
  ASSUME SessionsInv, NEW u \in Managed, Disable(u) \/ Enable(u) PROVE SessionsInv'
  <1>1. UNCHANGED <<token, dead, store, tab, call, cart>> /\ u \in Users
    BY Given DEF Disable, Enable
  <1>2. AccountsTyped' /\ TokensTyped' /\ TabsTyped' /\ CartsTyped' /\ TroubleTyped'
    BY <1>1 DEF SessionsInv, AccountsTyped, TokensTyped, TabsTyped, CartsTyped, TroubleTyped,
                CartsApart, Tokens, TabRecord, Numbers, Disable, Enable, Ended
  <1>3. CallsSound'
    BY <1>1, SoundLater DEF SessionsInv, CallsSound, Sound
  <1>4. Peace'
    <2>1. CASE Disable(u)
      BY <2>1 DEF Disable, Ended, Peace
    <2>2. CASE Enable(u)
      <3>1. \A v \in Users : account[v] = "active" => account'[v] = "active"
        BY <2>2, <1>1 DEF Enable, SessionsInv, AccountsTyped
      <3>2. \A k \in 1 .. Len(token) : token[k] \in Users
        BY Lengths
      <3> QED
        BY <1>1, <2>2, <3>1, <3>2 DEF Enable, SessionsInv, Peace
    <2> QED
      BY <2>1, <2>2
  <1> QED
    BY <1>2, <1>3, <1>4 DEF SessionsInv

-----------------------------------------------------------------------------
LEMMA SessionsNext == SessionsInv /\ [Next]_vars => SessionsInv'
  <1> SUFFICES ASSUME SessionsInv, [Next]_vars PROVE SessionsInv'
    OBVIOUS
  <1>1. ASSUME NEW t \in Tabs,
               Mount(t) \/ SignOut(t) \/ AddToCart(t) \/ ClearCart(t) \/ Redraw(t) \/ AnswerRefresh(t)
        PROVE  SessionsInv'
    BY <1>1, MountKeeps, SignOutKeeps, CartKeeps, RenewKeeps, DenyKeeps DEF AnswerRefresh
  <1>2. ASSUME NEW t \in Tabs, NEW c \in Calls, Request(t, c, "page") PROVE SessionsInv'
    BY <1>2, RequestKeeps DEF All
  <1>3. ASSUME NEW t \in Tabs, NEW c \in Flows, Request(t, c, "update") PROVE SessionsInv'
    BY <1>3, RequestKeeps DEF All
  <1>4. ASSUME NEW t \in Tabs, NEW c \in Flows, NEW by \in {"login", "register"}, NEW u \in Users,
               Submit(t, c, by, u)
        PROVE  SessionsInv'
    BY <1>4, SubmitKeeps DEF All
  <1>5. ASSUME NEW c \in All, Answer(c) PROVE SessionsInv'
    BY <1>5, SignedInKeeps, RefuseKeeps, AskKeeps, ServeKeeps, TurnKeeps, OutageKeeps, FailKeeps
       DEF Answer
  <1>6. ASSUME Expire \/ ExpireRefresh \/ \E u \in Managed : Disable(u) \/ Enable(u)
        PROVE  SessionsInv'
    BY <1>6, ExpireKeeps, ManagedKeeps
  <1>7. CASE UNCHANGED vars
    <2>1. AccountsTyped' /\ TokensTyped' /\ TabsTyped' /\ CartsTyped' /\ TroubleTyped'
      BY <1>7 DEF vars, SessionsInv, AccountsTyped, TokensTyped, TabsTyped, CartsTyped,
                  TroubleTyped, CartsApart, Tokens, TabRecord, Numbers
    <2>2. CallsSound'
      BY <1>7, SoundLater DEF vars, SessionsInv, CallsSound, Sound
    <2>3. Peace'
      BY <1>7 DEF vars, SessionsInv, Peace
    <2> QED
      BY <2>1, <2>2, <2>3 DEF SessionsInv
  <1> QED
    BY <1>1, <1>2, <1>3, <1>4, <1>5, <1>6, <1>7 DEF Next

LEMMA SessionsInvariant == Spec => []SessionsInv
  BY SessionsInit, SessionsNext, PTL DEF Spec

\* The expiry of access tokens signs nobody out: while nothing ends a session and no refresh is
\* lost, whoever has signed in stays so, with any number of tabs and calls that share a refresh.
THEOREM SessionsLast == Spec => []SessionKept
  <1>1. SessionsInv => SessionKept
    <2> SUFFICES ASSUME SessionsInv, trouble = "none", token # <<>> PROVE store # NoTokens
      BY DEF SessionKept
    <2>1. Len(token) > 0
      BY Lengths
    <2> QED
      BY <2>1 DEF SessionsInv, Peace, NoTokens
  <1> QED
    BY <1>1, SessionsInvariant, PTL

\* What is in the saved cart of an account was put there in its session, whatever the pages of
\* other tabs go on showing while the browser changes hands.
THEOREM CartsStayApart == Spec => []CartsApart
  <1>1. SessionsInv => CartsApart
    BY DEF SessionsInv, CartsTyped
  <1> QED
    BY <1>1, SessionsInvariant, PTL

\* However refreshes are shared, lost and refused, the tokens stay whole, and no call waits for
\* a refresh that is not under way.
THEOREM RefreshesStayWhole == Spec => []RefreshesWhole
  <1>1. SessionsInv => RefreshesWhole
    <2> SUFFICES ASSUME SessionsInv PROVE RefreshesWhole
      OBVIOUS
    <2>1. Numbers \subseteq Pairs
      BY Lengths, Bounds DEF Numbers, Pairs
    <2>2. /\ token \in Seq(Users) /\ Len(token) <= MaxTokens
          /\ dead \in [access : Pairs, refresh : Pairs]
          /\ store \in [access : 0..Len(token), refresh : 0..Len(token)]
      BY <2>1, Lengths DEF SessionsInv, TokensTyped, Tokens, Numbers
    <2>3. call \in [All -> CallRecord] /\ WaitersAwaited
      <3>1. call = [d \in All |-> call[d]] /\ \A c \in All : call[c] \in CallRecord
        BY DEF SessionsInv, CallsSound, Sound
      <3>2. call \in [All -> CallRecord]
        BY <3>1
      <3> QED
        BY <3>1, <3>2 DEF SessionsInv, CallsSound, Sound, WaitersAwaited
    <2>4. tab \in [Tabs -> TabRecord] /\ cart \in [Users -> SUBSET Owners]
          /\ account \in [Users -> {"none", "active", "disabled"}]
          /\ trouble \in {"none", "outage", "ended"}
      BY DEF SessionsInv, TabsTyped, CartsTyped, AccountsTyped, TroubleTyped
    <2> QED
      BY <2>2, <2>3, <2>4 DEF RefreshesWhole, TypeOK, TabRecord, CallRecord, Numbers
  <1> QED
    BY <1>1, SessionsInvariant, PTL

-----------------------------------------------------------------------------
(* Leafie                                                                  *)

(* The conversation: a call whose answer is awaited was asked on the screen, by whom it shows. *)
Asked(r) == /\ req[r].heard /\ req[r].text \in Texts /\ req[r].by = active
            /\ messages # <<>> /\ Last(messages) = Said("user", req[r].text, active)

ReqInv == req \in [Requests -> [pc : {"idle", "sent", "reading", "asking", "answered", "refused", "failed"},
                                client : Clients, text : Texts \cup {NoText}, by : Visitors,
                                heard : BOOLEAN]]
ChatInv ==
  /\ user \in Visitors /\ active \in Visitors
  /\ messages \in Seq(Messages) /\ stored \in [Visitors -> Seq(Messages)]
  /\ sending \in BOOLEAN /\ current \in Requests \cup {NoRequest} /\ failed \in Texts \cup {NoText}
  /\ \A u \in Visitors : Len(stored[u]) <= Keep
  /\ AnswersFollowQuestions
  /\ sending <=> current # NoRequest
  /\ current # NoRequest => Asked(current)

(* Dictation: what is heard is added to the draft that recording began with. *)
MicWatched == (mic # "off" => Recording) /\ (Recording <=> voice.timer # "none")
VoiceInv ==
  /\ panel \in {"closed", "open", "confirm"} /\ input \subseteq {"typed", "dictated"}
  /\ voice \in [status : {"idle", "starting", "listening", "stopping"},
                timer : {"none", "start", "listen", "stop"},
                draft : SUBSET {"typed", "dictated"}]
  /\ mic \in {"off", "opening", "on"}
  /\ MicWatched
  /\ Recording => input \subseteq voice.draft \cup {"dictated"}

(* The limits: of an address that is remembered, the recent times are those granted. *)
Ordered(times) == \A i \in DOMAIN times, j \in DOMAIN times : i <= j => times[i] >= times[j]
Within(times) == \A i \in DOMAIN times : times[i] < Window
BucketInv ==
  /\ bucket \in Seq([client : Clients, times : Seq(Ages)]) /\ granted \in [Clients -> Seq(Ages)]
  /\ \A i \in DOMAIN bucket, j \in DOMAIN bucket : bucket[i].client = bucket[j].client => i = j
  /\ \A i \in DOMAIN bucket :
       Ordered(bucket[i].times) /\ Recent(bucket[i].times) = granted[bucket[i].client]
  /\ \A c \in Clients : Places(c) = {} => granted[c] = <<>>
  /\ \A c \in Clients : Len(granted[c]) <= Limit
SlotsInv == IsFiniteSet({r \in Requests : Serving(r)}) /\ Busy <= Slots

LInv == ReqInv /\ ChatInv /\ VoiceInv /\ BucketInv /\ SlotsInv

-----------------------------------------------------------------------------
(* Sequences                                                               *)

LEMMA Cut ==
  ASSUME NEW S, NEW s \in Seq(S), NEW k \in 1 .. Len(s) + 1
  PROVE  /\ SubSeq(s, k, Len(s)) \in Seq(S) /\ Len(SubSeq(s, k, Len(s))) = Len(s) - k + 1
         /\ \A i \in 1 .. Len(s) - k + 1 : SubSeq(s, k, Len(s))[i] = s[k + i - 1]
  OBVIOUS

Shifted(list, x, d) == SubSeq(Append(list, x), d + 1, Len(Append(list, x)))

\* A list of which d elements are cut off at the beginning after one was added at the end.
LEMMA CutAppended ==
  ASSUME NEW S, NEW list \in Seq(S), NEW x \in S, NEW d \in 0 .. Len(list)
  PROVE  /\ Shifted(list, x, d) \in Seq(S) /\ Len(Shifted(list, x, d)) = Len(list) + 1 - d
         /\ \A i \in 1 .. Len(list) + 1 - d :
              Shifted(list, x, d)[i] = IF i + d <= Len(list) THEN list[i + d] ELSE x
  <1> DEFINE next == Append(list, x)
             kept == SubSeq(next, d + 1, Len(next))
  <1>1. /\ next \in Seq(S) /\ Len(next) = Len(list) + 1 /\ Len(list) \in Nat
        /\ \A i \in 1 .. Len(list) + 1 : next[i] = IF i <= Len(list) THEN list[i] ELSE x
    OBVIOUS
  <1> HIDE DEF next
  <1>2. d + 1 \in 1 .. Len(next) + 1
    BY <1>1
  <1>3. /\ kept \in Seq(S) /\ Len(kept) = Len(next) - (d + 1) + 1
        /\ \A i \in 1 .. Len(next) - (d + 1) + 1 : kept[i] = next[(d + 1) + i - 1]
    BY <1>1, <1>2, Cut
  <1> HIDE DEF kept
  <1>4. Len(kept) = Len(list) + 1 - d /\ DOMAIN kept = 1 .. Len(list) + 1 - d
    BY <1>1, <1>3
  <1>5. ASSUME NEW i \in 1 .. Len(list) + 1 - d
        PROVE  kept[i] = IF i + d <= Len(list) THEN list[i + d] ELSE x
    <2>1. i \in 1 .. Len(next) - (d + 1) + 1 /\ (d + 1) + i - 1 = i + d /\ i + d \in 1 .. Len(list) + 1
      BY <1>1
    <2> QED BY <1>1, <1>3, <2>1
  <1>6. Shifted(list, x, d) = kept
    BY DEF kept, next, Shifted
  <1> QED BY <1>3, <1>4, <1>5, <1>6

LEMMA KeptConsistent ==
  ASSUME NEW u \in Visitors, NEW list \in Seq(Messages), Consistent(list, u),
         NEW x \in Messages, x.by = u,
         x.role = "assistant" => list # <<>> /\ Last(list) = Said("user", x.text, u),
         NEW d \in {0, 1}, IF d = 1 THEN Len(list) = Keep ELSE Len(list) < Keep,
         NEW kept \in Seq(Messages), Len(kept) = Len(list) + 1 - d,
         \A i \in 1 .. Len(list) + 1 - d : kept[i] = IF i + d <= Len(list) THEN list[i + d] ELSE x
  PROVE  Len(kept) <= Keep /\ kept # <<>> /\ Last(kept) = x /\ Consistent(kept, u)
  <1>1. Len(list) \in Nat
    OBVIOUS
  <1>2. Keep \in Nat /\ Keep >= 1
    BY Positive
  <1>3. IF d = 1 THEN Len(list) = Keep ELSE Len(list) < Keep
    OBVIOUS
  <1>4. d \in Nat /\ d <= 1
    OBVIOUS
  <1>7. DOMAIN kept = 1 .. Len(list) + 1 - d
    OBVIOUS
  <1>8. Len(kept) <= Keep /\ kept # <<>> /\ Last(kept) = x
    <2>1. Len(kept) <= Keep /\ Len(kept) >= 1 /\ Len(kept) \in Nat
      BY <1>1, <1>2, <1>3, <1>4, <1>7
    <2>2. kept[Len(kept)] = x
      BY <1>1, <1>4, <1>7, <2>1
    <2> QED BY <2>1, <2>2 DEF Last
  <1>9. ASSUME NEW i \in DOMAIN kept
        PROVE  /\ kept[i].by = u
               /\ kept[i].role = "assistant" =>
                    \/ i > 1 /\ kept[i - 1] = Said("user", kept[i].text, u)
                    \/ i = 1 /\ Len(kept) = Keep
    <2>0. i \in Nat /\ i >= 1 /\ i <= Len(list) + 1 - d
      BY <1>1, <1>4, <1>7
    <2>1. i > 1 => kept[i - 1] = list[i + d - 1] /\ i + d - 1 \in 1 .. Len(list)
      <3> SUFFICES ASSUME i > 1 PROVE kept[i - 1] = list[i + d - 1] /\ i + d - 1 \in 1 .. Len(list)
        OBVIOUS
      <3>1. i - 1 \in 1 .. Len(list) + 1 - d /\ (i - 1) + d <= Len(list) /\ (i - 1) + d = i + d - 1
            /\ i + d - 1 \in 1 .. Len(list)
        BY <1>1, <1>4, <2>0
      <3> QED BY <1>7, <3>1
    <2>2. CASE i + d = Len(list) + 1
      <3>1. kept[i] = x
        BY <1>1, <1>4, <1>7, <2>0, <2>2
      <3>2. ASSUME x.role = "assistant"
            PROVE  \/ i > 1 /\ kept[i - 1] = Said("user", x.text, u)
                   \/ i = 1 /\ Len(kept) = Keep
        <4>1. Len(list) >= 1 /\ list[Len(list)] = Said("user", x.text, u)
          BY <1>1, <3>2 DEF Last
        <4>2. i + d - 1 = Len(list)
          BY <1>1, <1>4, <2>0, <2>2
        <4>3. i = 1 => Len(kept) = Keep
          <5>1. i = 1 => d = Len(list)
            BY <1>1, <1>4, <2>2
          <5>2. d = 1 => Len(kept) = Len(list) /\ Len(list) = Keep
            BY <1>1, <1>3
          <5> QED BY <1>1, <1>4, <4>1, <5>1, <5>2
        <4>4. i = 1 \/ i > 1
          BY <2>0
        <4> QED BY <2>1, <4>1, <4>2, <4>3, <4>4
      <3> QED BY <3>1, <3>2
    <2>3. CASE i + d # Len(list) + 1
      <3>1. i + d \in DOMAIN list /\ kept[i] = list[i + d]
        BY <1>1, <1>4, <1>7, <2>0, <2>3
      <3>2. kept[i].by = u
        BY <3>1 DEF Consistent
      <3>3. ASSUME kept[i].role = "assistant"
            PROVE  \/ i > 1 /\ kept[i - 1] = Said("user", kept[i].text, u)
                   \/ i = 1 /\ Len(kept) = Keep
        <4>1. \/ i + d > 1 /\ list[i + d - 1] = Said("user", kept[i].text, u)
              \/ i + d = 1 /\ Len(list) = Keep
          BY <3>1, <3>3 DEF Consistent
        <4>2. CASE i > 1
          BY <1>4, <2>0, <2>1, <4>1, <4>2
        <4>3. CASE i = 1
          <5>1. d = 1
            BY <1>1, <1>2, <1>3, <1>4, <4>1, <4>3
          <5> QED BY <1>1, <1>2, <1>3, <1>7, <4>3, <5>1
        <4> QED BY <2>0, <4>2, <4>3
      <3> QED BY <3>2, <3>3
    <2> QED BY <2>2, <2>3
  <1>10. Consistent(kept, u)
    BY <1>9 DEF Consistent
  <1> QED BY <1>8, <1>10

\* What a conversation keeps of a message that was added to it.
LEMMA SaveConsistent ==
  ASSUME NEW u \in Visitors, NEW list \in Seq(Messages), Len(list) <= Keep, Consistent(list, u),
         NEW x \in Messages, x.by = u,
         x.role = "assistant" => list # <<>> /\ Last(list) = Said("user", x.text, u)
  PROVE  LET kept == Latest(Append(list, x))
         IN /\ kept \in Seq(Messages) /\ Len(kept) <= Keep /\ kept # <<>> /\ Last(kept) = x
            /\ Consistent(kept, u)
  <1> DEFINE next == Append(list, x)
             kept == Latest(next)
  <1>1. Len(next) = Len(list) + 1 /\ Len(list) \in Nat /\ Keep \in Nat /\ Keep >= 1
    BY Positive
  <1> HIDE DEF next
  <1>2. PICK d \in {0, 1} :
          /\ Len(next) - Min({Len(next), Keep}) + 1 = d + 1
          /\ IF d = 1 THEN Len(list) = Keep ELSE Len(list) < Keep
    <2>1. Min({Len(next), Keep}) = IF Len(next) <= Keep THEN Len(next) ELSE Keep
      BY <1>1, MinOfTwo
    <2>2. CASE Len(list) = Keep
      BY <1>1, <2>1, <2>2
    <2>3. CASE Len(list) < Keep
      BY <1>1, <2>1, <2>3
    <2> QED BY <1>1, <2>2, <2>3
  <1>3. kept = Shifted(list, x, d)
    BY <1>2 DEF next, Latest, Shifted
  <1>4. d \in 0 .. Len(list)
    BY <1>1, <1>2
  <1> HIDE DEF kept
  <1>5. /\ kept \in Seq(Messages) /\ Len(kept) = Len(list) + 1 - d
        /\ \A i \in 1 .. Len(list) + 1 - d : kept[i] = IF i + d <= Len(list) THEN list[i + d] ELSE x
    <2>1. /\ Shifted(list, x, d) \in Seq(Messages) /\ Len(Shifted(list, x, d)) = Len(list) + 1 - d
          /\ \A i \in 1 .. Len(list) + 1 - d :
               Shifted(list, x, d)[i] = IF i + d <= Len(list) THEN list[i + d] ELSE x
      BY <1>4, CutAppended
    <2> QED BY <1>3, <2>1
  <1>6. Len(kept) <= Keep /\ kept # <<>> /\ Last(kept) = x /\ Consistent(kept, u)
    BY <1>2, <1>5, KeptConsistent, SMTT(30)
  <1> QED BY <1>5, <1>6 DEF kept, next

-----------------------------------------------------------------------------
(* The conversation                                                        *)

LEMMA ChatSame ==
  ASSUME ChatInv, UNCHANGED <<active, messages, stored, sending, current, failed>>, user' \in Visitors,
         current # NoRequest => /\ req'[current].heard = req[current].heard
                                /\ req'[current].text = req[current].text
                                /\ req'[current].by = req[current].by
  PROVE  ChatInv'
  BY DEF ChatInv, AnswersFollowQuestions, Consistent, Asked, Last, Said

\* The screen as it is after what was under way is forgotten.
LEMMA ForgetKeeps ==
  ASSUME ChatInv, Forget, user' \in Visitors, active' \in Visitors,
         stored' \in [Visitors -> Seq(Messages)], messages' = stored'[active'],
         \A u \in Visitors : Len(stored'[u]) <= Keep /\ Consistent(stored'[u], u)
  PROVE  ChatInv'
  BY DEF ChatInv, Forget, AnswersFollowQuestions, Consistent

\* A message that is added to the conversation on the screen.
LEMMA SaveKeeps ==
  ASSUME ChatInv, NEW x \in Messages, x.by = active,
         x.role = "assistant" => messages # <<>> /\ Last(messages) = Said("user", x.text, active),
         Save(Append(messages, x))
  PROVE  /\ messages' \in Seq(Messages) /\ stored' \in [Visitors -> Seq(Messages)]
         /\ messages' = stored'[active] /\ messages' # <<>> /\ Last(messages') = x
         /\ \A u \in Visitors : Len(stored'[u]) <= Keep /\ Consistent(stored'[u], u)
  <1> DEFINE kept == Latest(Append(messages, x))
  <1>1. messages' = kept /\ stored' = [stored EXCEPT ![active] = kept]
    BY DEF Save
  <1>2. /\ active \in Visitors /\ messages \in Seq(Messages) /\ messages = stored[active]
        /\ Len(messages) <= Keep /\ Consistent(messages, active)
        /\ stored \in [Visitors -> Seq(Messages)]
        /\ \A u \in Visitors : Len(stored[u]) <= Keep /\ Consistent(stored[u], u)
    BY DEF ChatInv, AnswersFollowQuestions
  <1>3. /\ kept \in Seq(Messages) /\ Len(kept) <= Keep /\ kept # <<>> /\ Last(kept) = x
        /\ Consistent(kept, active)
    BY <1>2, SaveConsistent
  <1> HIDE DEF kept
  <1>4. \A u \in Visitors : stored'[u] = IF u = active THEN kept ELSE stored[u]
    BY <1>1, <1>2
  <1> QED BY <1>1, <1>2, <1>3, <1>4

LEMMA SendKeeps ==
  ASSUME ReqInv, ChatInv, NEW text \in Texts, Send(text) PROVE ReqInv' /\ ChatInv'
  <1>1. PICK r \in Requests :
          /\ req[r] = Unused
          /\ req' = [req EXCEPT ![r] = [pc |-> "sent", client |-> Home, text |-> text, by |-> active, heard |-> TRUE]]
          /\ current' = r
    BY DEF Send
  <1>2. /\ sending' = TRUE /\ failed' = NoText /\ UNCHANGED <<user, active>> /\ current' # NoRequest
    BY <1>1, Nobody DEF Send
  <1>3. active \in Visitors /\ Home \in Clients
    BY AtHome DEF ChatInv
  <1>4. ReqInv'
    BY <1>1, <1>3 DEF ReqInv
  <1>5. req'[r].heard /\ req'[r].text = text /\ req'[r].by = active
    BY <1>1 DEF ReqInv
  <1>6. /\ messages' \in Seq(Messages) /\ stored' \in [Visitors -> Seq(Messages)]
        /\ messages' = stored'[active] /\ messages' # <<>> /\ Last(messages') = Said("user", text, active)
        /\ \A u \in Visitors : Len(stored'[u]) <= Keep /\ Consistent(stored'[u], u)
    <2>1. CASE Retrying(text)
      <3>1. UNCHANGED <<messages, stored>>
        BY <2>1 DEF Send
      <3> QED BY <2>1, <3>1 DEF Retrying, ChatInv, AnswersFollowQuestions
    <2>2. CASE ~Retrying(text)
      <3>1. Save(Append(messages, Said("user", text, active)))
        BY <2>2 DEF Send
      <3>2. Said("user", text, active) \in Messages /\ Said("user", text, active).by = active
            /\ Said("user", text, active).role # "assistant"
        BY <1>3 DEF Said, Messages
      <3> QED BY <3>1, <3>2, SaveKeeps
    <2> QED BY <2>1, <2>2
  <1>7. AnswersFollowQuestions'
    BY <1>2, <1>6 DEF AnswersFollowQuestions, Consistent
  <1>8. Asked(r)'
    BY <1>2, <1>5, <1>6 DEF Asked, Said
  <1> QED BY <1>1, <1>2, <1>3, <1>4, <1>6, <1>7, <1>8 DEF ChatInv

\* How a call ends for the tab, after which its slot is used for no question of the screen.
LEMMA TellKeeps ==
  ASSUME ReqInv, ChatInv, NEW r \in Requests, NEW ok \in BOOLEAN, Tell(r, ok),
         current # r => \A s \in Requests \ {r} : req'[s] = req[s]
  PROVE  ChatInv'
  <1>1. CASE r # current
    <2>1. UNCHANGED <<user, active, messages, stored, sending, current, failed>>
      BY <1>1 DEF Tell
    <2>2. current # NoRequest => req'[current] = req[current]
      BY <1>1 DEF ChatInv
    <2>3. user' \in Visitors
      BY <2>1 DEF ChatInv
    <2> QED BY <2>1, <2>2, <2>3, ChatSame
  <1>2. CASE r = current
    <2>1. sending' = FALSE /\ current' = NoRequest /\ UNCHANGED <<user, active>>
      BY <1>2 DEF Tell
    <2>2. /\ active \in Visitors /\ req[r].text \in Texts /\ req[r].by = active
          /\ messages # <<>> /\ Last(messages) = Said("user", req[r].text, active)
      BY <1>2, Nobody DEF ChatInv, Asked
    <2>3. CASE ok
      <3> DEFINE x == Said("assistant", req[r].text, req[r].by)
      <3>1. Save(Append(messages, x)) /\ failed' = failed
        BY <1>2, <2>3 DEF Tell
      <3>2. x \in Messages /\ x.by = active /\ x.text = req[r].text
        BY <2>2 DEF Said, Messages
      <3> HIDE DEF x
      <3>3. /\ messages' \in Seq(Messages) /\ stored' \in [Visitors -> Seq(Messages)]
            /\ messages' = stored'[active]
            /\ \A u \in Visitors : Len(stored'[u]) <= Keep /\ Consistent(stored'[u], u)
        BY <2>2, <3>1, <3>2, SaveKeeps
      <3>4. AnswersFollowQuestions'
        BY <2>1, <3>3 DEF AnswersFollowQuestions, Consistent
      <3> QED BY <2>1, <3>1, <3>3, <3>4 DEF ChatInv
    <2>4. CASE ~ok
      <3>1. failed' = req[r].text /\ UNCHANGED <<messages, stored>>
        BY <1>2, <2>4 DEF Tell
      <3> QED BY <2>1, <2>2, <3>1 DEF ChatInv, AnswersFollowQuestions, Consistent
    <2> QED BY <2>3, <2>4
  <1> QED BY <1>1, <1>2

\* What a step does to calls that the screen does not wait for.
LEMMA ReqSame ==
  ASSUME ReqInv, NEW r \in Requests,
         NEW x \in [pc : {"idle", "sent", "reading", "asking", "answered", "refused", "failed"},
                    client : Clients, text : Texts \cup {NoText}, by : Visitors, heard : BOOLEAN],
         req' = [req EXCEPT ![r] = x]
  PROVE  ReqInv' /\ req'[r] = x /\ \A s \in Requests \ {r} : req'[s] = req[s]
  BY DEF ReqInv

LEMMA UnusedType ==
  /\ Unused \in [pc : {"idle", "sent", "reading", "asking", "answered", "refused", "failed"},
                 client : Clients, text : Texts \cup {NoText}, by : Visitors, heard : BOOLEAN]
  /\ Unused.pc = "idle" /\ ~Unused.heard
  BY AtHome DEF Unused, Visitors

LEMMA ChatKeeps == ASSUME ReqInv, ChatInv, LeafieNext PROVE ReqInv' /\ ChatInv'
  <1> DEFINE ReqPcs == {"idle", "sent", "reading", "asking", "answered", "refused", "failed"}
             Call == [pc : ReqPcs, client : Clients, text : Texts \cup {NoText}, by : Visitors, heard : BOOLEAN]
  <1>1. /\ user \in Visitors /\ active \in Visitors /\ stored \in [Visitors -> Seq(Messages)]
        /\ \A u \in Visitors : Len(stored[u]) <= Keep /\ Consistent(stored[u], u)
        /\ current # NoRequest => Asked(current) /\ current \in Requests
    BY DEF ChatInv, AnswersFollowQuestions
  <1>2. ASSUME UNCHANGED <<active, messages, stored, sending, current, failed>>, user' \in Visitors,
               UNCHANGED req
        PROVE  ReqInv' /\ ChatInv'
    BY <1>2, ChatSame DEF ReqInv
  <1>3. ASSUME NEW r \in Requests, NEW pc \in ReqPcs, req' = [req EXCEPT ![r].pc = pc], UNCHANGED chat
        PROVE  ReqInv' /\ ChatInv'
    <2>1. [req[r] EXCEPT !.pc = pc] \in Call /\ req' = [req EXCEPT ![r] = [req[r] EXCEPT !.pc = pc]]
      BY <1>3 DEF ReqInv
    <2>2. ReqInv'
      BY <2>1, ReqSame
    <2>3. \A s \in Requests : /\ req'[s].heard = req[s].heard /\ req'[s].text = req[s].text
                              /\ req'[s].by = req[s].by
      BY <1>3 DEF ReqInv
    <2> QED BY <1>1, <1>3, <2>2, <2>3, ChatSame DEF chat
  <1>4. ASSUME NEW u \in Visitors, Switch(u) PROVE ReqInv' /\ ChatInv'
    BY <1>2, <1>4 DEF Switch
  <1>5. CASE Adopt
    <2>1. ReqInv'
      BY <1>5 DEF Adopt, ReqInv
    <2>2. Forget /\ user' = user /\ active' = user /\ stored' = stored /\ messages' = stored[user]
      BY <1>5 DEF Adopt
    <2> QED BY <1>1, <2>1, <2>2, ForgetKeeps
  <1>6. CASE Reload
    <2>1. ReqInv'
      <3>1. req' = [r \in Requests |-> IF req[r].heard
                      THEN [Unused EXCEPT !.pc = req[r].pc, !.client = req[r].client] ELSE req[r]]
        BY <1>6 DEF Reload
      <3>2. \A r \in Requests : req[r] \in Call
        BY DEF ReqInv
      <3>3. \A r \in Requests : [Unused EXCEPT !.pc = req[r].pc, !.client = req[r].client] \in Call
        BY <3>2, UnusedType
      <3> QED BY <3>1, <3>2, <3>3 DEF ReqInv
    <2>2. Forget /\ user' = Guest /\ active' = Guest /\ stored' = stored /\ messages' = stored[Guest]
      BY <1>6 DEF Reload
    <2>3. Guest \in Visitors
      BY DEF Visitors
    <2> QED BY <1>1, <2>1, <2>2, <2>3, ForgetKeeps
  <1>7. ASSUME NEW text \in Texts, Suggest(text) \/ HandleSubmit(text) PROVE ReqInv' /\ ChatInv'
    BY <1>7, SendKeeps DEF Suggest, HandleSubmit
  <1>8. CASE Retry
    <2>1. failed \in Texts /\ Send(failed)
      BY <1>8 DEF Retry, ChatInv
    <2> QED BY <2>1, SendKeeps
  <1>9. CASE ClearHistory
    <2>1. /\ Forget /\ messages' = <<>> /\ stored' = [stored EXCEPT ![active] = <<>>]
          /\ UNCHANGED <<user, active, req>>
      BY <1>9 DEF ClearHistory
    <2>2. <<>> \in Seq(Messages) /\ Len(<<>>) <= Keep /\ \A u \in Visitors : Consistent(<<>>, u)
      BY Positive DEF Consistent
    <2>3. \A u \in Visitors : stored'[u] = IF u = active THEN <<>> ELSE stored[u]
      BY <1>1, <2>1
    <2>4. stored' \in [Visitors -> Seq(Messages)] /\ messages' = stored'[active']
      BY <1>1, <2>1, <2>2, <2>3
    <2>5. ReqInv'
      BY <2>1 DEF ReqInv
    <2> QED BY <1>1, <2>1, <2>2, <2>3, <2>4, <2>5, ForgetKeeps
  <1>10. ASSUME UNCHANGED chat, UNCHANGED req PROVE ReqInv' /\ ChatInv'
    BY <1>1, <1>2, <1>10 DEF chat
  <1>11. CASE \/ \E next \in {"closed", "open", "confirm"} : Show(next)
              \/ Type \/ StartVoice \/ StopVoice \/ OnTimer \/ OnStart \/ OnResult \/ OnEnd \/ Hide
              \/ Deactivate \/ Tick
    BY <1>10, <1>11 DEF Show, Type, StartVoice, StopVoice, OnTimer, OnStart, OnResult, OnEnd, Hide,
                        Deactivate, Tick
  <1>12. ASSUME NEW r \in Requests, NEW c \in Clients, Visit(r, c) PROVE ReqInv' /\ ChatInv'
    <2>1. /\ req[r] = Unused /\ UNCHANGED chat
          /\ req' = [req EXCEPT ![r] = [Unused EXCEPT !.pc = "sent", !.client = c]]
      BY <1>12 DEF Visit
    <2>2. [Unused EXCEPT !.pc = "sent", !.client = c] \in Call
      BY UnusedType
    <2>3. ReqInv' /\ \A s \in Requests \ {r} : req'[s] = req[s]
      BY <2>1, <2>2, ReqSame
    <2>4. current # NoRequest => current # r
      BY <1>1, <2>1, UnusedType DEF Asked
    <2> QED BY <1>1, <2>1, <2>3, <2>4, ChatSame DEF chat
  <1>13. ASSUME NEW r \in Requests, AskLeafie(r) \/ BuildCatalog(r) \/ GenerateReply(r)
         PROVE  ReqInv' /\ ChatInv'
    <2>1. UNCHANGED chat /\ \E pc \in ReqPcs : req' = [req EXCEPT ![r].pc = pc]
      BY <1>13 DEF AskLeafie, BuildCatalog, GenerateReply, PolicyReply
    <2> QED BY <1>3, <2>1
  <1>14. ASSUME NEW r \in Requests, Deliver(r) PROVE ReqInv' /\ ChatInv'
    <2>1. ReqInv' /\ \A s \in Requests \ {r} : req'[s] = req[s]
      BY <1>14, UnusedType, ReqSame DEF Deliver
    <2>2. CASE req[r].heard
      BY <1>14, <2>1, <2>2, TellKeeps DEF Deliver
    <2>3. CASE ~req[r].heard
      <3>1. UNCHANGED chat /\ (current # NoRequest => current # r)
        BY <1>1, <1>14, <2>3 DEF Deliver, Asked
      <3> QED BY <1>1, <2>1, <3>1, ChatSame DEF chat
    <2> QED BY <2>2, <2>3
  <1>15. ASSUME NEW r \in Requests, Abort(r) PROVE ReqInv' /\ ChatInv'
    <2>1. req[r] \in Call
      BY DEF ReqInv
    <2>2. [Unused EXCEPT !.pc = req[r].pc, !.client = req[r].client] \in Call
      BY <2>1, UnusedType
    <2>3. ReqInv' /\ \A s \in Requests \ {r} : req'[s] = req[s]
      BY <1>15, <2>2, ReqSame DEF Abort
    <2>4. Tell(r, FALSE)
      BY <1>15 DEF Abort
    <2> QED BY <2>3, <2>4, TellKeeps
  <1>16. CASE Restart
    <2>1. /\ UNCHANGED chat
          /\ req' = [r \in Requests |-> IF req[r].pc = "sent" \/ Serving(r)
                                        THEN [req[r] EXCEPT !.pc = "failed"] ELSE req[r]]
      BY <1>16 DEF Restart
    <2>2. ReqInv' /\ \A s \in Requests : /\ req'[s].heard = req[s].heard /\ req'[s].text = req[s].text
                                         /\ req'[s].by = req[s].by
      BY <2>1 DEF ReqInv
    <2> QED BY <1>1, <2>1, <2>2, ChatSame DEF chat
  <1> QED BY <1>4, <1>5, <1>6, <1>7, <1>8, <1>9, <1>11, <1>12, <1>13, <1>14, <1>15, <1>16 DEF LeafieNext

-----------------------------------------------------------------------------
(* Dictation                                                               *)

\* What is in the draft stays, but for a question that was sent or a page that was loaded again.
DraftStep == input \subseteq input' \/ (input' = {} /\ (sending' \/ panel' = "closed"))

LEMMA CancelKeeps == ASSUME VoiceInv, Cancel, UNCHANGED <<panel, input>> PROVE VoiceInv' /\ DraftStep
  BY DEF VoiceInv, DraftStep, Cancel, Silent, MicWatched, Recording

LEMMA StoppingKeeps ==
  ASSUME VoiceInv, Recording, Stopping, UNCHANGED <<panel, input>> PROVE VoiceInv' /\ DraftStep
  <1>1. CASE voice' = [voice EXCEPT !.status = "stopping", !.timer = "stop"] /\ UNCHANGED mic
    BY <1>1 DEF VoiceInv, DraftStep, MicWatched, Recording
  <1> QED BY <1>1, CancelKeeps DEF Stopping

LEMMA VoiceKeeps == ASSUME VoiceInv, LeafieNext PROVE VoiceInv' /\ DraftStep
  <1>1. ASSUME UNCHANGED <<input, speech>>, panel' \in {"closed", "open", "confirm"}
        PROVE  VoiceInv' /\ DraftStep
    BY <1>1 DEF VoiceInv, DraftStep, speech, MicWatched, Recording
  <1>2. ASSUME UNCHANGED screen PROVE VoiceInv' /\ DraftStep
    <2>1. UNCHANGED <<panel, input, speech>> /\ panel \in {"closed", "open", "confirm"}
      BY <1>2 DEF screen, VoiceInv
    <2> QED BY <1>1, <2>1
  <1>3. CASE \/ \E u \in Visitors : Switch(u)
             \/ Adopt \/ Retry \/ Tick \/ Restart \/ \E text \in Texts : Suggest(text)
             \/ \E r \in Requests : \/ \E c \in Clients \ {Home} : Visit(r, c)
                                    \/ AskLeafie(r) \/ BuildCatalog(r) \/ GenerateReply(r)
                                    \/ Deliver(r) \/ Abort(r)
    BY <1>2, <1>3 DEF Switch, Adopt, Retry, Tick, Restart, Suggest, Visit, AskLeafie, BuildCatalog,
                      GenerateReply, Deliver, Abort
  <1>4. CASE Reload
    <2>1. panel' = "closed" /\ input' = {} /\ voice' = Silent /\ mic' = "off"
      BY <1>4 DEF Reload
    <2> QED BY <2>1 DEF VoiceInv, DraftStep, MicWatched, Recording, Silent
  <1>5. CASE ClearHistory \/ \E next \in {"closed", "open", "confirm"} : Show(next)
    BY <1>1, <1>5 DEF ClearHistory, Show
  <1>6. ASSUME NEW text \in Texts, HandleSubmit(text) PROVE VoiceInv' /\ DraftStep
    <2>1. ~Recording /\ input' = {} /\ sending' = TRUE /\ UNCHANGED <<panel, speech>>
      BY <1>6 DEF HandleSubmit, Send
    <2> QED BY <2>1 DEF VoiceInv, DraftStep, speech, MicWatched, Recording
  <1>7. CASE Type
    <2>1. ~Recording /\ input' = input \cup {"typed"} /\ UNCHANGED <<panel, speech>>
      BY <1>7 DEF Type
    <2> QED BY <2>1 DEF VoiceInv, DraftStep, speech, MicWatched, Recording
  <1>8. CASE StartVoice
    <2>1. /\ voice' = [status |-> "starting", timer |-> "start", draft |-> input] /\ mic' = "opening"
          /\ UNCHANGED <<panel, input>>
      BY <1>8 DEF StartVoice
    <2> QED BY <2>1 DEF VoiceInv, DraftStep, MicWatched, Recording
  <1>9. CASE StopVoice
    BY <1>9, StoppingKeeps DEF StopVoice, Recording
  <1>10. CASE OnTimer
    <2>1. UNCHANGED <<panel, input>> /\ (voice.timer = "listen" => Recording)
      BY <1>10 DEF OnTimer, VoiceInv, MicWatched
    <2> QED BY <1>10, <2>1, StoppingKeeps, CancelKeeps DEF OnTimer
  <1>11. CASE OnStart
    <2>1. /\ mic = "opening" /\ mic' = "on" /\ UNCHANGED <<panel, input>>
          /\ voice' = IF voice.status = "starting"
                      THEN [voice EXCEPT !.status = "listening", !.timer = "listen"] ELSE voice
      BY <1>11 DEF OnStart
    <2> QED BY <2>1 DEF VoiceInv, DraftStep, MicWatched, Recording
  <1>12. CASE OnResult
    <2>1. mic = "on" /\ input' = voice.draft \cup {"dictated"} /\ UNCHANGED <<panel, speech>>
      BY <1>12 DEF OnResult
    <2>2. Recording
      BY <2>1 DEF VoiceInv, MicWatched
    <2> QED BY <2>1, <2>2 DEF VoiceInv, DraftStep, speech, MicWatched, Recording
  <1>13. CASE OnEnd \/ Hide \/ Deactivate
    BY <1>13, CancelKeeps DEF OnEnd, Hide, Deactivate
  <1> QED BY <1>3, <1>4, <1>5, <1>6, <1>7, <1>8, <1>9, <1>10, <1>11, <1>12, <1>13 DEF LeafieNext

-----------------------------------------------------------------------------
(* The limits: what is recent                                              *)

LEMMA WindowType == Window \in Nat /\ Window >= 1 /\ 0 \in Ages /\ Window \in Ages
                    /\ MaxBuckets \in Nat /\ MaxBuckets >= 1 /\ Limit \in Nat /\ Limit >= 1
                    /\ Slots \in Nat /\ Slots >= 1
  BY Positive DEF Ages

LEMMA MinIs ==
  ASSUME NEW S, NEW k \in S, \A i \in S : i \in Int /\ k <= i PROVE Min(S) = k
  <1>1. \E x \in S : \A y \in S : x <= y
    OBVIOUS
  <1>2. Min(S) \in S /\ \A y \in S : Min(S) <= y
    BY <1>1 DEF Min
  <1>3. Min(S) \in Int /\ k \in Int /\ Min(S) <= k /\ k <= Min(S)
    BY <1>2
  <1> QED BY <1>3

LEMMA AgesNat == Ages \subseteq Nat /\ \A a \in Ages : a <= Window
  BY Positive DEF Ages

\* The first place from which on times are recent.
LEMMA RecentFrom ==
  ASSUME NEW times \in Seq(Nat), NEW k \in 1 .. Len(times) + 1,
         \A i \in 1 .. k - 1 : times[i] >= Window, k <= Len(times) => times[k] < Window
  PROVE  Recent(times) = SubSeq(times, k, Len(times))
  <1> DEFINE S == {i \in DOMAIN times : times[i] < Window} \cup {Len(times) + 1}
  <1>1. DOMAIN times = 1 .. Len(times) /\ Len(times) \in Nat /\ \A i \in 1 .. Len(times) : times[i] \in Nat
    OBVIOUS
  <1>2. k \in S /\ \A i \in S : i \in Int
    BY <1>1
  <1>3. ASSUME NEW i \in S PROVE k <= i
    <2>1. CASE i = Len(times) + 1
      BY <1>1, <2>1
    <2>2. CASE i \in 1 .. Len(times) /\ times[i] < Window
      <3> SUFFICES ASSUME i < k PROVE FALSE
        BY <1>1, <2>2
      <3>1. i \in 1 .. k - 1 /\ times[i] \in Nat
        BY <1>1, <2>2
      <3>2. times[i] >= Window
        BY <3>1
      <3> QED BY <2>2, <3>1, <3>2, WindowType
    <2> QED BY <1>1, <2>1, <2>2
  <1> HIDE DEF S
  <1>4. Min(S) = k
    BY <1>2, <1>3, MinIs
  <1> QED BY <1>4 DEF Recent, S

LEMMA RecentPlace ==
  ASSUME NEW times \in Seq(Nat)
  PROVE  \E k \in 1 .. Len(times) + 1 :
           /\ \A i \in 1 .. k - 1 : times[i] >= Window
           /\ k <= Len(times) => times[k] < Window
           /\ Recent(times) = SubSeq(times, k, Len(times))
  <1> DEFINE S == {i \in DOMAIN times : times[i] < Window} \cup {Len(times) + 1}
  <1>1. DOMAIN times = 1 .. Len(times) /\ Len(times) \in Nat /\ \A i \in 1 .. Len(times) : times[i] \in Nat
    OBVIOUS
  <1>2. S \subseteq 1 .. Len(times) + 1 /\ S # {} /\ \A i \in S : i \in Nat
    BY <1>1
  <1>3. IsFiniteSet(S)
    <2>1. IsFiniteSet(1 .. Len(times) + 1)
      BY <1>1, FS_Interval
    <2> HIDE DEF S
    <2> QED BY <1>2, <2>1, FS_Subset
  <1> HIDE DEF S
  <1>4. PICK k \in S : \A i \in S : k <= i
    BY <1>2, <1>3, MinExists
  <1>5. k \in 1 .. Len(times) + 1
    BY <1>2
  <1>6. k <= Len(times) => times[k] < Window
    BY <1>1, <1>5 DEF S
  <1>7. ASSUME NEW i \in 1 .. k - 1 PROVE times[i] >= Window
    <2>1. i \in 1 .. Len(times) /\ i \notin S
      BY <1>1, <1>4, <1>5
    <2> QED BY <1>1, <2>1, WindowType DEF S
  <1> QED BY <1>5, <1>6, <1>7, RecentFrom

LEMMA SeqNat ==
  ASSUME NEW times \in Seq(Ages)
  PROVE  /\ times \in Seq(Nat) /\ Len(times) \in Nat /\ DOMAIN times = 1 .. Len(times)
         /\ \A i \in 1 .. Len(times) : times[i] \in Nat /\ times[i] <= Window
  <1>1. /\ Len(times) \in Nat /\ DOMAIN times = 1 .. Len(times)
        /\ \A i \in 1 .. Len(times) : times[i] \in Ages
    OBVIOUS
  <1>2. \A i \in 1 .. Len(times) : times[i] \in Nat /\ times[i] <= Window
    BY <1>1, AgesNat
  <1>3. times \in Seq(Nat)
    BY <1>1, <1>2
  <1> QED BY <1>1, <1>2, <1>3

LEMMA RecentType ==
  ASSUME NEW times \in Seq(Ages), Ordered(times)
  PROVE  Recent(times) \in Seq(Ages) /\ Ordered(Recent(times)) /\ Within(Recent(times))
  <1>1. PICK k \in 1 .. Len(times) + 1 :
          /\ \A i \in 1 .. k - 1 : times[i] >= Window
          /\ k <= Len(times) => times[k] < Window
          /\ Recent(times) = SubSeq(times, k, Len(times))
    BY SeqNat, RecentPlace
  <1>2. /\ Recent(times) \in Seq(Ages) /\ Len(Recent(times)) = Len(times) - k + 1
        /\ \A i \in 1 .. Len(times) - k + 1 : Recent(times)[i] = times[k + i - 1]
    BY <1>1, Cut
  <1>3. Len(times) \in Nat /\ DOMAIN times = 1 .. Len(times)
        /\ DOMAIN Recent(times) = 1 .. Len(times) - k + 1
        /\ \A i \in 1 .. Len(times) : times[i] \in Nat
    BY <1>2, SeqNat
  <1>4. ASSUME NEW i \in DOMAIN Recent(times), NEW j \in DOMAIN Recent(times), i <= j
        PROVE  Recent(times)[i] >= Recent(times)[j]
    <2>1. k + i - 1 \in DOMAIN times /\ k + j - 1 \in DOMAIN times /\ k + i - 1 <= k + j - 1
      BY <1>1, <1>3, <1>4
    <2> QED BY <1>2, <1>3, <2>1 DEF Ordered
  <1>5. ASSUME NEW i \in DOMAIN Recent(times) PROVE Recent(times)[i] < Window
    <2>1. k + i - 1 \in DOMAIN times /\ k \in DOMAIN times /\ k <= k + i - 1 /\ k <= Len(times)
      BY <1>1, <1>3
    <2>2. times[k] >= times[k + i - 1] /\ times[k] < Window
      BY <1>1, <2>1 DEF Ordered
    <2> QED BY <1>2, <1>3, <2>1, <2>2, WindowType
  <1> QED BY <1>2, <1>4, <1>5 DEF Ordered, Within

LEMMA RecentWhole ==
  ASSUME NEW times \in Seq(Nat), Within(times) PROVE Recent(times) = times
  <1>1. Len(times) \in Nat /\ DOMAIN times = 1 .. Len(times) /\ 1 \in 1 .. Len(times) + 1
    OBVIOUS
  <1>2. 1 <= Len(times) => times[1] < Window
    BY <1>1 DEF Within
  <1>3. Recent(times) = SubSeq(times, 1, Len(times))
    BY <1>1, <1>2, RecentFrom
  <1> QED BY <1>1, <1>3

LEMMA OlderType ==
  ASSUME NEW times \in Seq(Ages)
  PROVE  /\ Older(times) \in Seq(Ages) /\ Len(Older(times)) = Len(times)
         /\ \A i \in 1 .. Len(times) :
              Older(times)[i] = IF times[i] + 1 <= Window THEN times[i] + 1 ELSE Window
         /\ Ordered(times) => Ordered(Older(times))
  <1>1. /\ Len(times) \in Nat /\ DOMAIN times = 1 .. Len(times)
        /\ \A i \in 1 .. Len(times) : times[i] \in Nat /\ times[i] <= Window
    BY SeqNat
  <1>2. ASSUME NEW i \in 1 .. Len(times)
        PROVE  /\ Older(times)[i] = IF times[i] + 1 <= Window THEN times[i] + 1 ELSE Window
               /\ Older(times)[i] \in Ages
    <2>1. times[i] + 1 \in Int /\ Window \in Int /\ times[i] \in Nat
      BY <1>1, WindowType
    <2>2. Older(times)[i] = Min({times[i] + 1, Window})
      BY <1>1 DEF Older
    <2>3. Older(times)[i] = IF times[i] + 1 <= Window THEN times[i] + 1 ELSE Window
      BY <2>1, <2>2, MinOfTwo
    <2> QED BY <2>1, <2>3, WindowType DEF Ages
  <1>3. Older(times) \in [1 .. Len(times) -> Ages]
    <2>1. Older(times) = [i \in 1 .. Len(times) |-> Older(times)[i]]
      BY <1>1 DEF Older
    <2> HIDE DEF Older
    <2> QED BY <1>2, <2>1
  <1>4. Older(times) \in Seq(Ages) /\ Len(Older(times)) = Len(times)
    BY <1>1, <1>3
  <1>5. ASSUME Ordered(times) PROVE Ordered(Older(times))
    <2> SUFFICES ASSUME NEW i \in 1 .. Len(times), NEW j \in 1 .. Len(times), i <= j
                 PROVE  Older(times)[i] >= Older(times)[j]
      BY <1>3 DEF Ordered
    <2>1. times[i] >= times[j] /\ times[i] \in Nat /\ times[j] \in Nat
      BY <1>1, <1>5 DEF Ordered
    <2> QED BY <1>2, <2>1, WindowType
  <1> QED BY <1>2, <1>4, <1>5

\* A tick later the recent ones are those of the recent ones that still are.
LEMMA RecentAged ==
  ASSUME NEW times \in Seq(Ages), Ordered(times)
  PROVE  /\ Recent(Older(times)) = Recent(Older(Recent(times)))
         /\ Recent(Older(times)) \in Seq(Ages) /\ Len(Recent(Older(times))) <= Len(Recent(times))
  <1>1. PICK n \in Nat : n = Len(times) /\ \A i \in 1 .. n : times[i] \in Nat /\ times[i] <= Window
    BY SeqNat
  <1>2. PICK k \in 1 .. n + 1 : /\ \A i \in 1 .. k - 1 : times[i] >= Window
                                /\ Recent(times) = SubSeq(times, k, Len(times))
    BY <1>1, SeqNat, RecentPlace
  <1>3. PICK young : young = Recent(times)
    OBVIOUS
  <1>4. young \in Seq(Ages) /\ Within(young) /\ Ordered(young)
    BY <1>3, RecentType
  <1>5. /\ Len(young) = n - k + 1 /\ \A i \in 1 .. n - k + 1 : young[i] = times[k + i - 1]
    BY <1>1, <1>2, <1>3, Cut
  <1>6. PICK aged : aged = Older(times)
    OBVIOUS
  <1>7. /\ aged \in Seq(Ages) /\ Len(aged) = n /\ Ordered(aged)
        /\ \A i \in 1 .. n : aged[i] = IF times[i] + 1 <= Window THEN times[i] + 1 ELSE Window
    BY <1>1, <1>6, OlderType
  <1>8. PICK older : older = Older(young)
    OBVIOUS
  <1>9. /\ older \in Seq(Ages) /\ Len(older) = n - k + 1
        /\ \A i \in 1 .. n - k + 1 : older[i] = aged[k + i - 1]
    <2>1. /\ older \in Seq(Ages) /\ Len(older) = n - k + 1
          /\ \A i \in 1 .. n - k + 1 : older[i] = IF young[i] + 1 <= Window THEN young[i] + 1 ELSE Window
      BY <1>4, <1>5, <1>8, OlderType
    <2>2. \A i \in 1 .. n - k + 1 : k + i - 1 \in 1 .. n
      OBVIOUS
    <2> QED BY <1>5, <1>7, <2>1, <2>2
  <1>10. PICK m \in 1 .. n + 1 : /\ \A i \in 1 .. m - 1 : aged[i] >= Window
                                 /\ m <= n => aged[m] < Window
                                 /\ Recent(aged) = SubSeq(aged, m, Len(aged))
    <2>1. aged \in Seq(Nat)
      BY <1>7, SeqNat
    <2> QED BY <1>7, <2>1, RecentPlace
  <1>11. m >= k
    <2> SUFFICES ASSUME m < k PROVE FALSE
      OBVIOUS
    <2>1. m \in 1 .. k - 1 /\ m \in 1 .. n /\ m <= n
      OBVIOUS
    <2>2. times[m] >= Window /\ times[m] \in Nat /\ aged[m] < Window
      BY <1>1, <1>2, <1>10, <2>1
    <2> QED BY <1>7, <2>1, <2>2, WindowType
  <1>12. PICK p \in 1 .. Len(older) + 1 : p = m - k + 1
    BY <1>9, <1>11
  <1>13. ASSUME NEW i \in 1 .. p - 1 PROVE older[i] >= Window
    <2>1. i \in 1 .. n - k + 1 /\ k + i - 1 \in 1 .. m - 1
      BY <1>9, <1>11, <1>12
    <2> QED BY <1>9, <1>10, <2>1
  <1>14. ASSUME p <= Len(older) PROVE older[p] < Window
    <2>1. p \in 1 .. n - k + 1 /\ k + p - 1 = m /\ m <= n
      BY <1>9, <1>11, <1>12, <1>14
    <2> QED BY <1>9, <1>10, <2>1
  <1>15. Recent(older) = SubSeq(older, p, Len(older))
    <2>1. older \in Seq(Nat)
      BY <1>9, SeqNat
    <2> QED BY <1>13, <1>14, <2>1, RecentFrom
  <1>16. /\ Recent(older) \in Seq(Ages) /\ Len(Recent(older)) = Len(older) - p + 1
         /\ \A i \in 1 .. Len(older) - p + 1 : Recent(older)[i] = older[p + i - 1]
    BY <1>9, <1>15, Cut
  <1>17. /\ Recent(aged) \in Seq(Ages) /\ Len(Recent(aged)) = n - m + 1
         /\ \A i \in 1 .. n - m + 1 : Recent(aged)[i] = aged[m + i - 1]
    BY <1>7, <1>10, Cut
  <1>18. Len(older) - p + 1 = n - m + 1
    BY <1>9, <1>12
  <1>19. ASSUME NEW i \in 1 .. n - m + 1 PROVE Recent(older)[i] = Recent(aged)[i]
    <2>1. Len(older) - p + 1 = n - m + 1 /\ p = m - k + 1
      BY <1>12, <1>18
    <2>2. /\ p + i - 1 \in 1 .. n - k + 1 /\ k + (p + i - 1) - 1 = m + i - 1
          /\ i \in 1 .. Len(older) - p + 1
      BY ONLY <1>11, <2>1, n \in Nat, k \in 1 .. n + 1, m \in 1 .. n + 1, i \in 1 .. n - m + 1
    <2> QED BY <1>9, <1>16, <1>17, <2>2
  <1>20. Recent(aged) = Recent(older)
    BY <1>16, <1>17, <1>18, <1>19, SMTT(30)
  <1>21. Len(Recent(aged)) <= Len(young)
    BY <1>5, <1>11, <1>17
  <1>22. Recent(aged) \in Seq(Ages)
    BY <1>17
  <1> HIDE DEF Recent, Older
  <1> QED BY ONLY <1>3, <1>6, <1>8, <1>20, <1>21, <1>22, Zenon

-----------------------------------------------------------------------------
(* The limits: what is remembered                                          *)

Bucket == [client : Clients, times : Seq(Ages)]
\* The rows of a list are of different addresses, and as g says.
Faithful(rows, g) ==
  /\ \A i \in DOMAIN rows, j \in DOMAIN rows : rows[i].client = rows[j].client => i = j
  /\ \A i \in DOMAIN rows : Ordered(rows[i].times) /\ Recent(rows[i].times) = g[rows[i].client]

\* The list without the row at a place.
LEMMA WithoutRow ==
  ASSUME NEW S, NEW s \in Seq(S), NEW p \in 1 .. Len(s)
  PROVE  /\ RemoveAt(s, p) \in Seq(S) /\ Len(RemoveAt(s, p)) = Len(s) - 1
         /\ \A i \in 1 .. Len(s) - 1 : RemoveAt(s, p)[i] = IF i < p THEN s[i] ELSE s[i + 1]
  <1>1. /\ SubSeq(s, 1, p - 1) \in Seq(S) /\ Len(SubSeq(s, 1, p - 1)) = p - 1
        /\ \A i \in 1 .. p - 1 : SubSeq(s, 1, p - 1)[i] = s[i]
    OBVIOUS
  <1>2. /\ SubSeq(s, p + 1, Len(s)) \in Seq(S) /\ Len(SubSeq(s, p + 1, Len(s))) = Len(s) - p
        /\ \A i \in 1 .. Len(s) - p : SubSeq(s, p + 1, Len(s))[i] = s[p + i]
    OBVIOUS
  <1>3. PICK a \in Seq(S) : a = SubSeq(s, 1, p - 1)
    BY <1>1
  <1>4. PICK b \in Seq(S) : b = SubSeq(s, p + 1, Len(s))
    BY <1>2
  <1>5. RemoveAt(s, p) = a \o b
    BY <1>3, <1>4 DEF RemoveAt
  <1>6. Len(a) = p - 1 /\ Len(b) = Len(s) - p /\ Len(s) \in Nat
    BY <1>1, <1>2, <1>3, <1>4
  <1>7. a \o b \in Seq(S) /\ Len(a \o b) = Len(s) - 1
    BY <1>6
  <1>8. ASSUME NEW i \in 1 .. Len(s) - 1 PROVE (a \o b)[i] = IF i < p THEN s[i] ELSE s[i + 1]
    <2>1. CASE i < p
      <3>1. i \in 1 .. p - 1 /\ (a \o b)[i] = a[i]
        BY <1>6, <2>1
      <3> QED BY <1>1, <1>3, <2>1, <3>1
    <2>2. CASE i >= p
      <3>1. i - (p - 1) \in 1 .. Len(s) - p /\ (a \o b)[i] = b[i - (p - 1)] /\ p + (i - (p - 1)) = i + 1
        BY <1>6, <2>2
      <3>2. b[i - (p - 1)] = s[p + (i - (p - 1))]
        BY <1>2, <1>4, <3>1
      <3> QED BY <2>2, <3>1, <3>2
    <2>3. i < p \/ i >= p
      BY <1>6
    <2> QED BY <2>1, <2>2, <2>3
  <1> QED BY <1>5, <1>7, <1>8

\* The rows of the others, in their order.
LEMMA OthersType ==
  ASSUME BucketInv, NEW c \in Clients
  PROVE  /\ Others(c) \in Seq(Bucket) /\ Faithful(Others(c), granted)
         /\ \A i \in DOMAIN Others(c) : Others(c)[i].client # c
  <1>1. bucket \in Seq(Bucket) /\ Faithful(bucket, granted) /\ DOMAIN bucket = 1 .. Len(bucket)
        /\ Len(bucket) \in Nat
    BY DEF BucketInv, Faithful, Bucket
  <1>2. CASE Places(c) = {}
    <2>1. Others(c) = bucket
      BY <1>2 DEF Others
    <2> QED BY <1>1, <1>2, <2>1 DEF Places
  <1>3. CASE Places(c) # {}
    <2>1. Others(c) = RemoveAt(bucket, Place(c)) /\ Place(c) \in Places(c)
      BY <1>3 DEF Others, Place
    <2>2. PICK p \in 1 .. Len(bucket) : p = Place(c) /\ bucket[p].client = c
      BY <1>1, <2>1 DEF Places
    <2>3. PICK o : o = Others(c)
      OBVIOUS
    <2>4. /\ o \in Seq(Bucket) /\ Len(o) = Len(bucket) - 1 /\ DOMAIN o = 1 .. Len(bucket) - 1
          /\ \A i \in 1 .. Len(bucket) - 1 : o[i] = IF i < p THEN bucket[i] ELSE bucket[i + 1]
      <3>1. /\ o \in Seq(Bucket) /\ Len(o) = Len(bucket) - 1
            /\ \A i \in 1 .. Len(bucket) - 1 : o[i] = IF i < p THEN bucket[i] ELSE bucket[i + 1]
        BY <1>1, <2>1, <2>2, <2>3, WithoutRow
      <3> QED BY <3>1
    <2>5. ASSUME NEW i \in DOMAIN o
          PROVE  \E j \in 1 .. Len(bucket) : j # p /\ o[i] = bucket[j] /\ j = IF i < p THEN i ELSE i + 1
      <3>1. CASE i < p
        BY <1>1, <2>4, <3>1
      <3>2. CASE i >= p
        <4>1. i + 1 \in 1 .. Len(bucket) /\ i + 1 # p
          BY <1>1, <2>4, <3>2
        <4> QED BY <2>4, <3>2, <4>1
      <3> QED BY <2>4, <3>1, <3>2
    <2>6. ASSUME NEW i \in DOMAIN o, NEW j \in DOMAIN o, o[i].client = o[j].client PROVE i = j
      <3>1. PICK x \in 1 .. Len(bucket) : o[i] = bucket[x] /\ x = IF i < p THEN i ELSE i + 1
        BY <2>5
      <3>2. PICK y \in 1 .. Len(bucket) : o[j] = bucket[y] /\ y = IF j < p THEN j ELSE j + 1
        BY <2>5
      <3>3. x = y
        BY <1>1, <2>6, <3>1, <3>2 DEF Faithful
      <3> QED BY <2>4, <3>1, <3>2, <3>3
    <2>7. ASSUME NEW i \in DOMAIN o
          PROVE  /\ Ordered(o[i].times) /\ Recent(o[i].times) = granted[o[i].client]
                 /\ o[i].client # c
      BY <1>1, <2>2, <2>5 DEF Faithful
    <2> QED BY <2>3, <2>4, <2>6, <2>7 DEF Faithful
  <1> QED BY <1>2, <1>3

\* What the process remembers of an address is what was granted to it.
LEMMA TimesGranted ==
  ASSUME BucketInv, NEW c \in Clients
  PROVE  /\ Recent(Times(c)) = granted[c] /\ granted[c] \in Seq(Ages)
         /\ Ordered(granted[c]) /\ Within(granted[c])
  <1>1. CASE Places(c) = {}
    <2>1. Times(c) = <<>> /\ granted[c] = <<>> /\ <<>> \in Seq(Ages) /\ <<>> \in Seq(Nat)
      BY <1>1 DEF Times, BucketInv
    <2>2. Within(<<>>) /\ Ordered(<<>>)
      BY DEF Within, Ordered
    <2> QED BY <2>1, <2>2, RecentWhole
  <1>2. CASE Places(c) # {}
    <2>1. PICK p \in Places(c) : Times(c) = bucket[p].times
      BY <1>2 DEF Times, Place
    <2>2. p \in DOMAIN bucket /\ bucket[p].client = c
      BY DEF Places
    <2>3. bucket[p] \in Bucket
      <3>1. bucket \in Seq(Bucket)
        BY DEF BucketInv, Bucket
      <3> QED BY <2>2, <3>1
    <2>4. Times(c) \in Seq(Ages) /\ Ordered(Times(c)) /\ Recent(Times(c)) = granted[c]
      BY <2>1, <2>2, <2>3 DEF BucketInv, Bucket
    <2> QED BY <2>4, RecentType
  <1> QED BY <1>1, <1>2

\* The address that asked is the last of the list, which drops the first when it is too long.
LEMMA RememberType ==
  ASSUME BucketInv, NEW c \in Clients, NEW times \in Seq(Ages), NEW rows, rows = Remember(c, times)
  PROVE  /\ rows \in Seq(Bucket)
         /\ \A i \in DOMAIN rows, j \in DOMAIN rows : rows[i].client = rows[j].client => i = j
         /\ \A i \in DOMAIN rows :
              \/ rows[i] = [client |-> c, times |-> times]
              \/ /\ rows[i].client # c /\ Ordered(rows[i].times)
                 /\ Recent(rows[i].times) = granted[rows[i].client]
         /\ \E i \in DOMAIN rows : rows[i].client = c
  <1>1. PICK o \in Seq(Bucket) : o = Others(c)
    BY OthersType
  <1>2. /\ Faithful(o, granted) /\ \A i \in DOMAIN o : o[i].client # c
    BY <1>1, OthersType
  <1>3. PICK x \in Bucket : x = [client |-> c, times |-> times]
    BY DEF Bucket
  <1>4. PICK all \in Seq(Bucket) : all = Append(o, x)
    <2>1. Append(o, x) \in Seq(Bucket)
      BY <1>1, <1>3
    <2> QED BY <2>1
  <1>5. /\ Len(all) = Len(o) + 1 /\ Len(o) \in Nat /\ DOMAIN all = 1 .. Len(o) + 1 /\ DOMAIN o = 1 .. Len(o)
        /\ \A i \in 1 .. Len(o) : all[i] = o[i]
        /\ all[Len(o) + 1] = x
    BY <1>4
  <1>6. rows = IF Len(all) > MaxBuckets THEN Tail(all) ELSE all
    BY <1>1, <1>3, <1>4 DEF Remember
  <1>7. \A i \in DOMAIN all : all[i] = x \/ (i \in DOMAIN o /\ all[i] = o[i])
    BY <1>5
  <1>8. /\ \A i \in DOMAIN all, j \in DOMAIN all : all[i].client = all[j].client => i = j
        /\ \A i \in DOMAIN all :
             \/ all[i] = x
             \/ /\ all[i].client # c /\ Ordered(all[i].times)
                /\ Recent(all[i].times) = granted[all[i].client]
    <2>1. \A i \in DOMAIN all : all[i].client = c => i = Len(o) + 1
      BY <1>2, <1>5
    <2>2. x.client = c
      BY <1>3
    <2>3. ASSUME NEW i \in DOMAIN all, NEW j \in DOMAIN all, all[i].client = all[j].client PROVE i = j
      <3>1. CASE all[i].client = c
        BY <2>1, <2>3, <3>1
      <3>2. CASE all[i].client # c
        <4>1. i \in DOMAIN o /\ j \in DOMAIN o /\ all[i] = o[i] /\ all[j] = o[j]
          BY <1>7, <2>2, <2>3, <3>2
        <4> QED BY <1>2, <2>3, <4>1 DEF Faithful
      <3> QED BY <3>1, <3>2
    <2>4. ASSUME NEW i \in DOMAIN all, all[i] # x
          PROVE  /\ all[i].client # c /\ Ordered(all[i].times)
                 /\ Recent(all[i].times) = granted[all[i].client]
      BY <1>2, <1>7, <2>4 DEF Faithful
    <2> QED BY <2>3, <2>4
  <1>9. PICK e \in {0, 1} : /\ rows \in Seq(Bucket) /\ DOMAIN rows = 1 .. Len(all) - e /\ Len(all) > e
                            /\ \A i \in 1 .. Len(all) - e : rows[i] = all[i + e]
    <2>1. CASE Len(all) > MaxBuckets
      <3>1. rows = Tail(all) /\ Len(all) > 1 /\ Len(all) \in Nat
        BY <1>5, <1>6, <2>1, WindowType
      <3>2. /\ rows \in Seq(Bucket) /\ Len(rows) = Len(all) - 1
            /\ \A i \in 1 .. Len(all) - 1 : rows[i] = all[i + 1]
        BY <3>1
      <3>3. DOMAIN rows = 1 .. Len(all) - 1
        BY <3>2
      <3> QED BY <3>1, <3>2, <3>3
    <2>2. CASE ~(Len(all) > MaxBuckets)
      <3>1. rows = all
        BY <1>6, <2>2
      <3>2. DOMAIN rows = 1 .. Len(all) - 0 /\ Len(all) > 0 /\ \A i \in 1 .. Len(all) - 0 : rows[i] = all[i + 0]
        BY <1>5, <3>1
      <3> QED BY <3>1, <3>2
    <2> QED BY <2>1, <2>2
  <1>10. \A i \in DOMAIN rows : i + e \in DOMAIN all /\ rows[i] = all[i + e]
    BY <1>5, <1>9
  <1>11. ASSUME NEW i \in DOMAIN rows, NEW j \in DOMAIN rows, rows[i].client = rows[j].client PROVE i = j
    <2>1. i + e = j + e
      BY <1>8, <1>10, <1>11
    <2> QED BY <1>5, <1>9, <2>1
  <1>12. \E i \in DOMAIN rows : rows[i].client = c
    <2>1. Len(all) - e \in DOMAIN rows /\ (Len(all) - e) + e = Len(o) + 1
      BY <1>5, <1>9
    <2>2. rows[Len(all) - e] = x
      BY <1>5, <1>10, <2>1
    <2> QED BY <1>3, <2>1, <2>2
  <1>13. \A i \in DOMAIN rows :
           \/ rows[i] = x
           \/ /\ rows[i].client # c /\ Ordered(rows[i].times)
              /\ Recent(rows[i].times) = granted[rows[i].client]
    BY <1>8, <1>10
  <1> QED BY <1>3, <1>9, <1>11, <1>12, <1>13

LEMMA AskLeafieKeeps ==
  ASSUME ReqInv, BucketInv, NEW r \in Requests, AskLeafie(r) PROVE BucketInv'
  <1>1. PICK c \in Clients : c = req[r].client
    BY DEF ReqInv
  <1>2. PICK kept \in Seq(Ages) : kept = granted[c] /\ kept = Recent(Times(c)) /\ Ordered(kept) /\ Within(kept)
    BY TimesGranted
  <1>3. Len(kept) <= Limit /\ Len(kept) \in Nat
    <2>1. Len(granted[c]) <= Limit
      BY DEF BucketInv
    <2>2. Len(kept) \in Nat
      OBVIOUS
    <2> QED BY <1>2, <2>1, <2>2
  <1>4. PICK times : times = IF Full(kept) THEN kept ELSE Append(kept, 0)
    OBVIOUS
  <1>5. times \in Seq(Ages) /\ Ordered(times) /\ Within(times) /\ Len(times) <= Limit
    <2>1. CASE Full(kept)
      BY <1>2, <1>3, <1>4, <2>1
    <2>2. CASE ~Full(kept)
      <3>1. times = Append(kept, 0) /\ Len(kept) < Limit
        BY <1>3, <1>4, <2>2, WindowType DEF Full
      <3>2. /\ times \in Seq(Ages) /\ Len(times) = Len(kept) + 1 /\ DOMAIN times = 1 .. Len(kept) + 1
            /\ \A i \in 1 .. Len(kept) : times[i] = kept[i]
            /\ times[Len(kept) + 1] = 0
        BY <1>2, <3>1, WindowType
      <3>3. \A i \in 1 .. Len(kept) : i \in DOMAIN kept /\ kept[i] \in Nat /\ kept[i] < Window
        BY <1>2, SeqNat DEF Within
      <3>4. \A i \in DOMAIN times : times[i] \in Nat /\ times[i] < Window
        BY <1>3, <3>2, <3>3, WindowType
      <3>5. ASSUME NEW i \in DOMAIN times, NEW j \in DOMAIN times, i <= j PROVE times[i] >= times[j]
        <4>1. CASE j = Len(kept) + 1
          BY <3>2, <3>4, <4>1
        <4>2. CASE j # Len(kept) + 1
          <5>1. i \in 1 .. Len(kept) /\ j \in 1 .. Len(kept)
            BY <1>3, <3>2, <3>5, <4>2
          <5> QED BY <1>2, <3>2, <3>3, <3>5, <5>1 DEF Ordered
        <4> QED BY <4>1, <4>2
      <3>6. Len(times) <= Limit
        BY <1>3, <3>1, <3>2, WindowType
      <3> QED BY <3>2, <3>4, <3>5, <3>6 DEF Ordered, Within
    <2> QED BY <2>1, <2>2
  <1>6. Recent(times) = times
    BY <1>5, SeqNat, RecentWhole
  <1>7. /\ bucket' = Remember(c, times)
        /\ granted' = [d \in Clients |->
             IF d = c THEN IF Full(kept) THEN granted[c] ELSE Append(granted[c], 0)
             ELSE IF \E i \in DOMAIN bucket' : bucket'[i].client = d THEN granted[d] ELSE <<>>]
    BY <1>1, <1>2, <1>4 DEF AskLeafie
  <1>8. /\ bucket' \in Seq(Bucket)
        /\ \A i \in DOMAIN bucket', j \in DOMAIN bucket' : bucket'[i].client = bucket'[j].client => i = j
        /\ \A i \in DOMAIN bucket' :
             \/ bucket'[i] = [client |-> c, times |-> times]
             \/ /\ bucket'[i].client # c /\ Ordered(bucket'[i].times)
                /\ Recent(bucket'[i].times) = granted[bucket'[i].client]
        /\ \E i \in DOMAIN bucket' : bucket'[i].client = c
    BY <1>5, <1>7, RememberType
  <1>9. granted'[c] = times /\ \A d \in Clients \ {c} :
          granted'[d] = IF \E i \in DOMAIN bucket' : bucket'[i].client = d THEN granted[d] ELSE <<>>
    BY <1>2, <1>4, <1>7
  <1>10. \A i \in DOMAIN bucket' : bucket'[i].client \in Clients
    <2> SUFFICES ASSUME NEW i \in DOMAIN bucket' PROVE bucket'[i].client \in Clients
      OBVIOUS
    <2>1. bucket'[i] \in Bucket
      BY <1>8
    <2> QED BY <2>1 DEF Bucket
  <1>11. ASSUME NEW i \in DOMAIN bucket'
         PROVE  Ordered(bucket'[i].times) /\ Recent(bucket'[i].times) = granted'[bucket'[i].client]
    <2>1. CASE bucket'[i] = [client |-> c, times |-> times]
      BY <1>5, <1>6, <1>9, <2>1
    <2>2. CASE bucket'[i] # [client |-> c, times |-> times]
      <3>1. /\ bucket'[i].client \in Clients \ {c} /\ Ordered(bucket'[i].times)
            /\ Recent(bucket'[i].times) = granted[bucket'[i].client]
        BY <1>8, <1>10, <2>2
      <3>2. granted'[bucket'[i].client] = granted[bucket'[i].client]
        BY <1>9, <3>1
      <3> QED BY <3>1, <3>2
    <2> QED BY <2>1, <2>2
  <1>12. granted \in [Clients -> Seq(Ages)] /\ \A d \in Clients : Len(granted[d]) <= Limit
    BY DEF BucketInv
  <1>13. ASSUME NEW d \in Clients
         PROVE  /\ granted'[d] \in Seq(Ages) /\ Len(granted'[d]) <= Limit
                /\ Places(d)' = {} => granted'[d] = <<>>
    <2>1. CASE d = c
      <3>1. Places(d)' # {}
        BY <1>8, <2>1 DEF Places
      <3> QED BY <1>5, <1>9, <2>1, <3>1
    <2>2. CASE d # c
      <3>1. granted'[d] = granted[d] \/ granted'[d] = <<>>
        BY <1>9, <2>2
      <3>2. <<>> \in Seq(Ages) /\ Len(<<>>) <= Limit
        BY WindowType
      <3>3. Places(d)' = {} => granted'[d] = <<>>
        BY <1>9, <2>2 DEF Places
      <3> QED BY <1>12, <3>1, <3>2, <3>3
    <2> QED BY <2>1, <2>2
  <1>14. granted' \in [Clients -> Seq(Ages)]
    <2>1. granted' = [d \in Clients |-> granted'[d]]
      BY <1>7
    <2> QED BY <1>13, <2>1
  <1>15. bucket' \in Seq([client : Clients, times : Seq(Ages)])
    BY <1>8 DEF Bucket
  <1> QED BY <1>8, <1>11, <1>13, <1>14, <1>15 DEF BucketInv

LEMMA TickKeeps == ASSUME BucketInv, Tick PROVE BucketInv'
  <1>1. /\ bucket' = [i \in DOMAIN bucket |-> [bucket[i] EXCEPT !.times = Older(@)]]
        /\ granted' = [c \in Clients |-> Recent(Older(granted[c]))]
    BY DEF Tick
  <1>2. /\ bucket \in Seq(Bucket) /\ DOMAIN bucket = 1 .. Len(bucket) /\ Len(bucket) \in Nat
        /\ \A i \in DOMAIN bucket : bucket[i] \in Bucket
    <2>1. bucket \in Seq(Bucket)
      BY DEF BucketInv, Bucket
    <2> QED BY <2>1
  <1>3. ASSUME NEW i \in DOMAIN bucket
        PROVE  /\ bucket'[i] = [client |-> bucket[i].client, times |-> Older(bucket[i].times)]
               /\ bucket'[i] \in Bucket /\ bucket'[i].client = bucket[i].client
               /\ Ordered(bucket'[i].times)
               /\ Recent(bucket'[i].times) = Recent(Older(granted[bucket[i].client]))
    <2>1. bucket[i] \in Bucket /\ bucket[i].times \in Seq(Ages) /\ bucket[i].client \in Clients
      BY <1>2 DEF Bucket
    <2>2. bucket'[i] = [client |-> bucket[i].client, times |-> Older(bucket[i].times)]
      <3>1. bucket[i] = [client |-> bucket[i].client, times |-> bucket[i].times]
        BY <2>1 DEF Bucket
      <3> QED BY <1>1, <3>1
    <2>3. Ordered(bucket[i].times) /\ Recent(bucket[i].times) = granted[bucket[i].client]
      BY DEF BucketInv
    <2>4. Older(bucket[i].times) \in Seq(Ages) /\ Ordered(Older(bucket[i].times))
      BY <2>1, <2>3, OlderType
    <2>5. Recent(Older(bucket[i].times)) = Recent(Older(granted[bucket[i].client]))
      BY <2>1, <2>3, RecentAged
    <2> QED BY <2>1, <2>2, <2>4, <2>5 DEF Bucket
  <1>4. DOMAIN bucket' = DOMAIN bucket /\ bucket' \in Seq(Bucket)
    <2>1. bucket' = [i \in 1 .. Len(bucket) |-> bucket'[i]]
      BY <1>1, <1>2
    <2> QED BY <1>2, <1>3, <2>1
  <1>5. ASSUME NEW c \in Clients
        PROVE  /\ granted'[c] \in Seq(Ages) /\ Len(granted'[c]) <= Limit
               /\ Places(c)' = {} => granted'[c] = <<>>
    <2>1. /\ granted[c] \in Seq(Ages) /\ Ordered(granted[c]) /\ Within(granted[c])
          /\ Len(granted[c]) <= Limit /\ Len(granted[c]) \in Nat
      BY TimesGranted DEF BucketInv
    <2>2. Recent(granted[c]) = granted[c]
      BY <2>1, SeqNat, RecentWhole
    <2>3. granted'[c] = Recent(Older(granted[c]))
      BY <1>1
    <2>4. granted'[c] \in Seq(Ages) /\ Len(granted'[c]) <= Len(granted[c])
      BY <2>1, <2>2, <2>3, RecentAged
    <2>5. Len(granted'[c]) <= Limit
      BY <2>1, <2>4, WindowType
    <2>6. ASSUME Places(c)' = {} PROVE granted'[c] = <<>>
      <3>1. Places(c) = {}
        BY <1>3, <1>4, <2>6 DEF Places
      <3>2. Len(granted[c]) = 0
        BY <3>1 DEF BucketInv
      <3>3. Len(granted'[c]) = 0
        BY <2>4, <3>2
      <3> QED BY <2>4, <3>3
    <2> QED BY <2>4, <2>5, <2>6
  <1>6. granted' \in [Clients -> Seq(Ages)]
    BY <1>1, <1>5
  <1>7. bucket' \in Seq([client : Clients, times : Seq(Ages)])
    BY <1>4 DEF Bucket
  <1>8. \A i \in DOMAIN bucket', j \in DOMAIN bucket' : bucket'[i].client = bucket'[j].client => i = j
    BY <1>3, <1>4 DEF BucketInv
  <1>9. \A i \in DOMAIN bucket' :
          Ordered(bucket'[i].times) /\ Recent(bucket'[i].times) = granted'[bucket'[i].client]
    <2> SUFFICES ASSUME NEW i \in DOMAIN bucket
                 PROVE  Ordered(bucket'[i].times) /\ Recent(bucket'[i].times) = granted'[bucket'[i].client]
      BY <1>4
    <2>1. bucket'[i] \in Bucket
      BY <1>3
    <2> QED BY <1>1, <1>3, <2>1 DEF Bucket
  <1> QED BY <1>5, <1>6, <1>7, <1>8, <1>9 DEF BucketInv

LEMMA ForgotKeeps ==
  ASSUME bucket' = <<>>, granted' = [c \in Clients |-> <<>>] PROVE BucketInv'
  <1>1. bucket' \in Seq([client : Clients, times : Seq(Ages)]) /\ DOMAIN bucket' = {}
    OBVIOUS
  <1>2. granted' \in [Clients -> Seq(Ages)]
    OBVIOUS
  <1>3. \A c \in Clients : Len(granted'[c]) <= Limit /\ granted'[c] = <<>>
    BY WindowType
  <1> QED BY <1>1, <1>2, <1>3 DEF BucketInv

-----------------------------------------------------------------------------
(* The slots                                                               *)

At == {r \in Requests : Serving(r)}

LEMMA FewerServed == ASSUME SlotsInv, At' \subseteq At PROVE SlotsInv'
  <1>1. PICK now : now = At'
    OBVIOUS
  <1>2. IsFiniteSet(At) /\ Cardinality(At) \in Nat /\ Cardinality(At) <= Slots
    BY FS_CardinalityType DEF SlotsInv, Busy, At
  <1>3. IsFiniteSet(now) /\ Cardinality(now) <= Cardinality(At)
    BY <1>1, <1>2, FS_Subset
  <1>4. Cardinality(now) \in Nat
    BY <1>3, FS_CardinalityType
  <1>5. Cardinality(now) <= Slots
    BY <1>2, <1>3, <1>4, WindowType
  <1> QED BY <1>1, <1>3, <1>5 DEF SlotsInv, Busy, At

LEMMA OneMoreServed ==
  ASSUME SlotsInv, ~Locked, NEW r, At' \subseteq At \cup {r} PROVE SlotsInv'
  <1>1. PICK now : now = At'
    OBVIOUS
  <1>2. IsFiniteSet(At) /\ Cardinality(At) \in Nat
    BY FS_CardinalityType DEF SlotsInv, At
  <1>3. Cardinality(At) < Slots
    BY <1>2, WindowType DEF Locked, At
  <1>4. IsFiniteSet(At \cup {r}) /\ Cardinality(At \cup {r}) <= Cardinality(At) + 1
    <2>1. /\ IsFiniteSet(At \cup {r})
          /\ Cardinality(At \cup {r}) = IF r \in At THEN Cardinality(At) ELSE Cardinality(At) + 1
      BY <1>2, FS_AddElement
    <2> QED BY <1>2, <2>1
  <1>5. IsFiniteSet(now) /\ Cardinality(now) <= Cardinality(At \cup {r})
    BY <1>1, <1>4, FS_Subset
  <1>6. Cardinality(now) \in Nat /\ Cardinality(At \cup {r}) \in Nat
    BY <1>4, <1>5, FS_CardinalityType
  <1>7. Cardinality(now) <= Slots
    BY <1>2, <1>3, <1>4, <1>5, <1>6, WindowType
  <1> QED BY <1>1, <1>5, <1>7 DEF SlotsInv, Busy, At

\* Nobody is refused without cause.
RefusedStep ==
  \A r \in Requests : req[r].pc # "refused" /\ req'[r].pc = "refused" =>
    Len(granted[req[r].client]) >= Limit \/ Busy >= Slots

\* Steps that serve and refuse nobody more.
LEMMA ServesNone ==
  ASSUME SlotsInv,
         \A r \in Requests : /\ Serving(r)' => Serving(r)
                             /\ req'[r].pc = "refused" => req[r].pc = "refused"
  PROVE  SlotsInv' /\ RefusedStep
  <1>1. At' \subseteq At
    BY DEF At
  <1> QED BY <1>1, FewerServed DEF RefusedStep

LEMMA LimitsKeep ==
  ASSUME ReqInv, BucketInv, SlotsInv, LeafieNext PROVE BucketInv' /\ SlotsInv' /\ RefusedStep
  <1>1. ASSUME UNCHANGED limits PROVE BucketInv'
    BY <1>1 DEF limits, BucketInv, Places
  <1>2. ASSUME UNCHANGED req PROVE SlotsInv' /\ RefusedStep
    BY <1>2, ServesNone DEF Serving
  <1>3. ASSUME NEW r \in Requests, NEW x, req' = [req EXCEPT ![r] = x],
               x.pc \in {"reading", "asking"} => Serving(r), x.pc = "refused" => req[r].pc = "refused"
        PROVE  SlotsInv' /\ RefusedStep
    <2>1. \A s \in Requests : req'[s] = IF s = r THEN x ELSE req[s]
      BY <1>3 DEF ReqInv
    <2> QED BY <1>3, <2>1, ServesNone DEF Serving
  <1>4. Unused.pc = "idle"
    BY DEF Unused
  <1>5. CASE \/ \E u \in Visitors : Switch(u)
             \/ Adopt \/ ClearHistory \/ \E next \in {"closed", "open", "confirm"} : Show(next)
             \/ Type \/ StartVoice \/ StopVoice \/ OnTimer \/ OnStart \/ OnResult \/ OnEnd \/ Hide
             \/ Deactivate
    <2>1. UNCHANGED limits /\ UNCHANGED req
      BY <1>5 DEF Switch, Adopt, ClearHistory, Show, Type, StartVoice, StopVoice, OnTimer, OnStart,
                  OnResult, OnEnd, Hide, Deactivate
    <2> QED BY <1>1, <1>2, <2>1
  <1>6. CASE Reload
    <2>1. UNCHANGED limits /\ \A r \in Requests : req'[r].pc = req[r].pc
      BY <1>6 DEF Reload, Unused
    <2> QED BY <1>1, <2>1, ServesNone DEF Serving
  <1>7. ASSUME NEW text, Send(text), UNCHANGED limits PROVE BucketInv' /\ SlotsInv' /\ RefusedStep
    <2>1. PICK r \in Requests :
            req' = [req EXCEPT ![r] = [pc |-> "sent", client |-> Home, text |-> text, by |-> active, heard |-> TRUE]]
      BY <1>7 DEF Send
    <2> QED BY <1>1, <1>3, <1>7, <2>1
  <1>8. CASE Retry \/ \E text \in Texts : Suggest(text) \/ HandleSubmit(text)
    BY <1>7, <1>8 DEF Retry, Suggest, HandleSubmit
  <1>9. ASSUME NEW r \in Requests,
               \/ \E c \in Clients : Visit(r, c)
               \/ BuildCatalog(r) \/ GenerateReply(r) \/ Deliver(r) \/ Abort(r)
        PROVE  BucketInv' /\ SlotsInv' /\ RefusedStep
    <2>1. UNCHANGED limits
      BY <1>9 DEF Visit, BuildCatalog, GenerateReply, Deliver, Abort
    <2>2. CASE \E c \in Clients : Visit(r, c)
      BY <1>1, <1>3, <2>1, <2>2 DEF Visit, Unused
    <2>3. CASE BuildCatalog(r) \/ GenerateReply(r)
      <3>1. /\ Serving(r)
            /\ \E pc \in {"asking", "answered", "failed"} : req' = [req EXCEPT ![r] = [@ EXCEPT !.pc = pc]]
        BY <2>3 DEF BuildCatalog, GenerateReply, Serving
      <3>2. PICK pc \in {"asking", "answered", "failed"} : req' = [req EXCEPT ![r] = [req[r] EXCEPT !.pc = pc]]
        BY <3>1 DEF ReqInv
      <3>3. [req[r] EXCEPT !.pc = pc].pc = pc
        BY DEF ReqInv
      <3> QED BY <1>1, <1>3, <2>1, <3>1, <3>2, <3>3
    <2>4. CASE Deliver(r)
      BY <1>1, <1>3, <1>4, <2>1, <2>4 DEF Deliver
    <2>5. CASE Abort(r)
      <3>1. [Unused EXCEPT !.pc = req[r].pc, !.client = req[r].client].pc = req[r].pc
        BY DEF Unused
      <3> QED BY <1>1, <1>3, <2>1, <2>5, <3>1 DEF Abort, Serving
    <2> QED BY <1>9, <2>2, <2>3, <2>4, <2>5
  <1>10. ASSUME NEW r \in Requests, AskLeafie(r) PROVE BucketInv' /\ SlotsInv' /\ RefusedStep
    <2>1. PICK c \in Clients : c = req[r].client
      BY DEF ReqInv
    <2>2. PICK kept \in Seq(Ages) : kept = granted[c] /\ kept = Recent(Times(c))
      BY TimesGranted
    <2>3. PICK pc \in IF Full(kept) THEN {"refused"} ELSE {"answered", IF Locked THEN "refused" ELSE "reading"} :
            req' = [req EXCEPT ![r].pc = pc]
      BY <1>10, <2>1, <2>2 DEF AskLeafie, PolicyReply
    <2>4. req'[r].pc = pc /\ \A s \in Requests \ {r} : req'[s] = req[s]
      BY <2>3 DEF ReqInv
    <2>5. SlotsInv'
      <3>1. CASE pc = "reading"
        <4>1. ~Locked
          BY <2>3, <3>1
        <4>2. At' \subseteq At \cup {r}
          BY <2>4 DEF At, Serving
        <4> QED BY <4>1, <4>2, OneMoreServed
      <3>2. CASE pc # "reading"
        <4>1. pc \in {"refused", "answered"}
          BY <2>3, <3>2
        <4>2. At' \subseteq At
          BY <2>4, <4>1 DEF At, Serving
        <4> QED BY <4>2, FewerServed
      <3> QED BY <3>1, <3>2
    <2>6. RefusedStep
      <3>1. pc = "refused" => Full(kept) \/ Locked
        BY <2>3
      <3>2. pc = "refused" => Len(granted[req[r].client]) >= Limit \/ Busy >= Slots
        BY <2>1, <2>2, <3>1 DEF Full, Locked, Busy
      <3> QED BY <2>4, <3>2 DEF RefusedStep
    <2> QED BY <1>10, <2>5, <2>6, AskLeafieKeeps
  <1>11. CASE Tick
    <2>1. UNCHANGED req
      BY <1>11 DEF Tick
    <2> QED BY <1>2, <1>11, <2>1, TickKeeps
  <1>12. CASE Restart
    <2>1. /\ bucket' = <<>> /\ granted' = [c \in Clients |-> <<>>]
          /\ req' = [r \in Requests |-> IF req[r].pc = "sent" \/ Serving(r)
                                        THEN [req[r] EXCEPT !.pc = "failed"] ELSE req[r]]
      BY <1>12 DEF Restart
    <2>2. \A r \in Requests : req'[r].pc = req[r].pc \/ req'[r].pc = "failed"
      BY <2>1 DEF ReqInv
    <2>3. SlotsInv' /\ RefusedStep
      BY <2>2, ServesNone DEF Serving
    <2> QED BY <2>1, <2>3, ForgotKeeps
  <1> QED BY <1>5, <1>6, <1>8, <1>9, <1>10, <1>11, <1>12 DEF LeafieNext

-----------------------------------------------------------------------------
LEMMA InitHolds == LeafieInit => LInv
  <1> SUFFICES ASSUME LeafieInit PROVE LInv
    OBVIOUS
  <1>1. ReqInv
    BY UnusedType DEF LeafieInit, ReqInv
  <1>2. ChatInv
    <2>1. <<>> \in Seq(Messages) /\ Len(<<>>) <= Keep /\ \A u \in Visitors : Consistent(<<>>, u)
      BY Positive DEF Consistent
    <2>2. Guest \in Visitors
      BY DEF Visitors
    <2> QED BY <2>1, <2>2 DEF LeafieInit, ChatInv, AnswersFollowQuestions
  <1>3. VoiceInv
    BY DEF LeafieInit, VoiceInv, MicWatched, Recording, Silent
  <1>4. BucketInv
    <2>1. bucket \in Seq([client : Clients, times : Seq(Ages)]) /\ DOMAIN bucket = {}
      BY DEF LeafieInit
    <2>2. granted \in [Clients -> Seq(Ages)] /\ \A c \in Clients : Len(granted[c]) <= Limit /\ granted[c] = <<>>
      BY WindowType DEF LeafieInit
    <2> QED BY <2>1, <2>2 DEF BucketInv
  <1>5. SlotsInv
    <2>1. {r \in Requests : Serving(r)} = {}
      BY UnusedType DEF LeafieInit, Serving
    <2> QED BY <2>1, FS_EmptySet, WindowType DEF SlotsInv, Busy
  <1> QED BY <1>1, <1>2, <1>3, <1>4, <1>5 DEF LInv

LEMMA NextKeeps ==
  LInv /\ [LeafieNext]_leafieVars => LInv' /\ [DraftStep]_leafieVars /\ [RefusedStep]_leafieVars
  <1> SUFFICES ASSUME LInv, [LeafieNext]_leafieVars
               PROVE  LInv' /\ [DraftStep]_leafieVars /\ [RefusedStep]_leafieVars
    OBVIOUS
  <1>1. CASE LeafieNext
    BY <1>1, ChatKeeps, VoiceKeeps, LimitsKeep DEF LInv
  <1>2. CASE UNCHANGED leafieVars
    <2>1. ReqInv' /\ ChatInv' /\ SlotsInv'
      BY <1>2, ChatSame, ServesNone DEF LInv, leafieVars, chat, ReqInv, ChatInv, Serving
    <2>2. VoiceInv' /\ BucketInv'
      BY <1>2 DEF LInv, leafieVars, screen, speech, limits, VoiceInv, BucketInv, MicWatched, Recording, Places
    <2> QED BY <1>2, <2>1, <2>2 DEF LInv
  <1> QED BY <1>1, <1>2

\* Of any accounts, however often they change, questions are asked, overtaken and answered late,
\* and pages are loaded again: in every conversation an answer follows the question that it
\* answers, asked by the account whose conversation it is, and the screen shows what is kept.
THEOREM ConversationsStayWhole == LeafieSpec => []ConversationsWhole
  <1>1. LInv => ConversationsWhole
    BY DEF LInv, ReqInv, ChatInv, VoiceInv, BucketInv, ConversationsWhole, LeafieTypeOK, AnswersFollowQuestions
  <1> QED BY <1>1, InitHolds, NextKeeps, PTL DEF LeafieSpec

\* For any number of addresses and calls, while time passes, addresses are forgotten and the process
\* restarts: nobody gets more than the limit within a window, no more calls of the model run than
\* there are slots, and nobody is refused without one or the other being used up.
THEOREM LimitsStayFair == LeafieSpec => LimitsFair
  <1>1. LInv => Busy <= Slots /\ \A c \in Clients : Len(granted[c]) <= Limit
    BY DEF LInv, SlotsInv, BucketInv
  <1> QED BY <1>1, InitHolds, NextKeeps, PTL DEF LeafieSpec, LimitsFair, RefusedStep

\* However the recogniser's events fall around stops, sends, a closed panel and the timers: the
\* microphone is on only while the panel says so with a timer armed, and dictation only adds to the draft.
THEOREM DictationStaysFollowed == LeafieSpec => DictationFollowed
  <1>1. LInv => (mic # "off" => Recording) /\ (Recording <=> voice.timer # "none")
    BY DEF LInv, VoiceInv, MicWatched
  <1> QED BY <1>1, InitHolds, NextKeeps, PTL DEF LeafieSpec, DictationFollowed, DraftStep
=============================================================================
