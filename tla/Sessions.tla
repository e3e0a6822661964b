------------------------------ MODULE Sessions ------------------------------
(***************************************************************************)
(* Signing in, staying signed in and the cart of whoever is signed in: the  *)
(* tokens that the tabs of one browser share in localStorage, the calls     *)
(* that tabs make with them (frontend/src/services/api.ts), the silent      *)
(* refresh that the calls of a tab share, the pages that react to how a     *)
(* call ends (AuthContext.tsx), and the server that issues tokens and       *)
(* believes them (services/auth, core/dependencies.py).                     *)
(*                                                                         *)
(* Tokens are signed and carry their account and expiry; the server keeps   *)
(* none of them.  A pair is known here by its number, in the order of       *)
(* issue; 0 is none.  Older tokens expire first.                            *)
(***************************************************************************)
EXTENDS Integers, Sequences, FiniteSets

CONSTANTS Users, Tabs,
          Known,      \* the accounts that exist when a behaviour begins
          Shopping,   \* the tabs in which somebody looks at a cart
          Calls,      \* slots for the calls that pages make
          Flows,      \* slots for the calls that are about the account
          Followed,   \* whose items are followed from cart to cart
          Managed,    \* the accounts that an administrator disables and enables
          NoUser, NoTab,
          MaxTokens   \* bound on the pairs issued in a behaviour

ASSUME Absent == NoUser \notin Users /\ NoTab \notin Tabs
ASSUME SlotsApart == Calls \cap Flows = {} /\ Followed \subseteq Users \cup {NoUser}
ASSUME Given == Known \subseteq Users /\ Managed \subseteq Users /\ Shopping \subseteq Tabs
ASSUME Bounds == MaxTokens \in Nat

VARIABLES account,  \* nguoidung: whether the account exists and is enabled
          token,    \* the account of each pair issued
          dead,     \* the last access token and the last refresh token to have expired
          store,    \* access_token and refresh_token in localStorage
          tab,      \* whether it shows an account, the refresh under way, the carts of the tab
          call,     \* calls: their progress, tab, token, and who waits for the answer
          cart,     \* the carts in localStorage: whose session put something in
          trouble   \* history: none, a refresh was lost, or a session was ended

vars == <<account, token, dead, store, tab, call, cart, trouble>>

NoTokens == [access |-> 0, refresh |-> 0]
All == Calls \cup Flows
NoCall == [pc |-> "idle", tab |-> NoTab, token |-> 0, by |-> "page", who |-> NoUser]
Owners == Users \cup {NoUser}

Init ==
  /\ account = [u \in Users |-> IF u \in Known THEN "active" ELSE "none"]
  /\ token = <<>> /\ dead = NoTokens /\ store = NoTokens
  /\ tab = [t \in Tabs |-> [user |-> FALSE, refreshing |-> 0, guest |-> {}, shown |-> {}]]
  /\ call = [c \in All |-> NoCall]
  /\ cart = [u \in Users |-> {}]
  /\ trouble = "none"

(* The account in a stored token, expired or not; getStorage and             *)
(* getCartStorageKey choose the cart by it, and a guest's is the tab's own.  *)
Holder(st) == IF st.access = 0 THEN NoUser ELSE token[st.access]
Saved(t, u) == IF u = NoUser THEN tab[t].guest ELSE cart[u]
Drawn(t, u) == IF t \in Shopping THEN Saved(t, u) ELSE {}

Ended == trouble' = "ended"
-----------------------------------------------------------------------------
(* The tabs                                                                *)

Free(c) == call[c] = NoCall
Start(c, t, pc, k, by, u) ==
  call' = [call EXCEPT ![c] = [pc |-> pc, tab |-> t, token |-> k, by |-> by, who |-> u]]

(* A page is loaded, again perhaps: what it had under way is dropped, and    *)
(* the account of the stored token is asked for.                            *)
Mount(t) ==
  /\ LET kept == [c \in All |-> IF call[c].tab = t THEN NoCall ELSE call[c]]
     IN \/ store.access = 0 /\ call' = kept
        \/ /\ store.access # 0
           /\ \E c \in Flows :
                /\ kept[c] = NoCall
                /\ call' = [kept EXCEPT ![c] = [pc |-> "sent", tab |-> t, token |-> store.access,
                                                by |-> "load", who |-> NoUser]]
  /\ tab' = [tab EXCEPT ![t].user = FALSE, ![t].refreshing = 0,
                        ![t].shown = Drawn(t, Holder(store))]
  /\ UNCHANGED <<account, token, dead, store, cart, trouble>>

(* A page calls the API for itself, or to draw its account anew (refreshUser).*)
Request(t, c, by) ==
  /\ Free(c) /\ (by = "update" => store.access # 0)
  /\ Start(c, t, "sent", store.access, by, NoUser)
  /\ UNCHANGED <<account, token, dead, store, tab, cart, trouble>>

(* The forms of LoginPage and RegisterPage, which can be sent once at a time. *)
Submit(t, c, by, u) ==
  /\ Free(c) /\ \A d \in Flows : call[d].tab = t => call[d].by # by
  /\ Start(c, t, "signing", 0, by, u)
  /\ UNCHANGED <<account, token, dead, store, tab, cart, trouble>>

SignOut(t) ==
  /\ tab[t].user
  /\ store' = NoTokens
  /\ tab' = [tab EXCEPT ![t].user = FALSE, ![t].guest = {}, ![t].shown = {}]
  /\ Ended
  /\ UNCHANGED <<account, token, dead, call, cart>>

(* What a page does when its call ends, st being what the call left in       *)
(* localStorage.  A failed sign-in, and a failed redraw, sign the browser    *)
(* out; only a sign-in that succeeds has the cart drawn anew.                *)
End(c, result, st) ==
  LET t == call[c].tab
      by == call[c].by
      out == result # "ok" /\ (by \in {"login", "register", "update"} \/ (by = "load" /\ result = "401"))
      left == IF out THEN NoTokens ELSE st
  IN /\ call' = [call EXCEPT ![c] = NoCall]
     /\ store' = left
     /\ tab' = [tab EXCEPT ![t] =
          IF result = "ok" /\ by # "page"
          THEN [@ EXCEPT !.user = TRUE, !.shown = IF by = "login" THEN Drawn(t, Holder(st)) ELSE tab[t].shown]
          ELSE IF result # "ok" /\ by = "update"
          THEN [@ EXCEPT !.user = FALSE, !.guest = {}, !.shown = {}]
          ELSE IF out /\ by = "load" THEN [@ EXCEPT !.user = FALSE]
          ELSE @]

(* The cart of the account in the stored token, whatever the page shows.     *)
\* mutant: what the page shows is what it saves
AddShown(t) ==
  LET u == Holder(store)
      new == tab[t].shown \cup ({u} \cap Followed)
  IN /\ t \in Shopping
     /\ tab' = [tab EXCEPT ![t].shown = new, ![t].guest = IF u = NoUser THEN new ELSE @]
     /\ cart' = [v \in Users |-> IF v = u THEN new ELSE cart[v]]
     /\ UNCHANGED <<account, token, dead, store, call, trouble>>
AddToCart(t) ==
  LET u == Holder(store)
      new == Saved(t, u) \cup ({u} \cap Followed)
  IN /\ t \in Shopping
     /\ tab' = [tab EXCEPT ![t].shown = new, ![t].guest = IF u = NoUser THEN new ELSE @]
     /\ cart' = [v \in Users |-> IF v = u THEN new ELSE cart[v]]
     /\ UNCHANGED <<account, token, dead, store, call, trouble>>
ClearCart(t) ==
  LET u == Holder(store)
  IN /\ t \in Shopping
     /\ tab' = [tab EXCEPT ![t].shown = {}, ![t].guest = IF u = NoUser THEN {} ELSE @]
     /\ cart' = [v \in Users |-> IF v = u THEN {} ELSE cart[v]]
     /\ UNCHANGED <<account, token, dead, store, call, trouble>>

(* Another tab has saved a cart, or the page asks for it (refreshCart).      *)
Redraw(t) ==
  /\ t \in Shopping
  /\ tab' = [tab EXCEPT ![t].shown = Drawn(t, Holder(store))]
  /\ UNCHANGED <<account, token, dead, store, call, cart, trouble>>
-----------------------------------------------------------------------------
(* The answers.  What a handler does on the server and what the tab does     *)
(* with its answer are one step: no other actor sees the difference.         *)

Issue(u) == Len(token) < MaxTokens /\ token' = Append(token, u)
NextPair == Len(token) + 1

(* login and register: the pair is stored, and the account is asked for a    *)
(* moment later.  Only a login empties the guest's cart.                     *)
Admit(c, u) ==
  /\ Issue(u)
  /\ store' = [access |-> NextPair, refresh |-> NextPair]
  /\ call' = [call EXCEPT ![c].pc = "pause", ![c].who = NoUser]
  /\ tab' = IF call[c].by = "login" THEN [tab EXCEPT ![call[c].tab].guest = {}] ELSE tab
SignedIn(c) ==
  /\ call[c].pc = "signing"
  /\ LET u == call[c].who
     IN \/ call[c].by = "login" /\ account[u] = "active" /\ Admit(c, u) /\ UNCHANGED account
        \/ /\ call[c].by = "register" /\ account[u] = "none" /\ Admit(c, u)
           /\ account' = [account EXCEPT ![u] = "active"]
  /\ UNCHANGED <<dead, cart, trouble>>

(* A wrong password, a disabled account, a name that is taken.               *)
Refuse(c) ==
  /\ call[c].pc = "signing" /\ End(c, "error", store) /\ Ended
  /\ UNCHANGED <<account, token, dead, cart>>
Ask(c) ==
  /\ call[c].pc = "pause"
  /\ call' = [call EXCEPT ![c].pc = "sent", ![c].token = store.access]
  /\ UNCHANGED <<account, token, dead, store, tab, cart, trouble>>

(* get_current_user: the token, then the account.                            *)
Unauthorised(k) == k = 0 \/ k <= dead.access
Serve(c) ==
  /\ call[c].pc \in {"sent", "replayed"} /\ ~Unauthorised(call[c].token)
  /\ End(c, IF account[token[call[c].token]] = "active" THEN "ok" ELSE "403", store)
  /\ UNCHANGED <<account, token, dead, cart, trouble>>

(* A first 401 joins the refresh of its tab, or starts it; a second one, or  *)
(* one with nothing to refresh with, empties localStorage.                   *)
\* mutant: a call that finds a refresh under way does not wait for it
CanRefreshAlone(c) == call[c].pc = "sent" /\ store.refresh # 0 /\ tab[call[c].tab].refreshing = 0
CanAttemptRefresh(c) == call[c].pc = "sent" /\ store.refresh # 0
Turn(c) ==
  /\ call[c].pc \in {"sent", "replayed"} /\ Unauthorised(call[c].token)
  /\ \/ /\ CanAttemptRefresh(c)
        /\ call' = [call EXCEPT ![c].pc = "waiting", ![c].token = 0]
        /\ tab' = [tab EXCEPT ![call[c].tab].refreshing = IF @ = 0 THEN store.refresh ELSE @]
        /\ UNCHANGED store
     \/ ~CanAttemptRefresh(c) /\ End(c, "401", NoTokens)
  /\ UNCHANGED <<account, token, dead, cart, trouble>>

(* The answer is lost, or is none of the above: a 503 of the admission        *)
(* middleware, a 500.                                                        *)
Outage(c) ==
  /\ call[c].pc \in {"signing", "sent", "replayed"} /\ End(c, "error", store)
  /\ IF call[c].by \in {"login", "register", "update"} THEN Ended ELSE UNCHANGED trouble
  /\ UNCHANGED <<account, token, dead, cart>>

Waiting(t) == {c \in All : call[c].tab = t /\ call[c].pc = "waiting"}
Honoured(k) == k > dead.refresh /\ account[token[k]] = "active"

(* _performRefresh answers: the new tokens are stored, whoever is signed in   *)
(* by now, and every call that waits is made again with what is stored.      *)
Refreshed == [access |-> NextPair, refresh |-> NextPair]
Renew(t) ==
  /\ tab[t].refreshing # 0 /\ Honoured(tab[t].refreshing)
  /\ Issue(token[tab[t].refreshing])
  /\ store' = Refreshed
  /\ tab' = [tab EXCEPT ![t].refreshing = 0]
  /\ call' = [c \in All |-> IF c \in Waiting(t)
                              THEN [call[c] EXCEPT !.pc = "replayed", !.token = NextPair] ELSE call[c]]
  /\ UNCHANGED <<account, dead, cart, trouble>>

(* Or it does not: the calls that wait for it end as the 401 that they had.  *)
\* mutant: nobody tells the calls that wait
Unanswered(t) == store' = NoTokens /\ UNCHANGED call
Rejected(t) ==
  /\ store' = NoTokens
  /\ call' = [c \in All |-> IF c \in Waiting(t) THEN [call[c] EXCEPT !.pc = "failed"] ELSE call[c]]
Deny(t) ==
  /\ tab[t].refreshing # 0
  /\ \/ ~Honoured(tab[t].refreshing) /\ UNCHANGED trouble
     \/ Honoured(tab[t].refreshing) /\ trouble' = IF trouble = "none" THEN "outage" ELSE trouble
  /\ tab' = [tab EXCEPT ![t].refreshing = 0]
  /\ Rejected(t)
  /\ UNCHANGED <<account, token, dead, cart>>
Fail(c) ==
  /\ call[c].pc = "failed" /\ End(c, "401", store)
  /\ UNCHANGED <<account, token, dead, cart, trouble>>
-----------------------------------------------------------------------------
(* The world                                                               *)

(* Minutes pass.  A call that is made again is answered before its token,     *)
(* just issued, expires.                                                     *)
Expire ==
  /\ \E k \in dead.access + 1..Len(token) :
       /\ \A c \in All : call[c].pc = "replayed" => call[c].token > k
       /\ dead' = [dead EXCEPT !.access = k]
  /\ UNCHANGED <<account, token, store, tab, call, cart, trouble>>
ExpireRefresh ==
  /\ \E k \in dead.refresh + 1..dead.access : dead' = [dead EXCEPT !.refresh = k]
  /\ Ended
  /\ UNCHANGED <<account, token, store, tab, call, cart>>

(* update_user, delete_user                                                  *)
Disable(u) ==
  /\ account[u] = "active" /\ account' = [account EXCEPT ![u] = "disabled"] /\ Ended
  /\ UNCHANGED <<token, dead, store, tab, call, cart>>
Enable(u) ==
  /\ account[u] = "disabled" /\ account' = [account EXCEPT ![u] = "active"]
  /\ UNCHANGED <<token, dead, store, tab, call, cart, trouble>>

Answer(c) == SignedIn(c) \/ Refuse(c) \/ Ask(c) \/ Serve(c) \/ Turn(c) \/ Outage(c) \/ Fail(c)
AnswerRefresh(t) == Renew(t) \/ Deny(t)
Next ==
  \/ \E t \in Tabs : \/ Mount(t) \/ SignOut(t) \/ AddToCart(t) \/ ClearCart(t) \/ Redraw(t)
                     \/ AnswerRefresh(t)
  \/ \E t \in Tabs, c \in Calls : Request(t, c, "page")
  \/ \E t \in Tabs, c \in Flows : \/ Request(t, c, "update")
                                  \/ \E by \in {"login", "register"}, u \in Users : Submit(t, c, by, u)
  \/ \E c \in All : Answer(c)
  \/ Expire \/ ExpireRefresh \/ \E u \in Managed : Disable(u) \/ Enable(u)

Spec == Init /\ [][Next]_vars
-----------------------------------------------------------------------------
Pairs == 0..MaxTokens
Pcs == {"idle", "signing", "pause", "sent", "waiting", "replayed", "failed"}
TypeOK ==
  /\ account \in [Users -> {"none", "active", "disabled"}]
  /\ token \in Seq(Users) /\ Len(token) <= MaxTokens
  /\ dead \in [access : Pairs, refresh : Pairs]
  /\ store \in [access : 0..Len(token), refresh : 0..Len(token)]
  /\ tab \in [Tabs -> [user : BOOLEAN, refreshing : 0..Len(token),
                       guest : SUBSET Owners, shown : SUBSET Owners]]
  /\ call \in [All -> [pc : Pcs, tab : Tabs \cup {NoTab}, token : 0..Len(token),
                         by : {"page", "load", "update", "login", "register"}, who : Owners]]
  /\ cart \in [Users -> SUBSET Owners]
  /\ trouble \in {"none", "outage", "ended"}

(* Access tokens expire unnoticed: while nobody signs out, no sign-in fails    *)
(* and no refresh is lost, a browser that has signed in stays signed in.     *)
(* Any number of calls may find their token expired at once, in any tab.     *)
SessionKept == trouble = "none" /\ token # <<>> => store # NoTokens

(* What is in the saved cart of an account was put there in its session,      *)
(* though pages go on showing the cart, and the account, of another one.     *)
CartsApart == \A u \in Users : cart[u] \subseteq {u}

(* No call waits for a refresh that is not under way: every path out of a     *)
(* refresh takes the calls along that came to wait for it meanwhile.         *)
WaitersAwaited == \A c \in All : call[c].pc = "waiting" => tab[call[c].tab].refreshing # 0

(* The tokens, and the calls that stand in line for new ones, stay whole     *)
(* through refreshes that are shared, lost and refused.                      *)
RefreshesWhole == TypeOK /\ WaitersAwaited
=============================================================================
