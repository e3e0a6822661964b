------------------------------- MODULE Leafie -------------------------------
(***************************************************************************)
(* Leafie, the sales chat of the storefront.  In the browser: the           *)
(* conversation of the account that is signed in (hooks/useLeafie.ts), the  *)
(* panel and its draft (LeafieChatPanel.tsx) and dictation into it          *)
(* (hooks/useSpeechInput.ts).  On the server: the limits of one process     *)
(* (routers/leafie.py) and the call of the language model                   *)
(* (services/leafie.py).  A question is a text; what the model answers is    *)
(* known by the question it was asked.                                      *)
(***************************************************************************)
EXTENDS Integers, FiniteSets, SequencesExt

CONSTANTS Customers, Guest,        \* the accounts of the tab's visitors, and nobody's
          Texts, NoText,       \* what is asked
          Requests, NoRequest, \* slots for the calls of POST /leafie/ask
          Clients, Home,       \* addresses; the tab's own is Home
          Slots,               \* calls of the model at a time: 4
          Limit, Window,       \* 10 requests in 60 seconds, the seconds in ticks
          MaxBuckets,          \* addresses that the process remembers: 2048
          Keep                 \* messages that a conversation keeps: 60

ASSUME Nobody == Guest \notin Customers /\ NoText \notin Texts /\ NoRequest \notin Requests
ASSUME AtHome == Home \in Clients
ASSUME Positive == {Slots, Limit, Window, MaxBuckets, Keep} \subseteq Nat \ {0}

VARIABLES user,     \* the account that AuthContext shows
          active,   \* activeUser: the account whose conversation is on the screen
          messages, \* messagesRef
          stored,   \* localStorage per account, sessionStorage for a guest
          sending,  \* the ref sending and the state loading, always set together
          current,  \* the request whose version is requestVersion
          failed,   \* while an error is shown, the question that it offers to repeat
          panel,    \* closed, open, or asking whether to clear the history
          input,    \* what the draft is made of: typed and dictated text
          voice,    \* the recognition: state, the timer armed, the draft it began with
          mic,      \* the browser's recogniser behind it
          req,      \* the calls, from the tab and from others
          bucket,   \* _requests: least recently used first, ages in ticks
          granted   \* history: ages of the requests let through since the address is remembered

chat == <<user, active, messages, stored, sending, current, failed>>
speech == <<voice, mic>>
screen == <<panel, input, speech>>
limits == <<bucket, granted>>
leafieVars == <<chat, screen, req, limits>>

Visitors == Customers \cup {Guest}
Unused == [pc |-> "idle", client |-> Home, text |-> NoText, by |-> Guest, heard |-> FALSE]
Silent == [status |-> "idle", timer |-> "none", draft |-> {}]

LeafieInit ==
  /\ user = Guest /\ active = Guest /\ messages = <<>> /\ stored = [u \in Visitors |-> <<>>]
  /\ sending = FALSE /\ current = NoRequest /\ failed = NoText
  /\ panel = "closed" /\ input = {} /\ voice = Silent /\ mic = "off"
  /\ req = [r \in Requests |-> Unused]
  /\ bucket = <<>> /\ granted = [c \in Clients |-> <<>>]
-----------------------------------------------------------------------------
(* The conversation                                                        *)

Said(role, text, by) == [role |-> role, text |-> text, by |-> by]

(* saveMessages: the last messages, under the account on the screen.         *)
Latest(list) == SubSeq(list, Len(list) - Min({Len(list), Keep}) + 1, Len(list))
Save(next) == messages' = Latest(next) /\ stored' = [stored EXCEPT ![active] = Latest(next)]

(* What both the effect on a change of account and clearHistory reset.       *)
Forget ==
  /\ sending' = FALSE /\ current' = NoRequest /\ failed' = NoText

(* Signing in or out changes what AuthContext shows; the effect runs after.  *)
Switch(u) ==
  /\ u # user /\ user' = u
  /\ UNCHANGED <<active, messages, stored, sending, current, failed, screen, req, limits>>

Adopt ==
  /\ active # user
  /\ active' = user /\ Forget /\ messages' = stored[user]
  /\ UNCHANGED <<user, stored, screen, req, limits>>

(* The page is loaded again; AuthContext finds the account later.            *)
Reload ==
  /\ user' = Guest /\ active' = Guest /\ Forget /\ messages' = stored[Guest]
  /\ panel' = "closed" /\ input' = {} /\ voice' = Silent /\ mic' = "off"
  /\ req' = [r \in Requests |-> IF req[r].heard
                                THEN [Unused EXCEPT !.pc = req[r].pc, !.client = req[r].client]
                                ELSE req[r]]
  /\ UNCHANGED <<stored, limits>>

(* sendMessage: the question of a failed attempt is not repeated on the      *)
(* screen.  A person does not ask between a change of account and its effect.*)
Retrying(text) == messages # <<>> /\ Last(messages) = Said("user", text, active)
Send(text) ==
  /\ ~sending /\ active = user
  /\ \E r \in Requests :
       /\ req[r] = Unused
       /\ req' = [req EXCEPT ![r] = [pc |-> "sent", client |-> Home, text |-> text, by |-> active, heard |-> TRUE]]
       /\ current' = r
  /\ sending' = TRUE /\ failed' = NoText
  /\ IF Retrying(text) THEN UNCHANGED <<messages, stored>>
                       ELSE Save(Append(messages, Said("user", text, active)))
  /\ UNCHANGED <<user, active>>

Suggest(text) ==
  /\ panel = "open" /\ Send(text)
  /\ UNCHANGED <<screen, limits>>

Retry ==
  /\ panel = "open" /\ failed # NoText /\ Send(failed)
  /\ UNCHANGED <<screen, limits>>

ClearHistory ==
  /\ panel = "confirm" /\ panel' = "open"
  /\ Forget /\ messages' = <<>> /\ stored' = [stored EXCEPT ![active] = <<>>]
  /\ UNCHANGED <<user, active, input, speech, req, limits>>

(* How a call ends for the tab: an answer or an error counts if no newer     *)
(* question, cleared history or change of account has overtaken it.          *)
\* mutant: nothing overtakes a call
TellAlways(r, ok) ==
  /\ sending' = FALSE /\ current' = NoRequest
  /\ IF ok THEN Save(Append(messages, Said("assistant", req[r].text, req[r].by))) /\ UNCHANGED failed
           ELSE failed' = req[r].text /\ UNCHANGED <<messages, stored>>
  /\ UNCHANGED <<user, active>>
Tell(r, ok) ==
  /\ IF r # current THEN UNCHANGED <<sending, current, messages, stored, failed>>
     ELSE /\ sending' = FALSE /\ current' = NoRequest
          /\ IF ok THEN Save(Append(messages, Said("assistant", req[r].text, req[r].by))) /\ UNCHANGED failed
                   ELSE failed' = req[r].text /\ UNCHANGED <<messages, stored>>
  /\ UNCHANGED <<user, active>>

Replied(r) == req[r].pc \in {"answered", "refused", "failed"}

Deliver(r) ==
  /\ Replied(r)
  /\ IF req[r].heard THEN Tell(r, req[r].pc = "answered") ELSE UNCHANGED chat
  /\ req' = [req EXCEPT ![r] = Unused]
  /\ UNCHANGED <<screen, limits>>

(* The abort timer of askLeafie; the server does not notice.                 *)
Abort(r) ==
  /\ req[r].heard /\ ~Replied(r) /\ Tell(r, FALSE)
  /\ req' = [req EXCEPT ![r] = [Unused EXCEPT !.pc = req[r].pc, !.client = req[r].client]]
  /\ UNCHANGED <<screen, limits>>
-----------------------------------------------------------------------------
(* The panel and dictation                                                 *)

Recording == voice.status # "idle"
Active == panel = "open" /\ ~sending

Show(next) ==
  /\ <<panel, next>> \in {<<"closed", "open">>, <<"open", "closed">>, <<"open", "confirm">>,
                          <<"confirm", "open">>}
  /\ next = "confirm" => Len(messages) > 1
  /\ panel' = next
  /\ UNCHANGED <<chat, input, speech, req, limits>>

Type ==
  /\ Active /\ ~Recording /\ input' = input \cup {"typed"}
  /\ UNCHANGED <<chat, panel, speech, req, limits>>

HandleSubmit(text) ==
  /\ panel = "open" /\ input # {} /\ ~Recording
  /\ Send(text) /\ input' = {}
  /\ UNCHANGED <<panel, speech, limits>>

(* release and cancel: callbacks are detached before the recogniser is       *)
(* aborted.                                                                  *)
Cancel == voice' = Silent /\ mic' = "off"

(* handleVoice and start; the recogniser may refuse to start.                *)
StartVoice ==
  /\ Active /\ ~Recording
  /\ voice' = [status |-> "starting", timer |-> "start", draft |-> input] /\ mic' = "opening"
  /\ UNCHANGED <<chat, panel, input, req, limits>>

(* stop, by the button or after a minute: onstart is detached, a last        *)
(* result may still come.                                                    *)
Stopping ==
  \/ voice' = [voice EXCEPT !.status = "stopping", !.timer = "stop"] /\ UNCHANGED mic
  \/ Cancel

StopVoice ==
  /\ Active /\ voice.status \in {"starting", "listening"} /\ Stopping
  /\ UNCHANGED <<chat, panel, input, req, limits>>

OnTimer ==
  /\ \/ voice.timer \in {"start", "stop"} /\ Cancel
     \/ voice.timer = "listen" /\ Stopping
  /\ UNCHANGED <<chat, panel, input, req, limits>>

OnStart ==
  /\ mic = "opening" /\ mic' = "on"
  /\ voice' = IF voice.status = "starting"
              THEN [voice EXCEPT !.status = "listening", !.timer = "listen"] ELSE voice
  /\ UNCHANGED <<chat, panel, input, req, limits>>

(* A result replaces the draft by the one that recording began with and all  *)
(* that was understood since.                                                *)
\* mutant: dictated text replaces what was typed
OnResultAlone ==
  /\ mic = "on" /\ input' = {"dictated"}
  /\ UNCHANGED <<chat, panel, speech, req, limits>>
OnResult ==
  /\ mic = "on" /\ input' = voice.draft \cup {"dictated"}
  /\ UNCHANGED <<chat, panel, speech, req, limits>>

(* onerror and onend; the page is hidden; the effect when the panel is not   *)
(* active any more.                                                          *)
OnEnd == mic # "off" /\ Cancel /\ UNCHANGED <<chat, panel, input, req, limits>>
Hide == Recording /\ Cancel /\ UNCHANGED <<chat, panel, input, req, limits>>
Deactivate == ~Active /\ Recording /\ Cancel /\ UNCHANGED <<chat, panel, input, req, limits>>
-----------------------------------------------------------------------------
(* The server: one process, and one thread between two awaits.              *)

Visit(r, c) ==
  /\ req[r] = Unused
  /\ req' = [req EXCEPT ![r] = [Unused EXCEPT !.pc = "sent", !.client = c]]
  /\ UNCHANGED <<chat, screen, limits>>

Places(c) == {i \in DOMAIN bucket : bucket[i].client = c}
Place(c) == CHOOSE i \in Places(c) : TRUE
Times(c) == IF Places(c) = {} THEN <<>> ELSE bucket[Place(c)].times

(* Requests older than the window are dropped from the front.                *)
Recent(times) ==
  SubSeq(times, Min({i \in DOMAIN times : times[i] < Window} \cup {Len(times) + 1}), Len(times))
Serving(r) == req[r].pc \in {"reading", "asking"}
Locked == Cardinality({r \in Requests : Serving(r)}) >= Slots

(* check_rate_limit: the address becomes the one used last; the one used     *)
(* least recently is forgotten when there are too many.                      *)
Others(c) == IF Places(c) = {} THEN bucket ELSE RemoveAt(bucket, Place(c))
Remember(c, times) ==
  LET all == Append(Others(c), [client |-> c, times |-> times])
  IN IF Len(all) > MaxBuckets THEN Tail(all) ELSE all
\* mutant: the last request is not counted
FullLate(times) == Len(times) > Limit
Full(times) == Len(times) >= Limit

(* What is refused by its words is answered at once, without a model.        *)
PolicyReply == "answered"

(* _ask_leafie up to its first await: the limit, the replies that need no    *)
(* model, the slots; nobody waits for a slot.                                *)
AskLeafie(r) ==
  LET c == req[r].client
      kept == Recent(Times(c))
  IN /\ req[r].pc = "sent"
     /\ bucket' = Remember(c, IF Full(kept) THEN kept ELSE Append(kept, 0))
     /\ granted' = [d \in Clients |->
          IF d = c THEN IF Full(kept) THEN granted[c] ELSE Append(granted[c], 0)
          ELSE IF \E i \in DOMAIN bucket' : bucket'[i].client = d THEN granted[d] ELSE <<>>]
     /\ \E pc \in IF Full(kept) THEN {"refused"}
                  ELSE {PolicyReply, IF Locked THEN "refused" ELSE "reading"} :
          req' = [req EXCEPT ![r].pc = pc]
     /\ UNCHANGED <<chat, screen>>

BuildCatalog(r) ==
  /\ req[r].pc = "reading"
  /\ \E pc \in {"asking", "failed"} : req' = [req EXCEPT ![r].pc = pc]
  /\ UNCHANGED <<chat, screen, limits>>

(* The model answers, is late, or answers something that is no valid reply   *)
(* or names what is not in the catalogue.                                    *)
\* mutant: what is no reply is asked for again
GenerateAgain(r) ==
  /\ req[r].pc = "asking"
  /\ \E pc \in {"answered", "reading"} : req' = [req EXCEPT ![r].pc = pc]
  /\ UNCHANGED <<chat, screen, limits>>
GenerateReply(r) ==
  /\ req[r].pc = "asking"
  /\ \E pc \in {"answered", "failed"} : req' = [req EXCEPT ![r].pc = pc]
  /\ UNCHANGED <<chat, screen, limits>>

(* An age says no more than that the window is over.                         *)
Older(times) == [i \in DOMAIN times |-> Min({times[i] + 1, Window})]
Tick ==
  /\ bucket' = [i \in DOMAIN bucket |-> [bucket[i] EXCEPT !.times = Older(@)]]
  /\ granted' = [c \in Clients |-> Recent(Older(granted[c]))]
  /\ <<bucket, granted>>' # <<bucket, granted>>
  /\ UNCHANGED <<chat, screen, req>>

(* The process dies: what it remembers and what it was doing is lost.        *)
Restart ==
  /\ bucket' = <<>> /\ granted' = [c \in Clients |-> <<>>]
  /\ req' = [r \in Requests |-> IF req[r].pc = "sent" \/ Serving(r)
                                THEN [req[r] EXCEPT !.pc = "failed"] ELSE req[r]]
  /\ UNCHANGED <<chat, screen>>
-----------------------------------------------------------------------------
LeafieNext ==
  \/ \E u \in Visitors : Switch(u)
  \/ Adopt \/ Reload
  \/ \E text \in Texts : Suggest(text) \/ HandleSubmit(text)
  \/ Retry \/ ClearHistory
  \/ \E next \in {"closed", "open", "confirm"} : Show(next)
  \/ Type \/ StartVoice \/ StopVoice
  \/ OnTimer \/ OnStart \/ OnResult \/ OnEnd \/ Hide \/ Deactivate
  \/ \E r \in Requests :
       \/ \E c \in Clients \ {Home} : Visit(r, c)
       \/ AskLeafie(r) \/ BuildCatalog(r) \/ GenerateReply(r)
       \/ Deliver(r) \/ Abort(r)
  \/ Tick \/ Restart

(* Timers fire, answers arrive and the server ends what it has begun, by the *)
(* time limit on the model at the latest; nobody has to ask, to sign in or to *)
(* speak, and no request has to be admitted.                                 *)
Hear(r) == Deliver(r) \/ Abort(r)
Proceed(r) == BuildCatalog(r) \/ GenerateReply(r)
LeafieFairness == WF_voice(OnTimer) /\ \A r \in Requests : WF_req(Hear(r)) /\ WF_req(Proceed(r))
LeafieSpec == LeafieInit /\ [][LeafieNext]_leafieVars /\ LeafieFairness
-----------------------------------------------------------------------------
Messages == [role : {"user", "assistant"}, text : Texts, by : Visitors]
Ages == 0 .. Window

LeafieTypeOK ==
  /\ user \in Visitors /\ active \in Visitors
  /\ messages \in Seq(Messages) /\ stored \in [Visitors -> Seq(Messages)] /\ Len(messages) <= Keep
  /\ sending \in BOOLEAN /\ current \in Requests \cup {NoRequest}
  /\ failed \in Texts \cup {NoText}
  /\ panel \in {"closed", "open", "confirm"} /\ input \subseteq {"typed", "dictated"}
  /\ voice \in [status : {"idle", "starting", "listening", "stopping"},
                timer : {"none", "start", "listen", "stop"},
                draft : SUBSET {"typed", "dictated"}]
  /\ mic \in {"off", "opening", "on"}
  /\ req \in [Requests -> [pc : {"idle", "sent", "reading", "asking", "answered", "refused", "failed"},
                           client : Clients, text : Texts \cup {NoText}, by : Visitors, heard : BOOLEAN]]
  /\ bucket \in Seq([client : Clients, times : Seq(Ages)])
  /\ granted \in [Clients -> Seq(Ages)]

(* In what is on the screen and in what is kept for each account, an answer  *)
(* follows the question that it answers, asked by that account, unless the   *)
(* question was cut off at the beginning; and what is on the screen is what  *)
(* is kept.  Late answers, failed attempts, a cleared history, a page loaded *)
(* again and changes of account never mix or lose conversations.             *)
Consistent(list, u) ==
  \A i \in DOMAIN list :
    /\ list[i].by = u
    /\ list[i].role = "assistant" =>
         \/ i > 1 /\ list[i - 1] = Said("user", list[i].text, u)
         \/ i = 1 /\ Len(list) = Keep
AnswersFollowQuestions ==
  /\ \A u \in Visitors : Consistent(stored[u], u)
  /\ messages = stored[active]

(* Every conversation is whole, and every part of the chat of its type.      *)
ConversationsWhole == LeafieTypeOK /\ AnswersFollowQuestions

(* No more than the limit of an address in a window while it is remembered,  *)
(* no more calls of the model at a time than slots; and who is refused had   *)
(* used up the limit within the last window, or found every slot in use.     *)
Busy == Cardinality({r \in Requests : Serving(r)})
LimitsFair ==
  /\ [](Busy <= Slots /\ \A c \in Clients : Len(granted[c]) <= Limit)
  /\ [][\A r \in Requests : req[r].pc # "refused" /\ req'[r].pc = "refused" =>
           Len(granted[req[r].client]) >= Limit \/ Busy >= Slots]_leafieVars

(* The microphone is on only while the panel says so and a timer is armed    *)
(* that ends it; and dictation only adds to the draft, which is emptied by   *)
(* its submission, or with the page, and by nothing else.                    *)
DictationFollowed ==
  /\ []((mic # "off" => Recording) /\ (Recording <=> voice.timer # "none"))
  /\ [][input \subseteq input' \/ (input' = {} /\ (sending' \/ panel' = "closed"))]_leafieVars

(* The panel does not wait for ever, recording comes to an end, and a slot   *)
(* is given back.                                                            *)
WaitsEnd ==
  /\ sending ~> ~sending
  /\ Recording ~> ~Recording
  /\ \A r \in Requests : Serving(r) ~> ~Serving(r)
=============================================================================
