------------------------------- MODULE AgentChat -------------------------------
(***************************************************************************)
(* The operations agent's chat: the tool-use loop of one request, composed *)
(* with the approval lifecycle its proposals enter, and the admin page     *)
(* that asks and shows.                                                    *)
(*                                                                         *)
(* The model on the other end may answer, fail, or ask for any calls: what *)
(* it offers is the registry's, whether it runs is not for it to decide.   *)
(* A call is "bad" when its arguments are no JSON or are refused before    *)
(* anything happens.                                                       *)
(***************************************************************************)
EXTENDS AgentActions, ActionPolicy, Sequences

CONSTANTS
  Turns,          \* requests to /agent/chat
  MaxIterations,  \* MAX_TOOL_ITERATIONS
  MaxCalls        \* bound of this model: calls asked for in one answer of the model

ASSUME LoopBound == MaxIterations \in Nat /\ MaxCalls \in Nat \ {0}

VARIABLES
  phase,      \* where each request is in the loop
  iteration,  \* how often its model was asked
  messages,   \* the conversation the model is sent
  todo,       \* calls of the last answer that are not handled yet
  proposed,   \* proposed_actions of the loop, then of the reply
  made,       \* history: the proposals it committed
  view        \* what the page shows of it

chat == <<phase, iteration, messages, todo, proposed, made>>
chatVars == <<chat, view>>

Phases == {"free", "asking", "tools", "answered", "fallback", "replied", "fell back", "dead"}
Over == {"replied", "fell back", "dead"}
Kinds == {"read", "change", "bad"}
Ids == Nat \X Nat
Calls == [id : Ids, kind : Kinds]
Said == [role : {"user"}] \cup [role : {"assistant"}, calls : Seq(Ids)]
          \cup [role : {"tool"}, id : Ids]

ChatInit ==
  /\ Init
  /\ phase = [c \in Turns |-> "free"]
  /\ iteration = [c \in Turns |-> 0]
  /\ messages = [c \in Turns |-> <<>>]
  /\ todo = [c \in Turns |-> <<>>]
  /\ proposed = [c \in Turns |-> {}]
  /\ made = [c \in Turns |-> {}]
  /\ view = [c \in Turns |-> "none"]

Goes(c, place) == phase' = [phase EXCEPT ![c] = place]

----------------------------------------------------------------------------
(* The loop                                                                *)

\* sendChat and chat(): without a key or the client library there is no model to ask.
Send(c) ==
  /\ phase[c] = "free"
  /\ \E place \in {"asking", "fallback"} : Goes(c, place)
  /\ messages' = [messages EXCEPT ![c] = <<[role |-> "user"]>>]
  /\ view' = [view EXCEPT ![c] = "waiting"]
  /\ UNCHANGED <<vars, iteration, todo, proposed, made>>

\* The model is asked once more, and answers in words ...
Answered(c) ==
  /\ phase[c] = "asking" /\ iteration[c] < MaxIterations
  /\ Goes(c, "answered")
  /\ UNCHANGED <<vars, iteration, messages, todo, proposed, made, view>>

\* ... or asks for calls.
Asks(c) ==
  /\ phase[c] = "asking" /\ iteration[c] < MaxIterations
  /\ \E n \in 1..MaxCalls : \E kind \in [1..n -> Kinds] :
       LET ids == [i \in 1..n |-> <<iteration[c], i>>]
       IN /\ todo' = [todo EXCEPT ![c] = [i \in 1..n |-> [id |-> ids[i], kind |-> kind[i]]]]
          /\ messages' = [messages EXCEPT ![c] = Append(@, [role |-> "assistant", calls |-> ids])]
  /\ iteration' = [iteration EXCEPT ![c] = @ + 1]
  /\ Goes(c, "tools")
  /\ UNCHANGED <<vars, proposed, made, view>>

\* The tool-call limit: what was proposed is still told.
Limit(c) ==
  /\ phase[c] = "asking" /\ iteration[c] = MaxIterations
  /\ Goes(c, "answered")
  /\ UNCHANGED <<vars, iteration, messages, todo, proposed, made, view>>

\* The tool message of the call at hand; after the last one the model is asked again.
Handled(c) ==
  /\ phase[c] = "tools"
  /\ messages' = [messages EXCEPT ![c] = Append(@, [role |-> "tool", id |-> Head(todo[c]).id])]
  /\ todo' = [todo EXCEPT ![c] = Tail(@)]
  /\ Goes(c, IF Len(todo[c]) = 1 THEN "asking" ELSE "tools")
  /\ UNCHANGED <<iteration, view>>

\* A read runs at once and changes nothing; a bad call, or one that the service refuses,
\* is answered with its error.
SkipsBad(c) ==                                               \* mutant
  /\ phase[c] = "tools"
  /\ IF Head(todo[c]).kind = "bad"
       THEN /\ todo' = [todo EXCEPT ![c] = Tail(@)]
            /\ Goes(c, IF Len(todo[c]) = 1 THEN "asking" ELSE "tools")
            /\ UNCHANGED <<iteration, messages, view>>
       ELSE Handled(c)
  /\ UNCHANGED <<vars, proposed, made>>
ReadOrRefuse(c) == Handled(c) /\ UNCHANGED <<vars, proposed, made>>

\* A change is only proposed: propose_action commits the row, with a snapshot if the tool
\* is one that captures its target.
Offered == {n \in DOMAIN TOOL_REGISTRY : ~TOOL_REGISTRY[n].internal}
ProposeCall(c, a) ==
  /\ phase[c] = "tools" /\ Head(todo[c]).kind = "change"
  /\ Propose(a)
  /\ \E n \in Offered :
       /\ TOOL_REGISTRY[n].classification # "read"
       /\ seen'[a] = IF TOOL_REGISTRY[n].captures THEN live ELSE None
  /\ proposed' = [proposed EXCEPT ![c] = @ \cup {a}]
  /\ made' = [made EXCEPT ![c] = @ \cup {a}]
  /\ Handled(c)

\* Anything but a domain error, from the model, a tool or the insights that go with the
\* reply: the loop is given up, and what it proposed is not told.
Fails(c) ==
  /\ phase[c] \in {"asking", "tools", "answered"}
  /\ Goes(c, "fallback")
  /\ proposed' = [proposed EXCEPT ![c] = {}]
  /\ todo' = [todo EXCEPT ![c] = <<>>]
  /\ UNCHANGED <<vars, iteration, messages, made, view>>

\* The reply, of the model or the deterministic one.
Reply(c) ==
  /\ \E end \in {<<"answered", "replied">>, <<"fallback", "fell back">>} :
       phase[c] = end[1] /\ Goes(c, end[2])
  /\ UNCHANGED <<vars, iteration, messages, todo, proposed, made, view>>

\* The fallback's own query fails, or the process ends.
Dies(c) ==
  /\ phase[c] \notin {"free"} \cup Over
  /\ Goes(c, "dead")
  /\ UNCHANGED <<vars, iteration, messages, todo, proposed, made, view>>

----------------------------------------------------------------------------
(* The page                                                                *)

\* The reply, or an error in its place; the box is free for the next question.
OnlyReplies(c) ==                                            \* mutant
  /\ view[c] = "waiting" /\ phase[c] \in {"replied", "fell back"}
  /\ view' = [view EXCEPT ![c] = "reply"]
  /\ UNCHANGED <<vars, chat>>
Receive(c) ==
  /\ view[c] = "waiting" /\ phase[c] \in Over
  /\ view' = [view EXCEPT ![c] = IF phase[c] = "dead" THEN "error" ELSE "reply"]
  /\ UNCHANGED <<vars, chat>>

\* The connection breaks while the loop goes on.
Disconnect(c) ==
  /\ view[c] = "waiting"
  /\ view' = [view EXCEPT ![c] = "error"]
  /\ UNCHANGED <<vars, chat>>

Loop(c) ==
  \/ Answered(c) \/ Asks(c) \/ Limit(c) \/ ReadOrRefuse(c)
  \/ \E a \in Actions : ProposeCall(c, a)
  \/ Fails(c) \/ Reply(c)

ChatStep(c) == Send(c) \/ Loop(c) \/ Dies(c) \/ Receive(c) \/ Disconnect(c)

ChatNext ==
  \/ Next /\ UNCHANGED chatVars
  \/ \E c \in Turns : ChatStep(c)

\* A request at work goes on, the calls to the model have a timeout, and an answer or a
\* broken connection reaches the page.
ChatFairness == \A c \in Turns : WF_<<chat, view>>(Loop(c)) /\ WF_view(Receive(c))
ChatSpec == ChatInit /\ [][ChatNext]_<<vars, chatVars>> /\ ChatFairness

----------------------------------------------------------------------------
(* Properties                                                              *)

\* The types of the lifecycle and of the loop.
ChatTypeOK ==
  /\ TypeOK
  /\ phase \in [Turns -> Phases]
  /\ iteration \in [Turns -> 0..MaxIterations]
  /\ messages \in [Turns -> Seq(Said)] /\ todo \in [Turns -> Seq(Calls)]
  /\ proposed \in [Turns -> SUBSET Actions] /\ made \in [Turns -> SUBSET Actions]
  /\ view \in [Turns -> {"none", "waiting", "reply", "error"}]

\* Whenever the model is asked, each call it ever asked for has its one answer, right
\* behind the message that asked and in its order: the completions API refuses a
\* conversation with a call left open.
CallsAnswered ==
  \A c \in Turns : phase[c] = "asking" =>
    \A i \in DOMAIN messages[c] : messages[c][i].role = "assistant" =>
      \A k \in DOMAIN messages[c][i].calls :
        /\ i + k \in DOMAIN messages[c]
        /\ messages[c][i + k] = [role |-> "tool", id |-> messages[c][i].calls[k]]

\* A reply in the model's words names every proposal its loop left in the queue, and no
\* other: no colleague's, and none that a later call's error hides.
RepliesTell ==
  \A c \in Turns : phase[c] = "replied" => proposed[c] = made[c]

\* What a reply names is in the log, and no two turns made it.
ProposalsOwned ==
  \A c, d \in Turns :
    /\ proposed[c] \subseteq {a \in made[c] : status[a] # "none"}
    /\ c # d => made[c] \cap made[d] = {}

\* A turn is whole: what its model is sent, what it proposed and what its reply tells
\* belong together, whatever a call or another turn does.
TurnsTold == ChatTypeOK /\ CallsAnswered /\ RepliesTell /\ ProposalsOwned

\* Every question is answered, if only by an error: the model cannot keep the loop going.
TurnsEnd == \A c \in Turns : view[c] = "waiting" ~> view[c] # "waiting"
=============================================================================
