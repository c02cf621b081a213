-------------------------- MODULE ConversationFlow --------------------------
(***************************************************************************)
(* The conversation orchestrator of agent-host: how one conversation is    *)
(* driven over its WebSocket connections.  Every connection has a context  *)
(* (orchestrator state, current item) kept in memory, and all connections  *)
(* of the conversation share one persisted aggregate.                      *)
(*                                                                         *)
(* A connection c has a receive loop, thread <<c, 0>>, which handles one   *)
(* client message to its end before it reads the next, and the background  *)
(* tasks <<c, 1>>, <<c, 2>>, ... that handle_flow_start creates.  A thread *)
(* keeps the processor from one await to the next, so every action below   *)
(* is the code between two awaits, and pc says at which await a thread     *)
(* stands:                                                                 *)
(*   off      never started            start     connected, flow to start  *)
(*   idle     waiting for a message    intro     introduction message      *)
(*   load     item query               render    rendering the item        *)
(*   close    completion command       done      background task ended     *)
(*   send     storing a user message   agent     agent streaming           *)
(*   reply    storing the answer       unsaved   agent, message not stored *)
(*   respond  widget response handled  record    scoring, then storing     *)
(*   advance  advancing the aggregate  next      back from persisting      *)
(***************************************************************************)
EXTENDS Integers, FiniteSets

CONSTANTS
  Conns,          \* the WebSocket connections ever opened on the conversation
  MaxRestarts,    \* bound: background flow tasks per connection
  N,              \* number of template items
  Widgets,        \* widget identifiers
  Required,       \* required widgets of each item
  Confirm,        \* items with a confirmation button
  Proactive,      \* template attached and agent starts first
  ContinueAfter,  \* template option continue_after_completion
  Faults,         \* which calls may fail: "load", "render", "persist", "agent"
  MaxProgress,    \* bound: no response is sent once progress is this high
  MaxMessages     \* bound: user messages sent

Items == 0 .. N - 1

FaultKinds == {"load", "render", "persist", "agent"}

ASSUME ItemsAssumption ==
  /\ N \in Nat \ {0}
  /\ Required \in [Items -> SUBSET Widgets]
  /\ Confirm \subseteq Items

ASSUME ModeAssumption ==
  /\ Proactive \in BOOLEAN
  /\ ContinueAfter \in BOOLEAN
  /\ Faults \subseteq FaultKinds

\* a template asks for finitely many widgets
ASSUME WidgetsAssumption == IsFiniteSet(Widgets)

ASSUME BoundsAssumption ==
  /\ MaxRestarts \in Nat
  /\ MaxProgress \in Nat
  /\ MaxMessages \in Nat

VARIABLES
  state,      \* ConversationContext.state
  index,      \* ConversationContext.current_item_index
  item,       \* ConversationContext.current_item_state
  attached,   \* membership of Orchestrator._contexts
  persisted,  \* ConversationContext.persisted_status is "completed"
  pc,         \* await at which each thread stands
  arg,        \* index of the item a thread is about to load or render
  held,       \* completed item state the receive loop is persisting
  batch,      \* widget submission the receive loop is working through
  responses,  \* item responses stored in the aggregate
  lost,       \* items whose RecordItemResponseCommand failed
  progress,   \* template_progress.current_index of the aggregate
  completed,  \* the aggregate's status is COMPLETED
  sent,       \* user messages accepted
  pending     \* assistant placeholders still in status PENDING

ctxVars == <<state, index, item>>
connVars == <<attached, persisted>>
workVars == <<arg, held, batch>>
convVars == <<responses, lost, progress, completed>>
msgVars == <<sent, pending>>
vars == <<ctxVars, connVars, pc, workVars, convVars, msgVars>>

-----------------------------------------------------------------------------
(* Values. *)

OrchestratorState == {"initializing", "ready", "presenting", "processing",
                      "suspended", "paused", "completed", "error"}

ItemState == [idx : Items, answered : SUBSET Widgets, confirmed : BOOLEAN]
NoItem == [idx |-> N, answered |-> {}, confirmed |-> FALSE]

Submission == [item : Items, todo : SUBSET Widgets,
               last : Widgets \cup {"confirm"}]

NoSubmission == [item |-> 0, todo |-> {}, last |-> "confirm"]

Threads == Conns \X (0 .. MaxRestarts)
Loop(c) == <<c, 0>>
ConnOf(t) == t[1]
IsLoop(t) == t[2] = 0

PC == {"off", "start", "idle", "intro", "load", "render", "close", "done",
       "send", "agent", "reply", "unsaved", "respond", "record", "advance",
       "next"}

StoredItems == {r.idx : r \in responses}

(* Items the user has answered to the end: stored, or lost by a command    *)
(* that failed.                                                            *)
AnsweredItems == StoredItems \cup lost

-----------------------------------------------------------------------------
(* Item execution. *)

NewItem(i) == [idx |-> i, answered |-> {}, confirmed |-> FALSE]

\* what a reader of is_complete expects of a finished item
RequirementsMet(s) ==
  /\ Required[s.idx] \subseteq s.answered
  /\ s.idx \in Confirm => s.confirmed

\* variant: the confirmation button is not awaited
IsCompleteUnconfirmed(s) == Required[s.idx] \subseteq s.answered

IsComplete(s) == RequirementsMet(s)

Answer(s, w) ==
  IF w = "confirm" THEN [s EXCEPT !.confirmed = TRUE]
  ELSE [s EXCEPT !.answered = @ \cup ({w} \cap Required[s.idx])]

\* an item with nothing to answer is informational
Interactive(i) == Required[i] # {} \/ i \in Confirm

-----------------------------------------------------------------------------
(* Threads. *)

Goto(t, to) == pc' = [pc EXCEPT ![t] = to]

Finished(t) == IF IsLoop(t) THEN "idle" ELSE "done"

\* the thread's handler or task ends; a receive loop drops its locals
End(t) ==
  /\ Goto(t, Finished(t))
  /\ arg' = [arg EXCEPT ![t] = 0]
  /\ IF IsLoop(t)
       THEN /\ held' = [held EXCEPT ![ConnOf(t)] = NoItem]
            /\ batch' = [batch EXCEPT ![ConnOf(t)] = NoSubmission]
       ELSE UNCHANGED <<held, batch>>

SetState(c, s) == state' = [state EXCEPT ![c] = s]

Receives(c) == attached[c] = "open" /\ pc[Loop(c)] = "idle"

Init ==
  /\ state = [c \in Conns |-> "initializing"]
  /\ index = [c \in Conns |-> 0]
  /\ item = [c \in Conns |-> NoItem]
  /\ attached = [c \in Conns |-> "new"]
  /\ persisted = [c \in Conns |-> FALSE]
  /\ pc = [t \in Threads |-> "off"]
  /\ arg = [t \in Threads |-> 0]
  /\ held = [c \in Conns |-> NoItem]
  /\ batch = [c \in Conns |-> NoSubmission]
  /\ responses = {}
  /\ lost = {}
  /\ progress = 0
  /\ completed = FALSE
  /\ sent = 0
  /\ pending = 0

-----------------------------------------------------------------------------
(* Connections. *)

\* Orchestrator.initialize: a fresh context, with the status stored by then
Connect(c) ==
  /\ attached[c] = "new"
  /\ attached' = [attached EXCEPT ![c] = "open"]
  /\ persisted' = [persisted EXCEPT ![c] = completed]
  /\ Goto(Loop(c), "start")
  /\ UNCHANGED <<ctxVars, workVars, convVars, msgVars>>

\* the socket closes, or the server closes it, whatever the threads are doing
Disconnect(c) ==
  /\ attached[c] = "open"
  /\ attached' = [attached EXCEPT ![c] = "gone"]
  /\ UNCHANGED <<ctxVars, persisted, pc, workVars, convVars, msgVars>>

StartConversationFlow(c) ==
  /\ pc[Loop(c)] = "start"
  /\ \/ /\ attached[c] = "gone"
        /\ Goto(Loop(c), "idle")
        /\ UNCHANGED state
     \/ /\ attached[c] = "open"
        /\ persisted[c] /\ ~ContinueAfter
        /\ SetState(c, "completed")
        /\ Goto(Loop(c), "idle")
     \/ /\ attached[c] = "open"
        /\ ~persisted[c] \/ ContinueAfter
        /\ SetState(c, IF Proactive THEN "presenting" ELSE "ready")
        /\ Goto(Loop(c), IF Proactive THEN "intro" ELSE "idle")
  /\ UNCHANGED <<index, item, connVars, workVars, convVars, msgVars>>

-----------------------------------------------------------------------------
(* The template flow, run by a receive loop or by a background task. *)

\* variant: item indexes taken as one-based
FirstItemOneBased == 1

FirstItem == 0

\* run_proactive_flow, after the introduction: always from the first item
RunProactiveFlow(t) ==
  /\ pc[t] = "intro"
  /\ arg' = [arg EXCEPT ![t] = FirstItem]
  /\ Goto(t, "load")
  /\ UNCHANGED <<ctxVars, connVars, held, batch, convVars, msgVars>>

\* on the way from a widget response an exception only reaches the router
Advancing(t) == IsLoop(t) /\ held[ConnOf(t)] # NoItem

(* The item query fails: an error is sent and the state stays as it was.   *)
(* When it raises, run_proactive_flow turns that into ERROR.               *)
LoadFails(t) ==
  /\ "load" \in Faults
  /\ pc[t] = "load" /\ arg[t] < N
  /\ \/ UNCHANGED state
     \/ ~Advancing(t) /\ SetState(ConnOf(t), "error")
  /\ End(t)
  /\ UNCHANGED <<index, item, connVars, convVars, msgVars>>

\* variant: the item's answers are not reset
PresentItemKeepingAnswers(t) ==
  /\ pc[t] = "load" /\ arg[t] < N
  /\ index' = [index EXCEPT ![ConnOf(t)] = arg[t]]
  /\ item' = [item EXCEPT ![ConnOf(t)].idx = arg[t]]
  /\ Goto(t, "render")
  /\ UNCHANGED <<state, connVars, workVars, convVars, msgVars>>

PresentItem(t) ==
  /\ pc[t] = "load" /\ arg[t] < N
  /\ index' = [index EXCEPT ![ConnOf(t)] = arg[t]]
  /\ item' = [item EXCEPT ![ConnOf(t)] = NewItem(arg[t])]
  /\ Goto(t, "render")
  /\ UNCHANGED <<state, connVars, workVars, convVars, msgVars>>

(* The state after rendering depends on the required widgets of whatever   *)
(* item is current by then and on the confirmation of the rendered one.    *)
StateAfterRender(t) ==
  IF Required[item[ConnOf(t)].idx] # {} \/ arg[t] \in Confirm
  THEN "suspended" ELSE "ready"

FinishRender(t) ==
  /\ pc[t] = "render"
  /\ SetState(ConnOf(t), StateAfterRender(t))
  /\ End(t)
  /\ UNCHANGED <<index, item, connVars, convVars, msgVars>>

\* rendering raises, as a raised load does
RenderFails(t) ==
  /\ "render" \in Faults
  /\ pc[t] = "render"
  /\ IF Advancing(t)
     THEN UNCHANGED state
     ELSE SetState(ConnOf(t), "error")
  /\ End(t)
  /\ UNCHANGED <<index, item, connVars, convVars, msgVars>>

\* complete_flow, after the score report and the completion message
CompleteFlow(t) ==
  /\ pc[t] = "load" /\ arg[t] >= N
  /\ IF ContinueAfter
     THEN SetState(ConnOf(t), "ready") /\ End(t)
     ELSE /\ SetState(ConnOf(t), "completed")
          /\ Goto(t, "close")
          /\ UNCHANGED workVars
  /\ UNCHANGED <<index, item, connVars, convVars, msgVars>>

\* CompleteConversationCommand; a failure is only logged
PersistCompletion(t) ==
  /\ pc[t] = "close"
  /\ \/ completed' = TRUE
     \/ "persist" \in Faults /\ UNCHANGED completed
  /\ End(t)
  /\ UNCHANGED <<ctxVars, connVars, responses, lost, progress, msgVars>>

-----------------------------------------------------------------------------
(* User messages. *)

AcceptsMessage(c) == state[c] \in {"ready", "suspended"}

UserMessage(c) ==
  /\ sent < MaxMessages
  /\ Receives(c) /\ AcceptsMessage(c)
  /\ SetState(c, "processing")
  /\ sent' = sent + 1
  /\ Goto(Loop(c), "send")
  /\ UNCHANGED <<index, item, connVars, workVars, convVars, pending>>

\* variant: the placeholder is saved first, and the save of the message raises
PersistPlaceholderFirst(c) ==
  /\ pc[Loop(c)] = "send"
  /\ pending' = pending + 1
  /\ \/ /\ Goto(Loop(c), "agent")
        /\ UNCHANGED <<state, workVars>>
     \/ /\ "persist" \in Faults
        /\ SetState(c, "error")
        /\ End(Loop(c))
  /\ UNCHANGED <<index, item, connVars, convVars, sent>>

(* SendMessageCommand adds the user message and a pending assistant        *)
(* message.  When it fails the agent answers without them; when it raises  *)
(* the handler ends.                                                       *)
PersistUserMessage(c) ==
  /\ pc[Loop(c)] = "send"
  /\ \/ /\ pending' = pending + 1
        /\ Goto(Loop(c), "agent")
        /\ UNCHANGED <<state, workVars>>
     \/ /\ "persist" \in Faults
        /\ Goto(Loop(c), "unsaved")
        /\ UNCHANGED <<state, workVars, pending>>
     \/ /\ "persist" \in Faults
        /\ SetState(c, "error")
        /\ End(Loop(c))
        /\ UNCHANGED pending
  /\ UNCHANGED <<index, item, connVars, convVars, sent>>

AgentAnswers(c) ==
  /\ pc[Loop(c)] = "agent"
  /\ Goto(Loop(c), "reply")
  /\ UNCHANGED <<ctxVars, connVars, workVars, convVars, msgVars>>

(* Nothing to store: run_stream returns None or nothing, which leaves the  *)
(* placeholder as it is, or there is no placeholder to complete.           *)
NoReply(c) ==
  /\ \/ "agent" \in Faults /\ pc[Loop(c)] = "agent"
     \/ pc[Loop(c)] = "unsaved"
  /\ SetState(c, "ready")
  /\ End(Loop(c))
  /\ UNCHANGED <<index, item, connVars, convVars, msgVars>>

\* a failure is only logged, an exception is an error
CompleteMessage(c) ==
  /\ pc[Loop(c)] = "reply"
  /\ \/ /\ pending' = pending - 1
        /\ SetState(c, "ready")
     \/ /\ "persist" \in Faults
        /\ SetState(c, "ready") \/ SetState(c, "error")
        /\ UNCHANGED pending
  /\ End(Loop(c))
  /\ UNCHANGED <<index, item, connVars, convVars, sent>>

-----------------------------------------------------------------------------
(* Widget responses. *)

(* The client submits one widget, or a batch of widgets followed by the    *)
(* confirmation button.  It may name any item it has on screen.            *)
SubmitResponse(c) ==
  /\ progress < MaxProgress
  /\ Receives(c)
  /\ \E s \in Submission :
       /\ s.todo # {} => s.last = "confirm"
       /\ batch' = [batch EXCEPT ![c] = s]
  /\ Goto(Loop(c), "respond")
  /\ UNCHANGED <<ctxVars, connVars, arg, held, convVars, msgVars>>

Matches(c) == item[c].idx = batch[c].item

(* One widget of a batch, recorded without checking for completion.  The   *)
(* next call of the batch needs the context to be still registered.        *)
RespondInBatch(c) ==
  /\ pc[Loop(c)] = "respond"
  /\ \E w \in batch[c].todo :
       /\ IF Matches(c)
          THEN item' = [item EXCEPT ![c] = Answer(@, w)]
          ELSE UNCHANGED item
       /\ IF attached[c] = "open"
          THEN /\ batch' = [batch EXCEPT ![c].todo = @ \ {w}]
               /\ UNCHANGED <<pc, arg, held>>
          ELSE End(Loop(c))
       /\ IF ~Matches(c) /\ ~Proactive
          THEN SetState(c, "ready")
          ELSE UNCHANGED state
  /\ UNCHANGED <<index, connVars, convVars, msgVars>>

\* the single widget, or the confirmation that ends a batch
RespondLast(c) ==
  /\ pc[Loop(c)] = "respond" /\ batch[c].todo = {}
  /\ IF Matches(c)
     THEN LET answered == Answer(item[c], batch[c].last)
          IN  /\ item' = [item EXCEPT ![c] = answered]
              /\ IF IsComplete(answered)
                 THEN /\ held' = [held EXCEPT ![c] = answered]
                      /\ batch' = [batch EXCEPT ![c] = NoSubmission]
                      /\ Goto(Loop(c), "record")
                      /\ UNCHANGED arg
                 ELSE End(Loop(c))
              /\ UNCHANGED state
     ELSE /\ IF Proactive THEN UNCHANGED state ELSE SetState(c, "ready")
          /\ End(Loop(c))
          /\ UNCHANGED item
  /\ UNCHANGED <<index, connVars, convVars, msgVars>>

(* After scoring, RecordItemResponseCommand.  When it fails the response   *)
(* is lost and the template advanced all the same; when it raises the      *)
(* template is not advanced either, and the flow goes on.                  *)
RecordResponse(c) ==
  /\ pc[Loop(c)] = "record"
  /\ \/ /\ responses' = responses \cup {held[c]}
        /\ Goto(Loop(c), "advance")
        /\ UNCHANGED lost
     \/ /\ "persist" \in Faults
        /\ lost' = lost \cup {held[c].idx}
        /\ Goto(Loop(c), "advance") \/ Goto(Loop(c), "next")
        /\ UNCHANGED responses
  /\ UNCHANGED <<ctxVars, connVars, workVars, progress, completed, msgVars>>

AdvanceTemplate(c) ==
  /\ pc[Loop(c)] = "advance"
  /\ \/ progress' = progress + 1
     \/ "persist" \in Faults /\ UNCHANGED progress
  /\ Goto(Loop(c), "next")
  /\ UNCHANGED <<ctxVars, connVars, workVars, responses, lost, completed,
                 msgVars>>

\* variants: an item is skipped, the same item comes again, or the index
\* is taken from the aggregate
NextIndexSkipping(c) == index[c] + 2
NextIndexStuck(c) == index[c]
NextIndexPersisted(c) == progress

\* the index to go to is read from the context after the commands returned
NextIndex(c) == index[c] + 1

AdvanceToNextItem(c) ==
  /\ pc[Loop(c)] = "next"
  /\ arg' = [arg EXCEPT ![Loop(c)] = NextIndex(c)]
  /\ Goto(Loop(c), "load")
  /\ UNCHANGED <<ctxVars, connVars, held, batch, convVars, msgVars>>

-----------------------------------------------------------------------------
(* Flow control messages. *)

CanStart(c) == Proactive /\ state[c] = "ready"

\* the proactive flow runs in a background task beside the receive loop
FlowStart(c) ==
  /\ Receives(c) /\ CanStart(c)
  /\ SetState(c, "presenting")
  /\ \E k \in 1 .. MaxRestarts :
       /\ pc[<<c, k>>] = "off"
       /\ Goto(<<c, k>>, "intro")
  /\ UNCHANGED <<index, item, connVars, workVars, convVars, msgVars>>

FlowPause(c) ==
  /\ Receives(c)
  /\ SetState(c, "paused")
  /\ UNCHANGED <<index, item, connVars, pc, workVars, convVars, msgVars>>

FlowCancel(c) ==
  /\ Receives(c)
  /\ SetState(c, "ready")
  /\ UNCHANGED <<index, item, connVars, pc, workVars, convVars, msgVars>>

-----------------------------------------------------------------------------
(* Specification. *)

\* steps of the server: every one ends an await that was under way
FlowStep(t) ==
  \/ RunProactiveFlow(t) \/ LoadFails(t) \/ PresentItem(t)
  \/ FinishRender(t) \/ RenderFails(t)
  \/ CompleteFlow(t) \/ PersistCompletion(t)

LoopStep(c) ==
  \/ StartConversationFlow(c)
  \/ PersistUserMessage(c) \/ AgentAnswers(c) \/ NoReply(c)
  \/ CompleteMessage(c)
  \/ RespondInBatch(c) \/ RespondLast(c)
  \/ RecordResponse(c) \/ AdvanceTemplate(c) \/ AdvanceToNextItem(c)

\* steps of the client and of the network
ClientStep(c) ==
  \/ Connect(c) \/ Disconnect(c)
  \/ UserMessage(c) \/ SubmitResponse(c)
  \/ FlowStart(c) \/ FlowPause(c) \/ FlowCancel(c)

Next ==
  \/ \E t \in Threads : FlowStep(t)
  \/ \E c \in Conns : LoopStep(c) \/ ClientStep(c)

Spec == Init /\ [][Next]_vars

\* the event loop runs every ready thread and every awaited call returns
ServerFairness ==
  /\ \A t \in Threads : WF_vars(FlowStep(t))
  /\ \A c \in Conns : WF_vars(LoopStep(c))

FairSpec == Spec /\ ServerFairness

-----------------------------------------------------------------------------
(* Type invariant. *)

TypeOK ==
  /\ state \in [Conns -> OrchestratorState]
  /\ index \in [Conns -> Items]
  /\ item \in [Conns -> ItemState \cup {NoItem}]
  /\ attached \in [Conns -> {"new", "open", "gone"}]
  /\ persisted \in [Conns -> BOOLEAN]
  /\ pc \in [Threads -> PC]
  /\ arg \in [Threads -> 0 .. N]
  /\ held \in [Conns -> ItemState \cup {NoItem}]
  /\ batch \in [Conns -> Submission \cup {NoSubmission}]
  /\ responses \subseteq ItemState
  /\ lost \subseteq Items
  /\ progress \in Nat
  /\ completed \in BOOLEAN
  /\ sent \in Nat
  /\ pending \in Int

-----------------------------------------------------------------------------
(* Safety, for every interleaving of receive loops, background tasks,      *)
(* reconnects and failing calls.                                           *)

(* A response reaches the aggregate only with all the required widgets of  *)
(* its item answered, and confirmed where the item asks for it, although   *)
(* scoring and a re-presentation may come between check and storing        *)
(* (handle_widget_response, persist_item_response).                        *)
StoredResponsesComplete == \A r \in responses : RequirementsMet(r)

(* Items are answered in template order: an item is answered only after    *)
(* all earlier ones, even when a restarted flow or a second connection     *)
(* moves the current item behind a response that is being persisted        *)
(* (present_item, advance_to_next_item).                                   *)
AnsweredInOrder ==
  \A i \in AnsweredItems : \A j \in 0 .. i : j \in AnsweredItems

(* A conversation stored as completed had every item of its template       *)
(* answered; only a response whose own command failed can be missing from  *)
(* the aggregate (complete_flow, persist_item_response).                   *)
CompletionCoversEveryItem == completed => AnsweredItems = Items

(* As long as no command fails, a completed conversation has the response  *)
(* of every item in the aggregate (persist_item_response).                 *)
CompletionStored ==
  "persist" \notin Faults /\ completed => StoredItems = Items

\* a background flow was started beside the receive loop
Restarted(c) == \E k \in 1 .. MaxRestarts : pc[<<c, k>>] # "off"

(* An open connection at rest in SUSPENDED has something left to answer on *)
(* the current item: no complete item waits for a response that nobody     *)
(* will send, as long as items can be loaded.  Two exceptions remain: an   *)
(* informational item shown by a flow that another one ran beside or whose *)
(* rendering failed, and the last item, when a background flow was         *)
(* rendering while the receive loop completed the template (present_item,  *)
(* handle_widget_response, handle_flow_start).                             *)
SuspendedAwaitsResponse ==
  "load" \notin Faults =>
    \A c \in Conns :
      Receives(c) /\ state[c] = "suspended" =>
        /\ item[c] # NoItem
        /\ \/ ~RequirementsMet(item[c])
           \/ /\ ~Interactive(item[c].idx)
              /\ Restarted(c) \/ "render" \in Faults
           \/ item[c].idx = N - 1 /\ Restarted(c)

-----------------------------------------------------------------------------
(* Action properties. *)

(* No item is presented before all those ahead of it in the template are   *)
(* answered, although the index to go to is read from the context only     *)
(* after the commands returned and a background task may have moved it in  *)
(* between (advance_to_next_item, _present_item_at_index).                 *)
NoItemSkipped ==
  [][\A c \in Conns :
       index'[c] # index[c] =>
         \A j \in 0 .. index'[c] - 1 : j \in AnsweredItems]_vars

\* PENDING assistant messages that no receive loop is working on any more
Orphans ==
  pending - Cardinality({c \in Conns : pc[Loop(c)] \in {"agent", "reply"}})

(* An assistant placeholder is abandoned only by its own handler, one at a *)
(* time, as the agent gives no answer or storing the answer fails: no      *)
(* other step, of this connection or another, leaves one PENDING for good  *)
(* or completes one that is not being answered (handle_user_message,       *)
(* SendMessageCommand, CompleteMessageCommand).                            *)
RepliesAccounted ==
  [][\/ Orphans' = Orphans
     \/ /\ Orphans' = Orphans + 1
        /\ \E c \in Conns :
             /\ \/ pc[Loop(c)] = "agent" /\ "agent" \in Faults
                \/ pc[Loop(c)] = "reply" /\ "persist" \in Faults
             /\ pc'[Loop(c)] = "idle"]_vars

\* the most awaits a thread can still have before it, from each one
AwaitsAhead ==
  [off |-> 0, idle |-> 0, done |-> 0,
   start |-> 4, intro |-> 3, load |-> 2, render |-> 1, close |-> 1,
   send |-> 3, agent |-> 2, reply |-> 1, unsaved |-> 1,
   respond |-> 6, record |-> 5, advance |-> 4, next |-> 3]

\* and one more for every widget of a batch still to be recorded
StepsLeft(t) ==
  AwaitsAhead[pc[t]] +
  IF pc[t] = "respond" THEN Cardinality(batch[ConnOf(t)].todo) ELSE 0

HandlerStep(t) == FlowStep(t) \/ (IsLoop(t) /\ LoopStep(ConnOf(t)))

(* Every await of a handler or a background task brings it nearer to its   *)
(* end, whatever the batch holds, whether the connection is still there    *)
(* and whichever call fails, and no other thread, message or disconnect    *)
(* moves it or touches its locals (handle_widget_response,                 *)
(* run_proactive_flow, handle_flow_start).                                 *)
HandlersAdvance ==
  [][\A t \in Threads :
       pc[t] \notin {"off", "idle", "done"} =>
         \/ HandlerStep(t) /\ StepsLeft(t)' < StepsLeft(t)
         \/ /\ ~HandlerStep(t)
            /\ UNCHANGED <<pc[t], arg[t]>>
            /\ IsLoop(t) => UNCHANGED <<held[ConnOf(t)],
                                        batch[ConnOf(t)]>>]_vars

-----------------------------------------------------------------------------
(* Liveness. *)

\* a user who goes on answering what the current item still asks for
AnswersCurrent(c) ==
  /\ SubmitResponse(c)
  /\ item[c] # NoItem
  /\ batch'[c].item = item[c].idx
  /\ \/ batch'[c].last \in Required[item[c].idx] \ item[c].answered
     \/ /\ item[c].idx \in Confirm /\ batch'[c].last = "confirm"
        /\ Required[item[c].idx] \subseteq item[c].answered \cup batch'[c].todo

(* Strong fairness: the socket delivers the answer in its turn, after the  *)
(* other messages that the client sent before it.                          *)
PatientUserSpec == FairSpec /\ \A c \in Conns : SF_vars(AnswersCurrent(c))

(* A proactive template of interactive items, with one connection that     *)
(* stays open, is completed by a user who keeps answering, in whatever     *)
(* order messages, pauses and cancellations come in between                *)
(* (handle_widget_response, advance_to_next_item, complete_flow).          *)
PatientUserCompletes ==
  <>[](\E c \in Conns : attached[c] = "open") => <>completed

-----------------------------------------------------------------------------
(* The strengthening that makes the safety invariants inductive. *)

Answered(S) == \A j \in S : j \in AnsweredItems

\* the context's index is that of its item, and items before it are answered
ContextInOrder ==
  \A c \in Conns :
    /\ index[c] = IF item[c] = NoItem THEN 0 ELSE item[c].idx
    /\ Answered(0 .. index[c] - 1)

(* The response being persisted is complete, and the current item may have *)
(* gone back while it waited but never ahead of it.                        *)
HeldInOrder ==
  \A c \in Conns :
    /\ pc[Loop(c)] \in {"record", "advance", "next"} =>
         /\ held[c] \in ItemState
         /\ RequirementsMet(held[c])
         /\ index[c] <= held[c].idx
         /\ Answered(0 .. held[c].idx - 1)
    /\ pc[Loop(c)] \in {"advance", "next"} => held[c].idx \in AnsweredItems

\* an item is loaded or rendered only when those before it are answered
ArgInOrder ==
  \A t \in Threads :
    /\ ~IsLoop(t) => arg[t] = 0
    /\ pc[t] \in {"load", "render"} => Answered(0 .. arg[t] - 1)
    /\ pc[t] = "close" => Answered(Items)

IInv ==
  /\ TypeOK
  /\ StoredResponsesComplete
  /\ AnsweredInOrder
  /\ CompletionCoversEveryItem
  /\ ContextInOrder
  /\ HeldInOrder
  /\ ArgInOrder

-----------------------------------------------------------------------------
(* The abstract specification. *)

Run == INSTANCE TemplateRun WITH answered <- AnsweredItems

(* The orchestrator implements TemplateRun: each stored (or lost) response *)
(* answers the next item of the template or none, and the aggregate is     *)
(* completed only at the end (persist_item_response, complete_flow).       *)
RefinesTemplateRun == Run!Spec

=============================================================================
